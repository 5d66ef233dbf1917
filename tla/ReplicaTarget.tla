---------------------------- MODULE ReplicaTarget ----------------------------
(***************************************************************************)
(* The replica-target observer (internal/spread/replicatarget.go): on a    *)
(* ticker it lists deployments and pods, resolves the target of each       *)
(* deployment from its HPAs, its KEDA ScaledObject or its own replicas,    *)
(* and exports one sample per service.  Each list is a cache read of its   *)
(* own, and the world goes on changing between them.                       *)
(*                                                                         *)
(* One namespace is modelled, with the debug gauges (per node and per      *)
(* deployment) switched off, as they are by default.                       *)
(***************************************************************************)
EXTENDS StableDomain, FiniteSets, FiniteSetsExt

CONSTANTS
  Dep,           \* names of deployments
  Service,       \* values of the service label
  Variants,      \* what each kind of object may be changed to
  Start,         \* the worlds in which the scheduler may start
  KedaKnown,     \* newKEDAIndexer found the ScaledObject resource
  Half32,        \* 2^31, half the number of int32 values
  Unlabelled, Unset, None,
  MaxEvents      \* bound on changes of the world and failed reads

VARIABLES
  world,     \* the objects in the informer caches, a field for each kind
  synced,    \* the ScaledObject informer has synced
  pc, round, \* where the export loop is, and what this round has read
  lastGood,  \* lastGood[d]: the remembered target, None at first
  gauges,    \* gauges[s]: the exported sample, None at first
  deficits,  \* deficits[s]: the capacity deficit gauge, None at first
  clean,     \* every read of this round succeeded, and nothing has changed
  events     \* changes and failures so far

\* Objects as the API server lets them into the caches.  Replica counts are not
\* negative, other numbers are any int32; names of nodes are unique.
DepsOK(v) == DOMAIN v \subseteq Dep /\ \A d \in DOMAIN v : v[d].replicas \in Nat
HPAsOK(v) ==
  IsFiniteSet(v) /\ \A h \in v : h.desired \in Nat /\ h.max \in -Half32 .. Half32 - 1
ScaledOK(v) == \A d \in Dep : v[d] \in {None, Unset} \/ v[d] \in Int
PodsOK(v) ==
  IsFiniteSet(v) /\ \A p \in v : p.phase \in {"Pending", "Running", "Succeeded", "Failed"}
NodesOK(v) == IsFiniteSet(v) /\ \A m, n \in v : m.name = n.name => m = n
PoliciesOK(v) == IsFiniteSet(v) /\ \A p \in v : p.maxPodsPerNode \in Nat

WorldOK(w) ==
  /\ w = [deps |-> w.deps, hpas |-> w.hpas, scaled |-> w.scaled, pods |-> w.pods,
          nodes |-> w.nodes, policies |-> w.policies, held |-> w.held]
  /\ DepsOK(w.deps) /\ HPAsOK(w.hpas) /\ ScaledOK(w.scaled) /\ PodsOK(w.pods)
  /\ NodesOK(w.nodes) /\ PoliciesOK(w.policies)

ASSUME ObserverAssumption ==
  /\ IsFiniteSet(Dep) /\ Unlabelled \notin Service
  /\ KedaKnown \in BOOLEAN /\ Half32 \in Nat \ {0} /\ MaxEvents \in Nat
  /\ \A w \in Start : WorldOK(w)
  /\ \A v \in Variants.deps : DepsOK(v)
  /\ \A v \in Variants.hpas : HPAsOK(v)
  /\ \A v \in Variants.scaled : ScaledOK(v)
  /\ \A v \in Variants.pods : PodsOK(v)
  /\ \A v \in Variants.nodes : NodesOK(v)
  /\ \A v \in Variants.policies : PoliciesOK(v)

observerVars == <<world, synced, pc, round, lastGood, gauges, deficits, clean, events>>
-----------------------------------------------------------------------------
\* A read fails, at most as often as the bound allows.
Failing == IF events < MaxEvents THEN BOOLEAN ELSE {FALSE}
Count(failed) == IF failed THEN events + 1 ELSE events

NoRound == [deps |-> [d \in {} |-> None], pods |-> {}, todo |-> {}, ceiling |-> {},
            got |-> [d \in {} |-> None], max |-> [d \in {} |-> 0]]

\* A list that fails ends the round, not the loop.
Abandon == pc' = "idle" /\ round' = NoRound

ListDeployments ==
  /\ pc = "idle"
  /\ \E failed \in Failing :
       /\ IF failed THEN Abandon
                    ELSE pc' = "pods" /\ round' = [NoRound EXCEPT !.deps = world.deps]
       /\ clean' = ~failed
       /\ events' = Count(failed)
  /\ UNCHANGED <<world, synced, lastGood, gauges, deficits>>

\* Mutant: Compute resolves deployments without the label too.
ListPodsSkipsNone ==
  /\ pc = "pods"
  /\ pc' = "resolve"
  /\ round' = [round EXCEPT !.pods = world.pods, !.todo = DOMAIN round.deps]
  /\ UNCHANGED <<world, synced, lastGood, gauges, deficits, clean, events>>

\* svcOf has the deployments whose template is labelled; Compute skips others.
Labelled(deps) == {d \in DOMAIN deps : deps[d].service # Unlabelled}

ListPods ==
  /\ pc = "pods"
  /\ \E failed \in Failing :
       /\ IF failed THEN Abandon
            ELSE /\ pc' = "resolve"
                 /\ round' = [round EXCEPT !.pods = world.pods, !.todo = Labelled(round.deps)]
       /\ clean' = (clean /\ ~failed)
       /\ events' = Count(failed)
  /\ UNCHANGED <<world, synced, lastGood, gauges, deficits>>

HPAsFor(d) == {h \in world.hpas : h.target = d}

\* Mutant: that the informer had not synced at the start is remembered.
ScaledObjectForAtStart(d) == None

\* ScaledObjectMinReplicas: managed, and the minimum (negative or unset is 0).
ScaledObjectFor(d) == IF KedaKnown /\ synced THEN world.scaled[d] ELSE None
MinReplicas(so) == IF so = Unset \/ so < 0 THEN 0 ELSE so

Larger(a, b) == IF a > b THEN a ELSE b

\* Mutant: a failed read falls back to spec.replicas.
resolveForgetful(d, replicas, hpaErr) ==
  LET hpas == HPAsFor(d)
      so == ScaledObjectFor(d) IN
  CASE ~hpaErr /\ hpas # {} -> [value |-> Max({h.desired : h \in hpas}),
                                source |-> IF Cardinality(hpas) > 1 THEN "fallback" ELSE "hpa"]
    [] ~(~hpaErr /\ hpas # {}) /\ so # None ->
         [value |-> Larger(MinReplicas(so), replicas), source |-> "keda"]
    [] OTHER -> [value |-> replicas, source |-> "deployment"]

\* resolveDeploymentTarget: HPA, else KEDA, else what is remembered if the HPAs
\* could not be read, else spec.replicas.
resolveDeploymentTarget(d, replicas, hpaErr) ==
  LET hpas == HPAsFor(d)
      so == ScaledObjectFor(d)
      fromHPA == ~hpaErr /\ hpas # {} IN
  CASE fromHPA -> [value |-> Max({h.desired : h \in hpas}),
                   source |-> IF Cardinality(hpas) > 1 THEN "fallback" ELSE "hpa"]
    [] ~fromHPA /\ so # None -> [value |-> Larger(MinReplicas(so), replicas), source |-> "keda"]
    [] ~fromHPA /\ so = None /\ hpaErr /\ lastGood[d] # None ->
         [value |-> lastGood[d], source |-> "lastGood"]
    [] OTHER -> [value |-> replicas, source |-> "deployment"]

\* A map of Compute, filled entry by entry.
With(f, x, v) == [y \in DOMAIN f \cup {x} |-> IF y = x THEN v ELSE f[y]]

\* Compute for one deployment: its target, remembered unless it already was.
Resolve(d) ==
  /\ pc = "resolve" /\ d \in round.todo /\ round.ceiling = {}
  /\ \E hpaErr \in Failing :
       LET t == resolveDeploymentTarget(d, round.deps[d].replicas, hpaErr) IN
       /\ round' = [round EXCEPT !.ceiling = {d}, !.got = With(@, d, t)]
       /\ lastGood' = [lastGood EXCEPT ![d] = t.value]
       /\ clean' = (clean /\ ~hpaErr)
       /\ events' = Count(hpaErr)
  /\ UNCHANGED <<world, synced, pc, gauges, deficits>>

\* Compute reads the HPAs a second time, for their maximum.
ReadCeiling(d) ==
  /\ pc = "resolve" /\ round.ceiling = {d}
  /\ \E hpaErr \in Failing :
       /\ round' = [round EXCEPT !.ceiling = {}, !.todo = @ \ {d},
            !.max = With(@, d, IF hpaErr THEN 0 ELSE Max({h.max : h \in HPAsFor(d)} \cup {0}))]
       /\ clean' = (clean /\ ~hpaErr)
       /\ events' = Count(hpaErr)
  /\ UNCHANGED <<world, synced, pc, lastGood, gauges, deficits>>

\* Mutant: finished pods are counted.
PodsOfAnyPhase(pods, s) == {p \in pods : p.service = s}

\* Pods that count: Pending or Running, with the label of the service.
PodsOf(pods, s) == {p \in pods : p.service = s /\ p.phase \in {"Pending", "Running"}}
Bound(pods) == {p \in pods : p.node # None}

\* Mutant: not floored by what is observed.
aggregateDomainUnfloored(desired, observed) == desired

aggregateDomain(desired, observed) == Larger(desired, observed)

\* int32 arithmetic.
capacityDeficit(hpaMax, eligible, maxPodsPerNode) ==
  Larger(Wrapped(hpaMax - Wrapped(eligible * maxPodsPerNode, Half32), Half32), 0)

\* The policies of the managed scheduler that select the service.
Matching(s) == {p \in world.policies : p.managed /\ p.service = s}
Eligible(specs) == {n.name : n \in {m \in world.nodes : \E spec \in specs : nodeInStableDomain(spec, m)}}

\* Mutant: one of several policies is taken.
capacityDeficitForFirst(specs, s, hpaMax, failed) ==
  IF hpaMax > 0 /\ ~failed /\ Matching(s) # {}
    THEN capacityDeficit(hpaMax, Cardinality(Eligible(specs)),
                         (CHOOSE p \in Matching(s) : TRUE).maxPodsPerNode)
    ELSE 0

\* No deficit without a ceiling, with no or several policies, or when the list
\* of policies or nodes failed.
capacityDeficitFor(specs, s, hpaMax, failed) ==
  IF hpaMax > 0 /\ ~failed /\ Cardinality(Matching(s)) = 1
    THEN capacityDeficit(hpaMax, Cardinality(Eligible(specs)),
                         (CHOOSE p \in Matching(s) : TRUE).maxPodsPerNode)
    ELSE 0

\* The rest of Compute, ExportSeries and ExportReservations: services that have
\* a deployment get a sample, the deficit only when it is positive.
Series(s) ==
  LET deps == {d \in DOMAIN round.got : round.deps[d].service = s}
      pods == PodsOf(round.pods, s) IN
  [deps |-> deps,
   hpaMax |-> Max({round.max[d] : d \in deps} \cup {0}),
   sample |-> [target |-> aggregateDomain(SumFunction([d \in deps |-> round.got[d].value]),
                                          Cardinality(pods)),
               observed |-> Cardinality(pods),
               bound |-> Cardinality(Bound(pods)),
               fallback |-> \E d \in deps : round.got[d].source \in {"fallback", "lastGood"},
               reservations |-> world.held[s]]]

Export ==
  /\ pc = "resolve" /\ round.todo = {} /\ round.ceiling = {}
  /\ gauges' = [s \in Service |-> IF Series(s).deps = {} THEN gauges[s] ELSE Series(s).sample]
  /\ \E failed \in Failing :
       /\ deficits' = [s \in Service |->
            LET x == Series(s)
                specs == {round.deps[d].spec : d \in x.deps}
                deficit == capacityDeficitFor(specs, s, x.hpaMax, failed) IN
            IF deficit > 0 THEN deficit ELSE deficits[s]]
       /\ clean' = (clean /\ ~failed)
       /\ events' = Count(failed)
  /\ Abandon
  /\ UNCHANGED <<world, synced, lastGood>>
-----------------------------------------------------------------------------
\* One kind of object changes in the informer caches.
WorldChanges ==
  /\ events < MaxEvents
  /\ \E kind \in DOMAIN world : \E v \in Variants[kind] \ {world[kind]} :
       world' = [world EXCEPT ![kind] = v]
  /\ events' = events + 1
  /\ clean' = FALSE
  /\ UNCHANGED <<synced, pc, round, lastGood, gauges, deficits>>

\* The ScaledObject informer syncs, some time after the start.
KedaSyncs ==
  /\ KedaKnown /\ ~synced
  /\ synced' = TRUE
  /\ clean' = FALSE
  /\ UNCHANGED <<world, pc, round, lastGood, gauges, deficits, events>>

ObserverInit ==
  /\ world \in Start
  /\ synced = FALSE
  /\ pc = "idle" /\ round = NoRound
  /\ lastGood = [d \in Dep |-> None]
  /\ gauges = [s \in Service |-> None]
  /\ deficits = [s \in Service |-> None]
  /\ clean = FALSE
  /\ events = 0

LoopStep == ListDeployments \/ ListPods \/ Export \/ \E d \in Dep : Resolve(d) \/ ReadCeiling(d)

ObserverNext ==
  \/ ListDeployments \/ ListPods \/ Export
  \/ \E d \in Dep : Resolve(d) \/ ReadCeiling(d)
  \/ WorldChanges \/ KedaSyncs

ObserverSpec == ObserverInit /\ [][ObserverNext]_observerVars

\* The ticker ticks, and an informer of a registered resource syncs.
ObserverFairSpec == ObserverSpec /\ WF_observerVars(LoopStep) /\ WF_observerVars(KedaSyncs)
-----------------------------------------------------------------------------
\* Type invariant.  A reported target never lies below the observed pods, nor
\* those below the bound ones (the protective floor of aggregateDomain).
ObserverTypeOK ==
  /\ pc \in {"idle", "pods", "resolve"} /\ clean \in BOOLEAN /\ synced \in BOOLEAN
  /\ events \in 0..MaxEvents
  /\ lastGood \in [Dep -> Nat \cup {None}]
  /\ deficits \in [Service -> (Nat \ {0}) \cup {None}]
  /\ \A s \in Service : gauges[s] # None => /\ gauges[s].target >= gauges[s].observed
                                           /\ gauges[s].observed >= gauges[s].bound

\* The target of deployment d, with the given replicas, as the design has it.
\* Without the ScaledObject resource at its start a process does without KEDA.
Target(d, replicas) ==
  LET so == IF KedaKnown THEN world.scaled[d] ELSE None IN
  IF HPAsFor(d) # {} THEN Max({h.desired : h \in HPAsFor(d)})
  ELSE IF so # None THEN Max({MinReplicas(so), replicas}) ELSE replicas

DepsOf(s) == {d \in DOMAIN world.deps : world.deps[d].service = s}

\* The deficit in unbounded arithmetic.
TrueDeficit(s) ==
  LET most == Max({h.max : h \in {g \in world.hpas : g.target \in DepsOf(s)}} \cup {0})
      room == {n \in world.nodes : \E d \in DepsOf(s) : nodeInStableDomain(world.deps[d].spec, n)}
      caps == {p.maxPodsPerNode : p \in Matching(s)} IN
  IF most = 0 \/ Cardinality(Matching(s)) # 1 THEN 0
  ELSE most - Cardinality(room) * Max(caps)

\* What the gauges of a service that has a deployment should show.
Exact(s) ==
  LET live == {p \in world.pods : p.service = s /\ p.phase \notin {"Succeeded", "Failed"}} IN
  /\ gauges[s] =
       [target |-> Max({SumFunction([d \in DepsOf(s) |-> Target(d, world.deps[d].replicas)]),
                        Cardinality(live)}),
        observed |-> Cardinality(live),
        bound |-> Cardinality({p \in live : p.node # None}),
        fallback |-> \E d \in DepsOf(s) : Cardinality(HPAsFor(d)) > 1,
        reservations |-> world.held[s]]
  /\ TrueDeficit(s) > 0 => deficits[s] = TrueDeficit(s)

AllExact == \A s \in Service : DepsOf(s) # {} => Exact(s)

\* The target the HPAs, the ScaledObject and spec.replicas give if all of them
\* can be read.
Fresh(d, replicas) ==
  IF HPAsFor(d) # {}
  THEN [value |-> Max({h.desired : h \in HPAsFor(d)}),
        source |-> IF Cardinality(HPAsFor(d)) > 1 THEN "fallback" ELSE "hpa"]
  ELSE IF ScaledObjectFor(d) # None
  THEN [value |-> Larger(MinReplicas(ScaledObjectFor(d)), replicas), source |-> "keda"]
  ELSE [value |-> replicas, source |-> "deployment"]

\* What a round has in hand is typed, and it resolves labelled deployments only,
\* one at a time.
RoundOK(r) ==
  /\ r = [deps |-> r.deps, pods |-> r.pods, todo |-> r.todo, ceiling |-> r.ceiling,
          got |-> r.got, max |-> r.max]
  /\ DepsOK(r.deps) /\ PodsOK(r.pods)
  /\ r.todo \subseteq Labelled(r.deps)
  /\ r.ceiling = {} \/ \E d \in r.todo : r.ceiling = {d}
  /\ \A d \in DOMAIN r.got : r.got[d].value \in Nat
  /\ \A d \in DOMAIN r.max : r.max[d] \in 0 .. Half32 - 1

\* Between two reads of RunObserverLoop and Compute the loop has a target for
\* every deployment it is done with and for the current one, a ceiling for the
\* former, and in a clean round nothing but what the caches still say.
ObserverInv ==
  /\ WorldOK(world) /\ RoundOK(round)
  /\ pc # "resolve" => /\ round.ceiling = {}
                       /\ DOMAIN round.got = {} /\ DOMAIN round.max = {}
  /\ pc = "resolve" => /\ DOMAIN round.got = (Labelled(round.deps) \ round.todo) \cup round.ceiling
                       /\ DOMAIN round.max = Labelled(round.deps) \ round.todo
  /\ clean /\ pc # "idle" => round.deps = world.deps
  /\ clean /\ pc = "resolve" =>
       /\ round.pods = world.pods
       /\ \A d \in DOMAIN round.got : round.got[d] = Fresh(d, world.deps[d].replicas)
       /\ \A d \in DOMAIN round.max : round.max[d] = Max({h.max : h \in HPAsFor(d)} \cup {0})

\* A round during which no read failed and nothing changed leaves exact gauges:
\* neither targets remembered from outages nor samples of earlier rounds show
\* through (Compute, ExportSeries and ExportReservations together).
CleanRoundIsExact ==
  pc = "idle" /\ clean /\ (KedaKnown => synced) => AllExact

\* While the HPAs of a deployment cannot be read, its remembered target is not
\* replaced by spec.replicas: the memory changes only to what the HPAs say at
\* the time.  (With a ScaledObject the KEDA fallback takes precedence.)
OutageKeepsLastGood ==
  [][\A d \in Dep : lastGood[d] # None /\ lastGood'[d] # lastGood[d] /\ world.scaled[d] = None
       => lastGood'[d] = Target(d, round.deps[d].replicas)]_observerVars

\* The capacity of all nodes is a number that int32 can hold.
CapsFit == \A p \in world.policies :
  p.maxPodsPerNode * Cardinality(world.nodes) < Half32

\* A deficit newly reported by a clean round is one: it is what the one policy
\* of the service and the nodes open to its deployments leave of the HPA's
\* maximum (capacityDeficitFor), if capacities do not overflow.
DeficitIsReal ==
  [][\A s \in Service : deficits'[s] # deficits[s] /\ clean' /\ CapsFit
       => deficits'[s] = TrueDeficit(s)]_observerVars

\* Once the world is at rest and reads succeed, the gauges become exact and
\* stay so: no failed list, late sync or torn round stops the loop for good.
GaugesConverge == <>[]AllExact
=============================================================================
