-------------------------- MODULE SchedulingCycle --------------------------
(***************************************************************************)
(* One pending pod on its way through the hooks of the ServiceSpread plugin *)
(* (internal/spread/plugin.go) while the state the hooks read is changed by *)
(* the informer callbacks, and the queueing hints (enqueue.go) that bring   *)
(* the pod back after a hook refused it.                                    *)
(*                                                                          *)
(* Module SpreadState has the counters and Lifecycle the seats; here one    *)
(* service is enough, and the counters are what a recount gives             *)
(* (SpreadState: SnapshotConsistent).  `counted` are the peers of the       *)
(* service in the snapshot, `held` the peers in the reservation overlay.    *)
(* What is added is what those modules leave to choice: which policy and    *)
(* domain a cycle sees, the counts PreFilter reads without a common lock,   *)
(* the tests of Filter, and whether a refused pod is ever tried again.      *)
(***************************************************************************)
EXTENDS Naturals, FiniteSets, FiniteSetsExt

CONSTANTS
  Peer,             \* the other pods of the pending pod's service
  Kin,              \* the peers that also share its scheduling domain (SchedKey)
  Node,
  At,               \* the node a peer has, or gets if it is admitted
  Policy,           \* ServiceSpreadPolicy objects of the namespace
  Limits,           \* the limits a policy can set ...
  MaxPodsPerNode,   \* ... as functions of the limits
  MaxSkew,
  RequirePolicy,    \* the plugin argument requirePolicy
  StartSynced,      \* the listers are in sync when scheduling starts
  HintAfterCache,   \* an event reaches the queue after the plugin has seen it
  Retarget,         \* a policy may be edited to select another service
  MaxChanges,       \* bound: changes of policies, nodes and owner chain
  Absent, Elsewhere,\* a policy that does not exist / selects another service
  None

ASSUME CycleAssumption ==
  /\ IsFiniteSet(Peer) /\ Kin \subseteq Peer
  /\ At \in [Peer -> Node]
  /\ MaxPodsPerNode \in [Limits -> Nat]
  /\ MaxSkew \in [Limits -> Nat]
  /\ {RequirePolicy, StartSynced, HintAfterCache, Retarget} \subseteq BOOLEAN
  /\ MaxChanges \in Nat
  /\ Absent # Elsewhere
  /\ {Absent, Elsewhere, None} \cap Limits = {}
  /\ None \notin Peer \cup Node

VARIABLES
  counted,  \* peers counted in the snapshot
  held,     \* peers with a reservation
  note,     \* per peer: not scheduled yet, the callback owed, none owed, or deleted
  busy,     \* the peer whose callback is between its two critical sections
  cache,    \* what the listers return: policies, stable domain, owner chain, synced
  api,      \* what the API server has
  changes,  \* how often the API server's side changed
  events,   \* events the scheduling queue has not handled, by resource
  pc,       \* where the pending pod is
  missed,   \* an event that concerns it arrived during its cycle
  view,     \* preFilterState
  todo,     \* domain nodes whose counts PreFilter has still to read
  load,     \* the snapshot effCount has loaded for a node, before it locks mu
  choice    \* the node the scheduler selected

peers == <<counted, held, note, busy>>
cluster == <<cache, api, changes>>
cycle == <<pc, missed, view, todo, load, choice>>
vars == <<peers, cluster, events, cycle>>

Resource == {"pod", "node", "policy", "owner"}

\* An object set as the listers see it.
World == [policies : [Policy -> Limits \cup {Absent, Elsewhere}],
          nodes : SUBSET Node, owned : BOOLEAN, synced : BOOLEAN]

CycleTypeOK ==
  /\ counted \subseteq Peer /\ held \subseteq Peer
  /\ note \in [Peer -> {"new", "none", "bound", "gone", "done"}]
  /\ busy \in Peer \cup {None}
  /\ cache \in World /\ api \in World
  /\ changes \in 0 .. MaxChanges
  /\ events \subseteq Resource
  /\ pc \in {"waiting", "ready", "reading", "found", "picked", "placed", "panicked"}
  /\ missed \in BOOLEAN
  /\ view \in [policy : Limits \cup {None}, domain : SUBSET Node,
               quota : [Node -> Nat], sched : [Node -> Nat]]
  /\ todo \subseteq Node
  /\ load \in [node : Node, snap : SUBSET Peer] \cup {None}
  /\ choice \in Node \cup {None}

----------------------------------------------------------------------------
(* The counts and the two admission tests.                                  *)

On(S, n) == Cardinality({u \in S : At[u] = n})

EffQuotaMinusOverlay(snap, n) == On(snap, n) - On(held, n)

\* snapshot.count plus the overlay: a peer in both is counted twice.
EffQuota(snap, n) == On(snap, n) + On(held, n)
EffSched(snap, n) == On(snap \cap Kin, n) + On(held \cap Kin, n)

Least(count, domain) == Min({count[n] : n \in domain})

FilterSkewOffByOne(n) ==
  /\ n \in view.domain
  /\ view.quota[n] + 1 <= MaxPodsPerNode[view.policy]
  /\ view.sched[n] <= MaxSkew[view.policy] + Least(view.sched, view.domain)

\* Filter's two comparisons, on the counts PreFilter stored.
FilterPasses(n) ==
  /\ n \in view.domain
  /\ view.quota[n] + 1 <= MaxPodsPerNode[view.policy]
  /\ view.sched[n] + 1 <= MaxSkew[view.policy] + Least(view.sched, view.domain)

Feasible == {n \in Node : FilterPasses(n)}

\* framework.MaxNodeScore
MaxNodeScore == 100

\* PreScore's extrema over the feasible nodes and Score's normalisation.
ScoreUninverted(n) ==
  LET counts == {view.sched[m] : m \in Feasible}
  IN  IF Min(counts) = Max(counts) THEN 0
      ELSE ((view.sched[n] - Min(counts)) * MaxNodeScore) \div (Max(counts) - Min(counts) + 1)

Score(n) ==
  LET counts == {view.sched[m] : m \in Feasible}
  IN  IF Min(counts) = Max(counts) THEN 0
      ELSE ((Max(counts) - view.sched[n]) * MaxNodeScore) \div (Max(counts) - Min(counts) + 1)

\* Reserve's admission under mu: the current counts, over the current domain.
AdmitsOnStoredCounts(limits, n) ==
  /\ n \in cache.nodes
  /\ view.quota[n] + 1 <= MaxPodsPerNode[limits]
  /\ view.sched[n] + 1 <= MaxSkew[limits] + Least(view.sched, cache.nodes)

Admits(limits, n) ==
  LET sched == [m \in Node |-> EffSched(counted, m)]
  IN  /\ n \in cache.nodes
      /\ EffQuota(counted, n) + 1 <= MaxPodsPerNode[limits]
      /\ sched[n] + 1 <= MaxSkew[limits] + Least(sched, cache.nodes)

----------------------------------------------------------------------------
(* Policy resolution.                                                       *)

Matches(world) == {p \in Policy : world.policies[p] \in Limits}

\* The policy resolvePolicy returns: none is a nil pointer.
Resolved(world) ==
  IF Matches(world) = {} THEN None
  ELSE world.policies[CHOOSE p \in Matches(world) : TRUE]

PreFilterPassesUnmatched(world) ==
  world.synced /\ world.owned /\ Cardinality(Matches(world)) <= 1 /\ world.nodes # {}

\* The conditions under which PreFilter goes on to read the counts.
PreFilterPasses(world) ==
  /\ world.synced
  /\ world.owned
  /\ Cardinality(Matches(world)) <= 1
  /\ Matches(world) = {} => ~RequirePolicy
  /\ world.nodes # {}

----------------------------------------------------------------------------
EmptyView == [policy |-> None, domain |-> {},
              quota |-> [n \in Node |-> 0], sched |-> [n \in Node |-> 0]]

\* Some peers run, the others are not scheduled yet, and the pod was just
\* created.  The listers agree with the API server; their sync may be pending.
Init ==
  /\ counted \in SUBSET Peer
  /\ held = {}
  /\ note = [u \in Peer |-> IF u \in counted THEN "none" ELSE "new"]
  /\ busy = None
  /\ cache \in World
  /\ StartSynced => cache.synced
  /\ ~Retarget => \A p \in Policy : cache.policies[p] # Elsewhere
  /\ api = [cache EXCEPT !.synced = TRUE]
  /\ changes = 0
  /\ events = {}
  /\ pc = "ready" /\ missed = FALSE
  /\ view = EmptyView /\ todo = {} /\ load = None /\ choice = None

----------------------------------------------------------------------------
(* The hooks, in the order the scheduler calls them.                        *)

\* A refused pod waits for an event, unless one arrived during its cycle.
Refused ==
  /\ pc' = IF missed THEN "ready" ELSE "waiting"
  /\ view' = EmptyView /\ todo' = {} /\ load' = None /\ choice' = None
  /\ UNCHANGED missed

\* PreFilter up to the loop over the domain.
PreFilter ==
  /\ pc = "ready"
  /\ missed' = FALSE
  /\ IF PreFilterPasses(cache)
     THEN /\ pc' = "reading"
          /\ view' = [EmptyView EXCEPT !.policy = Resolved(cache), !.domain = cache.nodes]
          /\ todo' = cache.nodes
     ELSE /\ pc' = "waiting"
          /\ UNCHANGED <<view, todo>>
  /\ UNCHANGED <<peers, cluster, events, load, choice>>

\* effCount loads the snapshot pointer without the lock ...
LoadSnapshot(n) ==
  /\ pc = "reading" /\ load = None /\ n \in todo
  /\ load' = [node |-> n, snap |-> counted]
  /\ UNCHANGED <<peers, cluster, events, pc, missed, view, todo, choice>>

\* ... and adds the overlay under it; after the last node PreFilter returns.
AddOverlay ==
  /\ pc = "reading" /\ load # None
  /\ view' = [view EXCEPT !.quota[load.node] = EffQuota(load.snap, load.node),
                          !.sched[load.node] = EffSched(load.snap, load.node)]
  /\ todo' = todo \ {load.node}
  /\ load' = None
  /\ pc' = IF todo' = {} THEN "found" ELSE "reading"
  /\ UNCHANGED <<peers, cluster, events, missed, choice>>

\* Filter on every node, PreScore and Score.  The other plugins' scores are
\* added to this one's, so any feasible node may be selected.  Filter follows
\* the policy pointer: a nil policy ends the scheduler's process.
SelectNode ==
  /\ pc = "found"
  /\ \/ /\ view.policy = None
        /\ pc' = "panicked"
        /\ UNCHANGED <<missed, view, todo, load, choice>>
     \/ /\ view.policy # None /\ Feasible = {}
        /\ Refused
     \/ /\ view.policy # None
        /\ \E n \in Feasible : choice' = n
        /\ pc' = "picked"
        /\ UNCHANGED <<missed, view, todo, load>>
  /\ UNCHANGED <<peers, cluster, events>>

\* Reserve: the domain is recomputed, the counts are read again under mu, the
\* policy is the one PreFilter stored.
Reserve ==
  /\ pc = "picked"
  /\ IF Admits(view.policy, choice)
     THEN pc' = "placed" /\ UNCHANGED <<missed, view, todo, load, choice>>
     ELSE Refused
  /\ UNCHANGED <<peers, cluster, events>>

----------------------------------------------------------------------------
(* The peers: their own cycles, and the two critical sections of a callback. *)

\* Cycles of one scheduler do not overlap: a peer is admitted and bound between
\* two cycles of the pending pod.
PeerReserve(u) ==
  /\ pc \in {"waiting", "ready"}
  /\ note[u] = "new"
  /\ PreFilterPasses(cache) /\ Matches(cache) # {}
  /\ Admits(Resolved(cache), At[u])
  /\ held' = held \cup {u}
  /\ note' = [note EXCEPT ![u] = "bound"]
  /\ events' = events \cup {"pod"}
  /\ UNCHANGED <<counted, busy, cluster, cycle>>

\* A peer is deleted: a callback for the plugin and an event for the queue, where
\* podHint lets it through, for every peer shares the pending pod's QuotaKey.
PeerGone(u) ==
  /\ note[u] \in {"none", "bound"}
  /\ note' = [note EXCEPT ![u] = "gone"]
  /\ events' = events \cup {"pod"}
  /\ UNCHANGED <<counted, held, busy, cluster, cycle>>

\* observePod or forgetPod ...
Callback(u) ==
  /\ busy = None
  /\ note[u] \in {"bound", "gone"}
  /\ counted' = IF note[u] = "bound" THEN counted \cup {u} ELSE counted \ {u}
  /\ note' = [note EXCEPT ![u] = IF note[u] = "bound" THEN "none" ELSE "done"]
  /\ busy' = u
  /\ UNCHANGED <<held, cluster, events, cycle>>

\* ... and then the release of the reservation, under the lock taken again.
CallbackReleases ==
  /\ busy # None
  /\ held' = held \ {busy}
  /\ busy' = None
  /\ UNCHANGED <<counted, note, cluster, events, cycle>>

----------------------------------------------------------------------------
(* The cluster, the listers and the queue.                                  *)

\* policyHint: the new object decides, or the old one when it was deleted.
\* Both are asked only whether they select the pending pod's service.
PolicyHintNewOnly(old, new) == new \in Limits

PolicyHint(old, new) == (IF new = Absent THEN old ELSE new) \in Limits

\* A policy is created, edited or deleted.
PolicyChanges(p, new) ==
  LET old == api.policies[p]
  IN  /\ changes < MaxChanges
      /\ new # old
      /\ Elsewhere \in {old, new} => Retarget
      /\ api' = [api EXCEPT !.policies[p] = new]
      /\ changes' = changes + 1
      /\ events' = events \cup {r \in {"policy"} : PolicyHint(old, new)}
      /\ UNCHANGED <<peers, cache, cycle>>

\* Nodes enter or leave the stable domain: node events have no hint function.
NodesChange(domain) ==
  /\ changes < MaxChanges
  /\ domain # api.nodes
  /\ api' = [api EXCEPT !.nodes = domain]
  /\ changes' = changes + 1
  /\ events' = events \cup {"node"}
  /\ UNCHANGED <<peers, cache, cycle>>

\* The ReplicaSet or Deployment of the pod appears or goes; sameNamespaceHint lets
\* the event through.
OwnerChanges ==
  /\ changes < MaxChanges
  /\ api' = [api EXCEPT !.owned = ~api.owned]
  /\ changes' = changes + 1
  /\ events' = events \cup {"owner"}
  /\ UNCHANGED <<peers, cache, cycle>>

\* A lister of the plugin catches up; the initial sync makes no event.
CacheFollows(part) ==
  /\ cache[part] # api[part]
  /\ cache' = [cache EXCEPT ![part] = api[part]]
  /\ UNCHANGED <<peers, api, changes, events, cycle>>

\* The plugin has handled what the event is about.
Seen(r) ==
  CASE r = "pod"    -> busy = None /\ \A u \in Peer : note[u] \notin {"bound", "gone"}
    [] r = "node"   -> cache.nodes = api.nodes
    [] r = "policy" -> cache.policies = api.policies
    [] r = "owner"  -> cache.owned = api.owned

\* The queue asks the hints about an event: a waiting pod is tried again, one in
\* its cycle is tried again after it.
EventArrives(r) ==
  /\ r \in events
  /\ HintAfterCache => Seen(r)
  /\ events' = events \ {r}
  /\ pc' = IF pc = "waiting" THEN "ready" ELSE pc
  /\ missed' = (missed \/ pc \in {"reading", "found", "picked"})
  /\ UNCHANGED <<peers, cluster, view, todo, load, choice>>

----------------------------------------------------------------------------
\* What the plugin and the scheduler do, as opposed to the cluster.
Hooks == PreFilter \/ (\E n \in Node : LoadSnapshot(n)) \/ AddOverlay \/ SelectNode \/ Reserve
Handlers == (\E u \in Peer : Callback(u)) \/ CallbackReleases
Listers == \E part \in {"policies", "nodes", "owned", "synced"} : CacheFollows(part)

Next ==
  \/ Hooks
  \/ Handlers
  \/ Listers
  \/ \E r \in Resource : EventArrives(r)
  \/ \E u \in Peer : PeerReserve(u) \/ PeerGone(u)
  \/ \E p \in Policy, new \in Limits \cup {Absent, Elsewhere} : PolicyChanges(p, new)
  \/ \E domain \in SUBSET Node : NodesChange(domain)
  \/ OwnerChanges

Spec == Init /\ [][Next]_vars

\* The scheduler's loop, the informers' goroutines and the queue keep running;
\* nothing is assumed of the cluster.
FairSpec ==
  /\ Spec
  /\ WF_vars(Hooks) /\ WF_vars(Handlers) /\ WF_vars(Listers)
  /\ \A r \in Resource : WF_vars(EventArrives(r))

----------------------------------------------------------------------------
(* Properties.                                                              *)

ExactView ==
  /\ view.domain = cache.nodes
  /\ \A n \in view.domain : /\ view.quota[n] = EffQuota(counted, n)
                            /\ view.sched[n] = EffSched(counted, n)

\* Filter (on PreFilter's stored counts and minimum) and Reserve (on its own
\* recount) accept the same nodes whenever nothing changed in between: a pod is
\* neither filtered out of a node Reserve would grant nor sent to one it refuses.
FilterAgreesWithReserve ==
  (pc \in {"found", "picked"} /\ view.policy # None /\ ExactView)
    => Feasible = {n \in Node : Admits(view.policy, n)}

\* However old and torn the counts are on which Filter chose the node, Reserve
\* grants it only if it is in the domain now and the pods that have or hold a
\* seat on it now leave room under maxPodsPerNode.
PlacementIsFresh ==
  [][pc' = "placed" /\ pc # "placed" =>
       /\ choice \in cache.nodes
       /\ On(counted \cup held, choice) < MaxPodsPerNode[view.policy]]_vars

\* Score keeps to the framework's range and orders the feasible nodes strictly
\* by their count: of two nodes the emptier one has the higher score.
ScoreOrdersNodes ==
  (pc = "found" /\ view.policy # None) =>
    \A n, m \in Feasible :
      /\ Score(n) \in 0 .. MaxNodeScore
      /\ view.sched[n] < view.sched[m] => Score(n) > Score(m)

\* What the cycle state holds between the hooks: a node only with a policy, and,
\* when the plugin requires one, a policy from PreFilter on.
PolicyHeld ==
  /\ pc = "picked" => view.policy \in Limits /\ choice \in Node
  /\ pc \in {"reading", "found"} /\ RequirePolicy => view.policy \in Limits

\* No cycle follows a nil policy: Filter and Reserve dereference the policy that
\* resolvePolicy returned.
NoPanic == pc # "panicked"

CanPlace ==
  /\ PreFilterPasses(cache)
  /\ \E n \in Node : Matches(cache) # {} /\ Admits(Resolved(cache), n)

\* Once there is room for the pod to stay, the pod is placed: whatever refused it
\* before, one of the registered events brings it back, without the queue's
\* periodic flush.
EventuallyRetried == <>[]CanPlace => <>(pc = "placed")
=============================================================================
