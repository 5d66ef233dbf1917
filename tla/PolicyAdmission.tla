--------------------------- MODULE PolicyAdmission ---------------------------
(***************************************************************************)
(* Admission of ServiceSpreadPolicy objects: the validating webhook        *)
(* (internal/webhook/policy_webhook.go, validation.go, naming.go) and the  *)
(* shared configuration it reads from a watched ConfigMap (config.go).     *)
(* Clients write concurrently, through any webhook replica; a request is   *)
(* reviewed, the stored policies are listed, and the API server stores the *)
(* object, in three steps.                                                 *)
(*                                                                         *)
(* One namespace is modelled: listing, naming and matching are all inside  *)
(* one.  Policies that were stored while no webhook was registered are     *)
(* there at the start.                                                     *)
(***************************************************************************)
EXTENDS Naturals, FiniteSets

CONSTANTS
  Client,        \* concurrent writers of policies
  Server,        \* webhook replicas
  LabelKey,      \* qualified names usable as serviceLabelKey
  SchedName,     \* qualified names usable as managedSchedulerName
  DefaultSched,  \* DefaultManagedSchedulerName
  Value,         \* label values, the empty one among them
  EmptyValue,
  Draft,         \* policies that clients submit
  Rogue,         \* policies stored while no webhook was registered
  ConfigMap,     \* contents of the shared ConfigMap, NoConfigMap when deleted
  NoConfigMap, Unset, NotUsable, NoPolicy,
  MaxEdits       \* bound on edits of the ConfigMap and restarts

\* The name of a policy: the deterministic one of an identity, or another.
ExpectedPolicyName(sched, key, value) == <<sched, key, value>>
OtherName == {<<"other", i>> : i \in 1..2}
Name == OtherName \cup (SchedName \X LabelKey \X Value)

\* matchLabels is a partial function of the keys; limits says whether maxSkew
\* and maxPodsPerNode are at least 1.
Policy == [name : Name, sched : SchedName \cup {Unset},
           labels : UNION {[ks -> Value] : ks \in SUBSET LabelKey},
           exprs : BOOLEAN, limits : BOOLEAN]

PluginConfig == [key : LabelKey, sched : SchedName]

ASSUME AdmissionAssumption ==
  /\ Draft \subseteq Policy /\ Rogue \subseteq Policy
  /\ NoPolicy \notin Policy
  /\ DefaultSched \in SchedName /\ Unset \notin SchedName
  /\ NotUsable \notin PluginConfig
  /\ MaxEdits \in Nat

VARIABLES
  policies,   \* the stored policies
  rogues,     \* those of them nobody validated
  configMap,  \* the shared ConfigMap
  published,  \* every configuration it has held
  config,     \* config[w]: what replica w serves from its ConfigMapSource
  request,    \* request[c]: the write that client c has under way
  edits       \* edits and restarts so far

admVars == <<policies, rogues, configMap, published, config, request, edits>>
-----------------------------------------------------------------------------
\* ParseConfigMap: the label key is required, the scheduler name defaulted.
ParseConfigMap(cm) ==
  LET sched == IF cm.sched = Unset THEN DefaultSched ELSE cm.sched IN
  IF cm # NoConfigMap /\ cm.key \in LabelKey /\ sched \in SchedName
    THEN [key |-> cm.key, sched |-> sched]
    ELSE NotUsable

\* Mutant: the service label may be one of several.
SelectorOKAmongOthers(p, cfg) == ~p.exprs /\ cfg.key \in DOMAIN p.labels

\* serviceSelectorValue: exactly one label, the configured key, nothing else.
SelectorOK(p, cfg) == ~p.exprs /\ DOMAIN p.labels = {cfg.key}

\* Mutant: the policy name is not checked.
ValidatePolicyUnnamed(p, cfg) == p.sched = cfg.sched /\ SelectorOK(p, cfg) /\ p.limits

\* ValidatePolicy; the name of a policy for the empty value is not checked.
ValidatePolicy(p, cfg) ==
  /\ p.sched = cfg.sched
  /\ SelectorOK(p, cfg)
  /\ p.limits
  /\ p.labels[cfg.key] # EmptyValue =>
       p.name = ExpectedPolicyName(p.sched, cfg.key, p.labels[cfg.key])

\* Mutant: reviewed before a ConfigMap was read.
AcceptsUnconfigured(p, cfg) == cfg = NotUsable \/ ValidatePolicy(p, cfg)

\* validate fails closed until the configuration is there and valid.
Accepts(p, cfg) == cfg # NotUsable /\ ValidatePolicy(p, cfg)

\* A stored policy q that claims the service of p under another name.
selectsSameService(q, p, cfg) ==
  /\ q.name # p.name
  /\ q.sched = p.sched
  /\ SelectorOK(q, cfg) /\ SelectorOK(p, cfg)
  /\ q.labels[cfg.key] = p.labels[cfg.key]
-----------------------------------------------------------------------------
NoRequest == [step |-> "none", policy |-> NoPolicy, old |-> NoPolicy, cfg |-> NotUsable]

Answer(c) == request' = [request EXCEPT ![c] = NoRequest]

\* A client creates a policy, or updates the one that has its name.
Submit(c) ==
  /\ request[c] = NoRequest
  /\ \E p \in Draft, old \in policies \cup {NoPolicy} :
       /\ old # NoPolicy => old.name = p.name /\ old # p
       /\ request' = [request EXCEPT ![c] = [step |-> "review", policy |-> p,
                                             old |-> old, cfg |-> NotUsable]]
  /\ UNCHANGED <<policies, rogues, configMap, published, config, edits>>

\* validate: the configuration of the replica that was called, then the static
\* rules; without a usable configuration the request is refused.
Review(c) ==
  /\ request[c].step = "review"
  /\ \E w \in Server :
       IF Accepts(request[c].policy, config[w])
         THEN request' = [request EXCEPT ![c].step = "list", ![c].cfg = config[w]]
         ELSE Answer(c)
  /\ UNCHANGED <<policies, rogues, configMap, published, config, edits>>

\* checkOverlap: a live list; a failed one refuses the request too.
CheckOverlap(c) ==
  /\ request[c].step = "list"
  /\ \E listed \in BOOLEAN :
       IF listed /\ \A q \in policies : ~selectsSameService(q, request[c].policy, request[c].cfg)
         THEN request' = [request EXCEPT ![c].step = "store"]
         ELSE Answer(c)
  /\ UNCHANGED <<policies, rogues, configMap, published, config, edits>>

\* The API server stores the object, unless the name was taken or the object
\* to update was changed in the meantime.
Store(c) ==
  LET p == request[c].policy
      old == request[c].old IN
  /\ request[c].step = "store"
  /\ IF IF old = NoPolicy THEN \A q \in policies : q.name # p.name ELSE old \in policies
       THEN policies' = (policies \ {old}) \cup {p} /\ rogues' = rogues \ {old, p}
       ELSE UNCHANGED <<policies, rogues>>
  /\ Answer(c)
  /\ UNCHANGED <<configMap, published, config, edits>>

\* ValidateDelete allows every deletion.
DeletePolicy(p) ==
  /\ policies' = policies \ {p}
  /\ rogues' = rogues \ {p}
  /\ UNCHANGED <<configMap, published, config, request, edits>>

\* The cluster's administrator edits or deletes the shared ConfigMap.
EditConfigMap ==
  /\ edits < MaxEdits
  /\ \E cm \in ConfigMap \ {configMap} :
       /\ configMap' = cm
       /\ published' = published \cup {ParseConfigMap(cm)}
  /\ edits' = edits + 1
  /\ UNCHANGED <<policies, rogues, config, request>>

\* ConfigMapSource.store and the deletion handler of replica w.
ConfigEvent(w) ==
  /\ config[w] # ParseConfigMap(configMap)
  /\ config' = [config EXCEPT ![w] = ParseConfigMap(configMap)]
  /\ UNCHANGED <<policies, rogues, configMap, published, request, edits>>

\* A replica restarts: Get fails until the ConfigMap has been observed.
ServerRestarts(w) ==
  /\ edits < MaxEdits /\ config[w] # NotUsable
  /\ config' = [config EXCEPT ![w] = NotUsable]
  /\ edits' = edits + 1
  /\ UNCHANGED <<policies, rogues, configMap, published, request>>
-----------------------------------------------------------------------------
UniqueNames(S) == \A p, q \in S : p.name = q.name => p = q

AdmInit ==
  /\ policies \in {S \in SUBSET Rogue : UniqueNames(S)}
  /\ rogues = policies
  /\ configMap \in ConfigMap
  /\ published = {ParseConfigMap(configMap)}
  /\ config = [w \in Server |-> NotUsable]
  /\ request = [c \in Client |-> NoRequest]
  /\ edits = 0

AdmNext ==
  \/ \E c \in Client : Submit(c) \/ Review(c) \/ CheckOverlap(c) \/ Store(c)
  \/ \E p \in policies : DeletePolicy(p)
  \/ EditConfigMap
  \/ \E w \in Server : ConfigEvent(w) \/ ServerRestarts(w)

AdmSpec == AdmInit /\ [][AdmNext]_admVars
-----------------------------------------------------------------------------
\* Type invariant.  A request that passed its review carries the configuration
\* it was reviewed with, and no two stored policies share a name.
AdmTypeOK ==
  /\ policies \subseteq Policy /\ rogues \subseteq policies
  /\ UniqueNames(policies)
  /\ configMap \in ConfigMap /\ published \subseteq PluginConfig \cup {NotUsable}
  /\ config \in [Server -> PluginConfig \cup {NotUsable}]
  /\ request \in [Client -> [step : {"none", "review", "list", "store"},
                             policy : Draft \cup {NoPolicy}, old : Policy \cup {NoPolicy},
                             cfg : PluginConfig \cup {NotUsable}]]
  /\ \A c \in Client : request[c].step \in {"list", "store"} => request[c].cfg # NotUsable
  /\ edits \in 0..MaxEdits

\* selectorMatchesService of the scheduler: what resolvePolicy counts.
Selects(p, sched, key, value) ==
  /\ p.sched = sched
  /\ ~p.exprs /\ DOMAIN p.labels = {key}
  /\ p.labels[key] = value

Ambiguous(sched, key, value) ==
  \E p, q \in policies : p # q /\ Selects(p, sched, key, value) /\ Selects(q, sched, key, value)

\* No admitted write makes the scheduler find two policies for a service, with
\* whatever configuration, although the list of checkOverlap is old when the
\* object is stored and replicas may differ in their configuration.  (The
\* empty label value, whose policies may have any name, is left out.)
NoNewAmbiguity ==
  [][\A sched \in SchedName, key \in LabelKey, value \in Value \ {EmptyValue} :
       Ambiguous(sched, key, value)' => Ambiguous(sched, key, value)]_admVars

\* Every policy that went through validation selects one service, with limits
\* that make sense, for a scheduler that has a configuration once published.
AdmittedIsEffective ==
  \A p \in policies \ rogues :
    /\ p.limits
    /\ \E cfg \in published \ {NotUsable}, value \in Value : Selects(p, cfg.sched, cfg.key, value)
=============================================================================
