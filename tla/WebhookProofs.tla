---------------------------- MODULE WebhookProofs ----------------------------
(***************************************************************************)
(* Proofs about the webhook binary: admission of policies, for any number  *)
(* of clients, replicas and policies, and the rotation of its certificate, *)
(* for any number of replicas and any number of passes.                    *)
(***************************************************************************)
EXTENDS CertRotation, PolicyAdmission, TLAPS

\* Backends of a leaf that names none, with their time in seconds.
USE SMTT(40), ZenonT(60)

-----------------------------------------------------------------------------
\* What a write under way has been through: its policy passed the static rules
\* of the configuration it carries, that configuration was once published, and
\* an update names the policy it replaces.
Reviewed ==
  \A c \in Client :
    /\ request[c].step # "none" => request[c].policy \in Draft
    /\ request[c].old # NoPolicy => request[c].old.name = request[c].policy.name
    /\ request[c].step \in {"list", "store"} =>
         /\ request[c].cfg \in published \ {NotUsable}
         /\ ValidatePolicy(request[c].policy, request[c].cfg)

\* What the list of checkOverlap found still holds when the object is stored:
\* policies admitted since then have the deterministic name of their service.
OverlapStillChecked ==
  \A c \in Client, q \in policies :
    /\ request[c].step = "store"
    /\ request[c].policy.labels[request[c].cfg.key] # EmptyValue
    => ~selectsSameService(q, request[c].policy, request[c].cfg)

\* Whatever a replica serves was once in the ConfigMap.
ConfigPublished ==
  /\ ParseConfigMap(configMap) \in published
  /\ \A w \in Server : config[w] \in published \cup {NotUsable}

AdmInv == AdmTypeOK /\ Reviewed /\ OverlapStillChecked /\ ConfigPublished
          /\ AdmittedIsEffective

\* ParseConfigMap yields a usable configuration or none.
LEMMA ParseType == \A cm : ParseConfigMap(cm) \in PluginConfig \cup {NotUsable}
BY AdmissionAssumption DEF ParseConfigMap, PluginConfig

\* Two validated policies for one service with a proper label value have the
\* same name, whatever configurations they were validated with.
LEMMA NameDetermined ==
  ASSUME NEW p, NEW q, NEW c1, NEW c2,
         ValidatePolicy(p, c1), ValidatePolicy(q, c2),
         selectsSameService(q, p, c1), p.labels[c1.key] # EmptyValue
  PROVE  FALSE
<1>1. DOMAIN q.labels = {c1.key} /\ DOMAIN q.labels = {c2.key}
  BY DEF ValidatePolicy, selectsSameService, SelectorOK
<1>2. c1.key = c2.key
  BY <1>1
<1>3. q.labels[c2.key] = p.labels[c1.key] /\ q.sched = p.sched /\ q.name # p.name
  BY <1>2 DEF selectsSameService
<1> QED BY <1>2, <1>3 DEF ValidatePolicy, ExpectedPolicyName

\* A validated policy is one the scheduler finds for some service.
LEMMA ValidSelects ==
  ASSUME NEW p \in Policy, NEW cfg \in PluginConfig, ValidatePolicy(p, cfg)
  PROVE  p.limits /\ \E value \in Value : Selects(p, cfg.sched, cfg.key, value)
<1>1. p.limits /\ p.sched = cfg.sched /\ ~p.exprs /\ DOMAIN p.labels = {cfg.key}
  BY DEF ValidatePolicy, SelectorOK
<1>2. p.labels[cfg.key] \in Value
  <2>1. PICK ks \in SUBSET LabelKey : p.labels \in [ks -> Value]
    BY DEF Policy
  <2> QED BY <2>1, <1>1
<1> QED BY <1>1, <1>2 DEF Selects

\* Nothing is under way at the start.
LEMMA AdmInitOK == AdmInit => AdmInv
<1> SUFFICES ASSUME AdmInit PROVE AdmInv
  OBVIOUS
<1> USE AdmissionAssumption DEF AdmInit, NoRequest
<1>1. AdmTypeOK
  BY ParseType DEF AdmTypeOK
<1>2. Reviewed /\ OverlapStillChecked /\ AdmittedIsEffective
  BY DEF Reviewed, OverlapStillChecked, AdmittedIsEffective
<1>3. ConfigPublished
  BY DEF ConfigPublished
<1> QED BY <1>1, <1>2, <1>3 DEF AdmInv

\* The steps that leave the stored policies alone, one request at a time.
LEMMA RequestStep ==
  ASSUME AdmInv, NEW c \in Client, Submit(c) \/ Review(c) \/ CheckOverlap(c)
  PROVE  AdmInv'
<1> USE AdmissionAssumption
<1> DEFINE Request == [step : {"none", "review", "list", "store"},
                       policy : Draft \cup {NoPolicy}, old : Policy \cup {NoPolicy},
                       cfg : PluginConfig \cup {NotUsable}]
<1>1. /\ UNCHANGED <<policies, rogues, configMap, published, config, edits>>
      /\ request \in [Client -> Request]
  BY DEF Submit, Review, CheckOverlap, AdmInv, AdmTypeOK
<1>2. PICK r \in Request :
        /\ request' = [request EXCEPT ![c] = r]
        /\ r.step # "none" => r.policy \in Draft
        /\ r.old # NoPolicy => r.old.name = r.policy.name
        /\ r.step \in {"list", "store"} =>
             r.cfg \in published \ {NotUsable} /\ ValidatePolicy(r.policy, r.cfg)
        /\ r.step = "store" =>
             \A q \in policies : ~selectsSameService(q, r.policy, r.cfg)
  <2>0. NoRequest \in Request
    BY DEF NoRequest
  <2>1. CASE Submit(c)
    <3>1. PICK p \in Draft, old \in policies \cup {NoPolicy} :
            /\ old # NoPolicy => old.name = p.name
            /\ request' = [request EXCEPT ![c] = [step |-> "review", policy |-> p,
                                                  old |-> old, cfg |-> NotUsable]]
      BY <2>1, ZenonT(60) DEF Submit
    <3>2. [step |-> "review", policy |-> p, old |-> old, cfg |-> NotUsable] \in Request
      BY <3>1 DEF AdmInv, AdmTypeOK
    <3> QED BY <3>1, <3>2, ZenonT(60)
  <2>2. CASE Review(c)
    <3>1. PICK w \in Server :
            IF Accepts(request[c].policy, config[w])
              THEN request' = [request EXCEPT ![c].step = "list", ![c].cfg = config[w]]
              ELSE Answer(c)
      BY <2>2 DEF Review
    <3>2. CASE Accepts(request[c].policy, config[w])
      <4> DEFINE r == [request[c] EXCEPT !.step = "list", !.cfg = config[w]]
      <4>1. request[c] \in Request /\ request[c].step = "review"
        BY <1>1, <2>2 DEF Review
      <4>2. config[w] \in PluginConfig \cup {NotUsable}
        BY DEF AdmInv, AdmTypeOK
      <4>3. /\ r \in Request /\ request' = [request EXCEPT ![c] = r]
            /\ r.step = "list" /\ r.policy = request[c].policy /\ r.old = request[c].old
            /\ r.cfg = config[w]
        BY <1>1, <3>1, <3>2, <4>1, <4>2, ZenonT(60)
      <4>4. config[w] \in published \ {NotUsable} /\ ValidatePolicy(request[c].policy, config[w])
        BY <3>2 DEF Accepts, AdmInv, ConfigPublished
      <4>5. /\ request[c].policy \in Draft
            /\ request[c].old # NoPolicy => request[c].old.name = request[c].policy.name
        BY <4>1 DEF AdmInv, Reviewed
      <4> HIDE DEF r
      <4> QED BY <4>3, <4>4, <4>5, ZenonT(60)
    <3>3. CASE ~Accepts(request[c].policy, config[w])
      BY <3>1, <3>3, <2>0, ZenonT(60) DEF Answer, NoRequest
    <3> QED BY <3>2, <3>3
  <2>3. CASE CheckOverlap(c)
    <3>1. CASE Answer(c)
      BY <3>1, <2>0, ZenonT(60) DEF Answer, NoRequest
    <3>2. CASE /\ request' = [request EXCEPT ![c].step = "store"]
               /\ \A q \in policies : ~selectsSameService(q, request[c].policy, request[c].cfg)
      <4> DEFINE r == [request[c] EXCEPT !.step = "store"]
      <4>1. request[c] \in Request /\ request[c].step = "list"
        BY <1>1, <2>3 DEF CheckOverlap
      <4>2. /\ r \in Request /\ request' = [request EXCEPT ![c] = r]
            /\ r.step = "store" /\ r.policy = request[c].policy /\ r.old = request[c].old
            /\ r.cfg = request[c].cfg
        BY <1>1, <3>2, <4>1
      <4>3. /\ request[c].policy \in Draft
            /\ request[c].old # NoPolicy => request[c].old.name = request[c].policy.name
            /\ request[c].cfg \in published \ {NotUsable}
            /\ ValidatePolicy(request[c].policy, request[c].cfg)
        BY <4>1 DEF AdmInv, Reviewed
      <4> HIDE DEF r
      <4> QED BY <3>2, <4>2, <4>3, ZenonT(60)
    <3> QED BY <2>3, <3>1, <3>2 DEF CheckOverlap
  <2> QED BY <2>1, <2>2, <2>3
<1>3. /\ request' \in [Client -> Request] /\ request'[c] = r
      /\ \A d \in Client \ {c} : request'[d] = request[d]
  BY <1>1, <1>2
<1>4. AdmTypeOK'
  <2>1. \A d \in Client : request'[d].step \in {"list", "store"} => request'[d].cfg # NotUsable
    BY <1>2, <1>3 DEF AdmInv, AdmTypeOK
  <2> QED BY <1>1, <1>3, <2>1 DEF AdmInv, AdmTypeOK
<1>5. Reviewed'
  <2> SUFFICES ASSUME NEW d \in Client
               PROVE  /\ request'[d].step # "none" => request'[d].policy \in Draft
                      /\ request'[d].old # NoPolicy => request'[d].old.name = request'[d].policy.name
                      /\ request'[d].step \in {"list", "store"} =>
                           /\ request'[d].cfg \in published \ {NotUsable}
                           /\ ValidatePolicy(request'[d].policy, request'[d].cfg)
    BY <1>1 DEF Reviewed, ValidatePolicy, SelectorOK, ExpectedPolicyName
  <2>1. CASE d = c
    BY <2>1, <1>2, <1>3
  <2>2. CASE d # c
    BY <2>2, <1>3 DEF AdmInv, Reviewed
  <2> QED BY <2>1, <2>2
<1>6. OverlapStillChecked'
  <2> SUFFICES ASSUME NEW d \in Client, NEW q \in policies, request'[d].step = "store",
                      request'[d].policy.labels[request'[d].cfg.key] # EmptyValue
               PROVE  ~selectsSameService(q, request'[d].policy, request'[d].cfg)
    BY <1>1 DEF OverlapStillChecked, selectsSameService, SelectorOK
  <2>1. CASE d = c
    BY <2>1, <1>2, <1>3
  <2>2. CASE d # c
    BY <2>2, <1>3 DEF AdmInv, OverlapStillChecked
  <2> QED BY <2>1, <2>2
<1>7. ConfigPublished' /\ AdmittedIsEffective'
  BY <1>1 DEF AdmInv, ConfigPublished, AdmittedIsEffective, ParseConfigMap, Selects
<1> QED BY <1>4, <1>5, <1>6, <1>7 DEF AdmInv

\* What a write that is accepted does to the stored policies: the new object
\* has a name of its own among them.
LEMMA StoredName ==
  ASSUME AdmInv, NEW c \in Client, request[c].step = "store",
         IF request[c].old = NoPolicy
           THEN \A q \in policies : q.name # request[c].policy.name
           ELSE request[c].old \in policies
  PROVE  \A q \in policies \ {request[c].old} : q.name # request[c].policy.name
<1>1. request[c].old # NoPolicy => request[c].old.name = request[c].policy.name
  BY DEF AdmInv, Reviewed
<1>2. UniqueNames(policies)
  BY DEF AdmInv, AdmTypeOK
<1> QED BY <1>1, <1>2 DEF UniqueNames

\* A stored write keeps the invariant: the other writes that were checked
\* against the policies are not contradicted by the new one.
LEMMA StoreStep ==
  ASSUME AdmInv, NEW c \in Client, Store(c)
  PROVE  AdmInv'
<1> USE AdmissionAssumption
<1> DEFINE Request == [step : {"none", "review", "list", "store"},
                       policy : Draft \cup {NoPolicy}, old : Policy \cup {NoPolicy},
                       cfg : PluginConfig \cup {NotUsable}]
           p == request[c].policy
           old == request[c].old
           cfg == request[c].cfg
<1>1. /\ UNCHANGED <<configMap, published, config, edits>>
      /\ request \in [Client -> Request] /\ request' = [request EXCEPT ![c] = NoRequest]
      /\ request[c].step = "store"
  BY DEF Store, Answer, AdmInv, AdmTypeOK
<1>2. /\ request' \in [Client -> Request] /\ request'[c] = NoRequest
      /\ \A d \in Client \ {c} : request'[d] = request[d]
  BY <1>1 DEF NoRequest
<1>3. /\ p \in Draft /\ p \in Policy /\ cfg \in published \ {NotUsable}
      /\ ValidatePolicy(p, cfg)
  BY <1>1 DEF AdmInv, Reviewed
<1>4. cfg \in PluginConfig
  BY <1>3 DEF AdmInv, AdmTypeOK
<1>5. \/ policies' = policies /\ rogues' = rogues
      \/ /\ policies' = (policies \ {old}) \cup {p} /\ rogues' = rogues \ {old, p}
         /\ IF old = NoPolicy THEN \A q \in policies : q.name # p.name ELSE old \in policies
  BY DEF Store
<1>6. Reviewed'
  <2> SUFFICES ASSUME NEW d \in Client
               PROVE  /\ request'[d].step # "none" => request'[d].policy \in Draft
                      /\ request'[d].old # NoPolicy => request'[d].old.name = request'[d].policy.name
                      /\ request'[d].step \in {"list", "store"} =>
                           /\ request'[d].cfg \in published \ {NotUsable}
                           /\ ValidatePolicy(request'[d].policy, request'[d].cfg)
    BY <1>1 DEF Reviewed, ValidatePolicy, SelectorOK, ExpectedPolicyName
  <2>1. CASE d = c
    BY <2>1, <1>2 DEF NoRequest
  <2>2. CASE d # c
    BY <2>2, <1>2 DEF AdmInv, Reviewed
  <2> QED BY <2>1, <2>2
<1>7. \A d \in Client : request'[d].step \in {"list", "store"} => request'[d].cfg # NotUsable
  <2> SUFFICES ASSUME NEW d \in Client, request'[d].step \in {"list", "store"}
               PROVE  request'[d].cfg # NotUsable
    OBVIOUS
  <2>1. d # c
    BY <1>2 DEF NoRequest
  <2> QED BY <2>1, <1>2 DEF AdmInv, AdmTypeOK
<1>8. OverlapStillChecked'
  <2> SUFFICES ASSUME NEW d \in Client, NEW q \in policies', request'[d].step = "store",
                      request'[d].policy.labels[request'[d].cfg.key] # EmptyValue,
                      selectsSameService(q, request'[d].policy, request'[d].cfg)
               PROVE  FALSE
    BY DEF OverlapStillChecked, selectsSameService, SelectorOK
  <2>1. d # c /\ request'[d] = request[d]
    BY <1>2 DEF NoRequest
  <2>2. ValidatePolicy(request[d].policy, request[d].cfg)
    BY <2>1 DEF AdmInv, Reviewed
  <2>3. CASE q = p
    BY <2>1, <2>2, <2>3, <1>3, NameDetermined
  <2>4. CASE q \in policies
    BY <2>1, <2>4 DEF AdmInv, OverlapStillChecked
  <2> QED BY <1>5, <2>3, <2>4
<1>9. AdmTypeOK'
  <2>1. UniqueNames(policies')
    <3>1. CASE policies' = policies
      BY <3>1 DEF AdmInv, AdmTypeOK, UniqueNames
    <3>2. CASE policies' # policies
      <4>1. \A q \in policies \ {old} : q.name # p.name
        BY <1>1, <1>5, <3>2, StoredName
      <4>2. policies' = (policies \ {old}) \cup {p} /\ UniqueNames(policies)
        BY <1>5, <3>2 DEF AdmInv, AdmTypeOK
      <4> QED BY <4>1, <4>2 DEF UniqueNames
    <3> QED BY <3>1, <3>2
  <2>2. policies' \subseteq Policy /\ rogues' \subseteq policies'
    BY <1>3, <1>5 DEF AdmInv, AdmTypeOK
  <2> QED BY <1>1, <1>2, <1>7, <2>1, <2>2 DEF AdmInv, AdmTypeOK, UniqueNames
<1>10. AdmittedIsEffective'
  <2>1. p.limits /\ \E value \in Value : Selects(p, cfg.sched, cfg.key, value)
    BY <1>3, <1>4, ValidSelects
  <2>2. \A q \in policies' \ rogues' : q = p \/ q \in policies \ rogues
    BY <1>5
  <2> QED BY <1>1, <1>3, <2>1, <2>2 DEF AdmInv, AdmittedIsEffective, Selects
<1>11. ConfigPublished'
  BY <1>1 DEF AdmInv, ConfigPublished, ParseConfigMap
<1> QED BY <1>6, <1>8, <1>9, <1>10, <1>11 DEF AdmInv

\* Deletions, edits of the ConfigMap and the replicas' view of it keep it too.
LEMMA WorldStep ==
  ASSUME AdmInv,
         \/ \E p \in policies : DeletePolicy(p)
         \/ EditConfigMap
         \/ \E w \in Server : ConfigEvent(w) \/ ServerRestarts(w)
  PROVE  AdmInv'
<1> USE AdmissionAssumption
<1>1. /\ request' = request /\ policies' \subseteq policies /\ rogues' \subseteq policies'
      /\ policies' \ rogues' \subseteq policies \ rogues /\ published \subseteq published'
      /\ edits' \in 0..MaxEdits /\ configMap' \in ConfigMap
  BY DEF DeletePolicy, EditConfigMap, ConfigEvent, ServerRestarts, AdmInv, AdmTypeOK
<1>2. /\ ParseConfigMap(configMap') \in published'
      /\ published' \subseteq PluginConfig \cup {NotUsable}
      /\ config' \in [Server -> PluginConfig \cup {NotUsable}]
      /\ \A w \in Server : config'[w] \in published' \cup {NotUsable}
  BY ParseType DEF DeletePolicy, EditConfigMap, ConfigEvent, ServerRestarts, AdmInv, AdmTypeOK,
     ConfigPublished
<1>3. AdmTypeOK'
  BY <1>1, <1>2 DEF AdmInv, AdmTypeOK, UniqueNames
<1>4. Reviewed'
  BY <1>1 DEF AdmInv, Reviewed, ValidatePolicy, SelectorOK, ExpectedPolicyName
<1>5. OverlapStillChecked'
  BY <1>1 DEF AdmInv, OverlapStillChecked, selectsSameService, SelectorOK
<1>6. ConfigPublished'
  BY <1>2 DEF ConfigPublished, ParseConfigMap
<1>7. AdmittedIsEffective'
  BY <1>1 DEF AdmInv, AdmittedIsEffective, Selects
<1> QED BY <1>3, <1>4, <1>5, <1>6, <1>7 DEF AdmInv

\* Every step of the webhook, the API server and the config cache keeps AdmInv.
LEMMA AdmStep == AdmInv /\ [AdmNext]_admVars => AdmInv'
<1> SUFFICES ASSUME AdmInv, [AdmNext]_admVars PROVE AdmInv'
  OBVIOUS
<1>1. CASE AdmNext
  BY <1>1, RequestStep, StoreStep, WorldStep DEF AdmNext
<1>2. CASE UNCHANGED admVars
  BY <1>2, ZenonT(60) DEF admVars, AdmInv, AdmTypeOK, Reviewed, OverlapStillChecked, ConfigPublished,
     AdmittedIsEffective, UniqueNames, ValidatePolicy, SelectorOK, ExpectedPolicyName,
     selectsSameService, ParseConfigMap, Selects
<1> QED BY <1>1, <1>2

\* Admission keeps its types, and the names of stored policies apart, for any
\* number of concurrent writers and webhook replicas.
THEOREM AdmTypeCorrect == AdmSpec => []AdmTypeOK
<1>1. AdmInv => AdmTypeOK
  BY DEF AdmInv
<1> QED BY <1>1, AdmInitOK, AdmStep, PTL DEF AdmSpec

\* Every policy the webhook admitted selects one service for a configuration
\* that was once published, however the ConfigMap was edited meanwhile.
THEOREM AdmittedEffective == AdmSpec => []AdmittedIsEffective
<1>1. AdmInv => AdmittedIsEffective
  BY DEF AdmInv
<1> QED BY <1>1, AdmInitOK, AdmStep, PTL DEF AdmSpec

\* The one step that can add a policy makes no service ambiguous.
LEMMA StoreKeepsUnambiguous ==
  ASSUME AdmInv, [AdmNext]_admVars,
         NEW sched \in SchedName, NEW key \in LabelKey, NEW value \in Value \ {EmptyValue},
         Ambiguous(sched, key, value)'
  PROVE  Ambiguous(sched, key, value)
<1>1. PICK p \in policies', q \in policies' :
        p # q /\ Selects(p, sched, key, value) /\ Selects(q, sched, key, value)
  BY DEF Ambiguous, Selects
<1>2. CASE p \in policies /\ q \in policies
  BY <1>1, <1>2 DEF Ambiguous
<1>3. CASE ~(p \in policies /\ q \in policies)
  <2>1. PICK c \in Client : Store(c)
    BY <1>3, ZenonT(60) DEF AdmNext, admVars, Submit, Review, CheckOverlap, DeletePolicy, EditConfigMap,
       ConfigEvent, ServerRestarts
  <2> DEFINE new == request[c].policy
             old == request[c].old
             cfg == request[c].cfg
  <2>2. /\ request[c].step = "store"
        /\ policies' = (policies \ {old}) \cup {new}
        /\ IF old = NoPolicy THEN \A r \in policies : r.name # new.name ELSE old \in policies
    BY <2>1, <1>3 DEF Store
  <2>3. \A r \in policies \ {old} : r.name # new.name
    BY <2>2, StoredName
  <2>4. PICK r \in policies \ {old} :
          Selects(new, sched, key, value) /\ Selects(r, sched, key, value)
    BY <1>1, <1>3, <2>2
  <2>5. ValidatePolicy(new, cfg) /\ SelectorOK(new, cfg)
    BY <2>2 DEF AdmInv, Reviewed, ValidatePolicy
  <2>6. cfg.key = key
    BY <2>4, <2>5 DEF Selects, SelectorOK
  <2>7. selectsSameService(r, new, cfg) /\ new.labels[cfg.key] # EmptyValue
    BY <2>3, <2>4, <2>5, <2>6 DEF Selects, SelectorOK, selectsSameService
  <2> QED BY <2>2, <2>4, <2>7 DEF AdmInv, OverlapStillChecked
<1> QED BY <1>2, <1>3

\* No write the webhook admits makes the scheduler find two policies for a
\* service, although checkOverlap's list is stale when the object is stored:
\* concurrent writers of one service are bound to one object name.
THEOREM AmbiguityNeverAdmitted == AdmSpec => NoNewAmbiguity
<1>1. AdmInv /\ [AdmNext]_admVars =>
        [\A sched \in SchedName, key \in LabelKey, value \in Value \ {EmptyValue} :
           Ambiguous(sched, key, value)' => Ambiguous(sched, key, value)]_admVars
  BY StoreKeepsUnambiguous
<1> QED BY <1>1, AdmInitOK, AdmStep, PTL DEF AdmSpec, NoNewAmbiguity

-----------------------------------------------------------------------------
PassType == [step : Step, version : Nat, tls : BOOLEAN, mine : Nat]

\* Passes outside start-up are the leader's (leaderOnly), and until there is a
\* Secret nobody serves, so that start-ups in turn leave one pass at a time.
OnePassCold ==
  /\ \A r \in Replica : proc[r] = "serve" /\ leader # r => pass[r] = NoPass
  /\ secret.version = 0 =>
       /\ secret.leaf = 0 /\ leader = NoReplica
       /\ \A r \in Replica : mount[r] = 0 /\ proc[r] \in {"down", "cold"}
       /\ \A r, s \in Replica : pass[r] # NoPass /\ pass[s] # NoPass => r = s

\* A pass about to write holds a version no newer than the Secret's, and one
\* as new as the Secret's only while the Secret is still to be replaced.
WriteIsDue ==
  \A r \in Replica : pass[r].step = "write" =>
    /\ pass[r].version <= secret.version
    /\ pass[r].version = secret.version => NeedIssue
    /\ pass[r].version = 0 => secret.version = 0
    /\ pass[r].mine # 0

FreshInv == CertTypeOK /\ OnePassCold /\ WriteIsDue

\* A pass about to patch has just stored the pair it will announce, and the
\* bundle lags behind the Secret only while there is such a pass.
PatchPending ==
  /\ \A r \in Replica : pass[r].step = "patch" =>
       /\ secret.leaf = pass[r].mine /\ secret.ca = pass[r].mine /\ pass[r].mine # 0
       /\ ~due /\ secret.version # 0
  /\ secret.version # 0 /\ secret.leaf = secret.ca /\ bundle # secret.ca =>
       \E r \in Replica : pass[r].step = "patch"

\* Get does not fail, and replicas start in turn until there is a Secret.
GetReliable == SerialColdStart /\ "get" \notin Faults

\* Moreover a pass that stored its pair also gets to patch the bundle.
PatchReliable == GetReliable /\ "patch" \notin Faults /\ "crash" \notin Faults

\* All replicas start down, and the bundle holds the CA of the Secret, if any.
LEMMA CertInitOK == CertInit => FreshInv /\ PatchPending
<1> SUFFICES ASSUME CertInit PROVE FreshInv /\ PatchPending
  OBVIOUS
<1> USE CertAssumption DEF CertInit
<1>1. /\ secret \in [leaf : Nat, ca : Nat, tls : BOOLEAN, version : Nat]
      /\ secret.version = 0 => secret.leaf = 0
      /\ due \in BOOLEAN
  <2>1. CASE secret = [leaf |-> 0, ca |-> 0, tls |-> FALSE, version |-> 0]
    BY <2>1, ZenonT(60)
  <2>2. CASE secret \in [leaf : {1, 2}, ca : {0, 1}, tls : BOOLEAN, version : {1}]
    <3>1. PICK l \in {1, 2}, k \in {0, 1}, t \in BOOLEAN :
            secret = [leaf |-> l, ca |-> k, tls |-> t, version |-> 1]
      BY <2>2
    <3>2. due \in BOOLEAN
      BY ZenonT(60)
    <3> QED BY <3>1, <3>2
  <2> QED BY <2>1, <2>2
<1>2. \A r \in Replica : pass[r] = NoPass /\ proc[r] = "down" /\ mount[r] \in {0, secret.leaf}
  BY ZenonT(60)
<1>3. NoPass \in PassType /\ NoPass.step = "none"
  BY DEF NoPass, PassType, Step
<1>4. CertTypeOK
  BY <1>1, <1>2, <1>3 DEF CertTypeOK, PassType
<1>5. OnePassCold /\ WriteIsDue /\ PatchPending
  BY <1>1, <1>2, <1>3 DEF OnePassCold, WriteIsDue, PatchPending
<1> QED BY <1>4, <1>5 DEF FreshInv

\* What the end of a pass does to the processes and the passes (main).
LEMMA ReturnFacts ==
  ASSUME CertTypeOK, NEW r \in Replica, Return(r)
  PROVE  /\ pass' \in [Replica -> PassType] /\ pass'[r] = NoPass
         /\ proc' \in [Replica -> {"down", "cold", "boot", "serve"}]
         /\ proc[r] = "cold" => proc'[r] = "down"
         /\ proc[r] = "boot" => proc'[r] = "serve"
         /\ proc[r] \in {"down", "serve"} => proc'[r] = proc[r]
         /\ \A s \in Replica \ {r} : pass'[s] = pass[s] /\ proc'[s] = proc[s]
<1>1. pass \in [Replica -> PassType] /\ proc \in [Replica -> {"down", "cold", "boot", "serve"}]
  BY DEF CertTypeOK, PassType
<1>2. NoPass \in PassType
  BY DEF NoPass, PassType, Step
<1> QED BY <1>1, <1>2 DEF Return

\* The start of a pass.
LEMMA BeginFacts ==
  ASSUME CertTypeOK, NEW r \in Replica, pass[r] = NoPass,
         pass' = [pass EXCEPT ![r].step = "get"]
  PROVE  /\ pass' \in [Replica -> PassType] /\ pass'[r].step = "get" /\ pass'[r] # NoPass
         /\ \A s \in Replica \ {r} : pass'[s] = pass[s]
<1>1. pass \in [Replica -> PassType]
  BY DEF CertTypeOK, PassType
<1>2. [NoPass EXCEPT !.step = "get"] \in PassType /\ [NoPass EXCEPT !.step = "get"].step = "get"
  BY ZenonT(60) DEF NoPass, PassType, Step
<1>3. pass' = [pass EXCEPT ![r] = [NoPass EXCEPT !.step = "get"]]
  BY <1>1
<1>4. NoPass.step = "none"
  BY DEF NoPass
<1> QED BY <1>1, <1>2, <1>3, <1>4, ZenonT(60)

\* The types of the certificate's state, with the facts the other proofs use.
LEMMA CertTypes ==
  ASSUME CertTypeOK
  PROVE  /\ secret \in [leaf : Nat, ca : Nat, tls : BOOLEAN, version : Nat]
         /\ pass \in [Replica -> PassType] /\ issued \in Nat
         /\ proc \in [Replica -> {"down", "cold", "boot", "serve"}]
         /\ NoPass \in PassType /\ NoPass.step = "none"
BY DEF CertTypeOK, PassType, NoPass, Step

\* A replica starts: its first pass begins, alone if there is no Secret.
LEMMA StartStep ==
  ASSUME GetReliable, FreshInv, NEW r \in Replica, Start(r)
  PROVE  FreshInv' /\ (PatchPending => PatchPending')
<1> USE CertAssumption
<1>1. /\ UNCHANGED <<secret, due, bundle, issued, mount, leader, rollout, events>>
      /\ proc[r] = "down" /\ pass[r] = NoPass
      /\ pass' = [pass EXCEPT ![r].step = "get"]
      /\ proc' = [proc EXCEPT ![r] = IF mount[r] = 0 THEN "cold" ELSE "boot"]
      /\ served' = [served EXCEPT ![r] = mount[r]]
      /\ secret.version = 0 => \A s \in Replica : pass[s] = NoPass
  BY DEF Start, FreshInv, CertTypeOK, GetReliable
<1>2. /\ pass' \in [Replica -> PassType] /\ pass'[r].step = "get"
      /\ \A s \in Replica \ {r} : pass'[s] = pass[s]
  BY <1>1, BeginFacts, ZenonT(60) DEF FreshInv
<1>3. /\ proc' \in [Replica -> {"down", "cold", "boot", "serve"}]
      /\ proc'[r] \in {"cold", "boot"} /\ (mount[r] = 0 => proc'[r] = "cold")
      /\ \A s \in Replica \ {r} : proc'[s] = proc[s]
  BY <1>1 DEF FreshInv, CertTypeOK
<1>4. CertTypeOK'
  <2>1. served' \in [Replica -> Nat]
    BY <1>1 DEF FreshInv, CertTypeOK
  <2> QED BY <1>1, <1>2, <1>3, <2>1 DEF FreshInv, CertTypeOK, PassType, Step
<1>5. OnePassCold'
  BY <1>1, <1>2, <1>3 DEF FreshInv, OnePassCold
<1>6. WriteIsDue'
  BY <1>1, <1>2 DEF FreshInv, WriteIsDue, NeedIssue
<1>7. PatchPending => PatchPending'
  BY <1>1, <1>2, CertTypes DEF FreshInv, PatchPending
<1> QED BY <1>4, <1>5, <1>6, <1>7 DEF FreshInv

\* The leader begins a pass: when it is elected, and on a tick.
LEMMA LeaderStep ==
  ASSUME FreshInv, NEW r \in Replica, Elected(r) \/ Tick(r)
  PROVE  FreshInv' /\ (PatchPending => PatchPending')
<1> USE CertAssumption
<1>1. /\ UNCHANGED <<secret, due, bundle, issued, proc, mount, served, rollout, events>>
      /\ pass[r] = NoPass /\ proc[r] = "serve" /\ leader' = r /\ leader \in {r, NoReplica}
      /\ pass' = [pass EXCEPT ![r].step = "get"]
  BY DEF Elected, Tick, FreshInv, CertTypeOK, OnePassCold
<1>2. /\ pass' \in [Replica -> PassType] /\ pass'[r].step = "get"
      /\ \A s \in Replica \ {r} : pass'[s] = pass[s]
  BY <1>1, BeginFacts, ZenonT(60) DEF FreshInv
<1>3. secret.version # 0
  BY <1>1 DEF FreshInv, OnePassCold
<1>4. CertTypeOK'
  BY <1>1, <1>2 DEF FreshInv, CertTypeOK, PassType, Step
<1>5. OnePassCold'
  BY <1>1, <1>2, <1>3 DEF FreshInv, OnePassCold
<1>6. WriteIsDue'
  BY <1>1, <1>2 DEF FreshInv, WriteIsDue, NeedIssue
<1>7. PatchPending => PatchPending'
  BY <1>1, <1>2, CertTypes DEF FreshInv, PatchPending
<1> QED BY <1>4, <1>5, <1>6, <1>7 DEF FreshInv

\* A pass that returns and leaves the Secret alone.
LEMMA ReturnStep ==
  ASSUME FreshInv, NEW r \in Replica, Return(r),
         UNCHANGED <<secret, due, issued, mount, served, leader>>,
         bundle' \in Nat, rollout' \subseteq Replica, events' \in 0..MaxEvents
  PROVE  /\ FreshInv'
         /\ PatchPending /\ pass[r].step # "patch" /\ bundle' = bundle => PatchPending'
<1>1. /\ pass' \in [Replica -> PassType] /\ pass'[r] = NoPass
      /\ proc' \in [Replica -> {"down", "cold", "boot", "serve"}]
      /\ proc[r] = "cold" => proc'[r] = "down"
      /\ proc[r] = "boot" => proc'[r] = "serve"
      /\ proc[r] \in {"down", "serve"} => proc'[r] = proc[r]
      /\ \A s \in Replica \ {r} : pass'[s] = pass[s] /\ proc'[s] = proc[s]
  BY ReturnFacts DEF FreshInv
<1>2. CertTypeOK'
  BY <1>1 DEF FreshInv, CertTypeOK, PassType, Step
<1>3. OnePassCold'
  BY <1>1 DEF FreshInv, OnePassCold
<1>4. WriteIsDue'
  BY <1>1, CertTypes DEF FreshInv, WriteIsDue, NeedIssue
<1>5. PatchPending /\ pass[r].step # "patch" /\ bundle' = bundle => PatchPending'
  BY <1>1, CertTypes DEF FreshInv, PatchPending
<1> QED BY <1>2, <1>3, <1>4, <1>5 DEF FreshInv

\* The pass of r goes on to another step and its process goes on unchanged.
LEMMA GoesOn ==
  ASSUME CertTypeOK, NEW r \in Replica, NEW x \in PassType, pass[r] # NoPass,
         pass' = [pass EXCEPT ![r] = x], UNCHANGED <<proc, mount, served, leader>>,
         bundle' \in Nat, issued' \in Nat, rollout' \subseteq Replica, events' \in 0..MaxEvents,
         due' \in BOOLEAN, secret' \in [leaf : Nat, ca : Nat, tls : BOOLEAN, version : Nat]
  PROVE  /\ CertTypeOK' /\ pass'[r] = x
         /\ \A s \in Replica \ {r} : pass'[s] = pass[s]
         /\ OnePassCold /\ (secret'.version = 0 => secret = secret') => OnePassCold'
<1>1. /\ pass' \in [Replica -> PassType] /\ pass'[r] = x
      /\ \A s \in Replica \ {r} : pass'[s] = pass[s]
  BY CertTypes
<1>2. CertTypeOK'
  BY <1>1 DEF CertTypeOK, PassType
<1>3. OnePassCold /\ (secret'.version = 0 => secret = secret') => OnePassCold'
  BY <1>1 DEF OnePassCold
<1> QED BY <1>1, <1>2, <1>3

\* Get, and the decision to issue.
LEMMA GetStep ==
  ASSUME GetReliable, FreshInv, NEW r \in Replica, GetSecret(r)
  PROVE  FreshInv' /\ (PatchPending => PatchPending')
<1> USE CertAssumption
<1>1. /\ pass[r].step = "get" /\ pass[r] # NoPass
      /\ UNCHANGED <<secret, due, bundle, mount, served, leader, rollout>>
      /\ events' = events
      /\ IF NeedIssue
           THEN /\ pass' = [pass EXCEPT ![r] = [step |-> "write", mine |-> issued + 1,
                              version |-> secret.version, tls |-> secret.tls]]
                /\ issued' = issued + 1 /\ proc' = proc
           ELSE Return(r) /\ issued' = issued
  <2>1. PICK failed \in {FALSE, MayFail("get")} :
          /\ pass[r].step = "get"
          /\ IF failed \/ NeedIssue
               THEN /\ pass' = [pass EXCEPT ![r] =
                         [step |-> "write", mine |-> issued + 1,
                          version |-> ReadVersion(failed), tls |-> ~failed /\ secret.tls]]
                    /\ issued' = issued + 1 /\ proc' = proc
               ELSE Return(r) /\ issued' = issued
          /\ events' = IF failed THEN events + 1 ELSE events
          /\ UNCHANGED <<secret, due, bundle, mount, served, leader, rollout>>
    BY ZenonT(60) DEF GetSecret, NewPair
  <2>2. failed = FALSE
    BY ZenonT(60) DEF MayFail, GetReliable
  <2>3. (~failed /\ secret.tls) = secret.tls
    BY <2>2, CertTypes DEF FreshInv
  <2>4. ReadVersion(failed) = secret.version
    BY <2>2 DEF ReadVersion
  <2>5. pass[r].step = "get" /\ pass[r] # NoPass
    <3>1. pass[r].step = "get"
      BY <2>1, Zenon
    <3>2. NoPass.step = "none"
      BY DEF NoPass
    <3> QED BY <3>1, <3>2
  <2>6. CASE NeedIssue
    <3>1. /\ pass' = [pass EXCEPT ![r] =
                [step |-> "write", mine |-> issued + 1,
                 version |-> ReadVersion(failed), tls |-> ~failed /\ secret.tls]]
          /\ issued' = issued + 1 /\ proc' = proc
      BY <2>1, <2>6
    <3>2. pass' = [pass EXCEPT ![r] = [step |-> "write", mine |-> issued + 1,
                     version |-> secret.version, tls |-> secret.tls]]
      BY <3>1, <2>3, <2>4, Zenon
    <3> QED BY <2>1, <2>2, <2>5, <2>6, <3>1, <3>2, ZenonT(60)
  <2>7. CASE ~NeedIssue
    BY <2>1, <2>2, <2>5, <2>7
  <2> QED BY <2>6, <2>7
<1>2. CASE ~NeedIssue
  BY <1>1, <1>2, ReturnStep DEF FreshInv, CertTypeOK
<1>3. CASE NeedIssue
  <2> DEFINE x == [step |-> "write", mine |-> issued + 1,
                   version |-> secret.version, tls |-> secret.tls]
  <2>1. x \in PassType /\ x.step = "write" /\ x.version = secret.version /\ x.mine # 0
    BY CertTypes DEF FreshInv, PassType, Step
  <2>2. pass' = [pass EXCEPT ![r] = x]
    BY <1>1, <1>3
  <2> HIDE DEF x
  <2>3. issued' \in Nat /\ proc' = proc
    BY <1>1, <1>3, CertTypes DEF FreshInv
  <2>4. /\ CertTypeOK' /\ pass'[r] = x /\ OnePassCold'
        /\ \A s \in Replica \ {r} : pass'[s] = pass[s]
    BY <1>1, <2>1, <2>2, <2>3, GoesOn, ZenonT(60) DEF FreshInv, CertTypeOK
  <2>5. WriteIsDue'
    <3>1. secret' = secret /\ (NeedIssue' <=> NeedIssue) /\ secret.version \in Nat
      BY <1>1, CertTypes DEF FreshInv, NeedIssue
    <3>2. SUFFICES ASSUME NEW s \in Replica, pass'[s].step = "write"
                   PROVE  /\ pass'[s].version <= secret.version
                          /\ pass'[s].version = secret.version => NeedIssue
                          /\ pass'[s].version = 0 => secret.version = 0
                          /\ pass'[s].mine # 0
      BY <3>1 DEF WriteIsDue
    <3>3. CASE s = r
      BY <1>3, <2>1, <2>4, <3>1, <3>3
    <3>4. CASE s # r
      BY <2>4, <3>2, <3>4 DEF FreshInv, WriteIsDue
    <3> QED BY <3>3, <3>4
  <2>6. PatchPending => PatchPending'
    BY <1>1, <2>1, <2>4 DEF PatchPending
  <2> QED BY <2>4, <2>5, <2>6 DEF FreshInv
<1> QED BY <1>2, <1>3

\* A Secret is written only when it is still to be replaced.
LEMMA WriteWasDue ==
  ASSUME FreshInv, NEW r \in Replica, pass[r].step = "write", UpdateOK(r) \/ CreateOK(r)
  PROVE  NeedIssue
BY DEF FreshInv, WriteIsDue, UpdateOK, CreateOK, NeedIssue

\* Update, else Create: other passes that read an older Secret are outdated by
\* the new version, and none waits to patch.
LEMMA WriteStep ==
  ASSUME FreshInv, NEW r \in Replica, WriteSecret(r)
  PROVE  FreshInv' /\ (PatchPending => PatchPending')
<1>1. /\ pass[r].step = "write" /\ pass[r] # NoPass
      /\ UNCHANGED <<bundle, issued, mount, served, leader, rollout, events>>
  BY DEF WriteSecret, NoPass
<1>2. CASE ~(UpdateOK(r) \/ CreateOK(r))
  BY <1>1, <1>2, ReturnStep DEF WriteSecret, FreshInv, CertTypeOK
<1>3. CASE UpdateOK(r) \/ CreateOK(r)
  <2> DEFINE x == [pass[r] EXCEPT !.step = "patch"]
  <2>1. x \in PassType /\ x.step = "patch" /\ x.mine = pass[r].mine
    BY CertTypes DEF FreshInv, PassType, Step
  <2>2. /\ pass' = [pass EXCEPT ![r] = x] /\ proc' = proc /\ due' = FALSE
        /\ secret' = [leaf |-> pass[r].mine, ca |-> pass[r].mine,
                      tls |-> pass[r].tls, version |-> secret.version + 1]
    BY <1>3, CertTypes DEF WriteSecret, FreshInv
  <2> HIDE DEF x
  <2>3. /\ secret' \in [leaf : Nat, ca : Nat, tls : BOOLEAN, version : Nat]
        /\ secret'.version = secret.version + 1 /\ secret'.version # 0
        /\ secret'.leaf = pass[r].mine /\ secret'.ca = pass[r].mine
    BY <2>2, CertTypes DEF FreshInv, PassType
  <2>4. /\ CertTypeOK' /\ pass'[r] = x /\ OnePassCold'
        /\ \A s \in Replica \ {r} : pass'[s] = pass[s]
    BY <1>1, <2>1, <2>2, <2>3, GoesOn, ZenonT(60) DEF FreshInv, CertTypeOK
  <2>5. \A s \in Replica \ {r} : pass[s].step = "write" =>
          /\ pass[s].version < secret'.version /\ pass[s].version # secret'.version
          /\ pass[s].version # 0 /\ pass[s].mine # 0
    <3> SUFFICES ASSUME NEW s \in Replica \ {r}, pass[s].step = "write"
                 PROVE  /\ pass[s].version < secret'.version
                        /\ pass[s].version # secret'.version
                        /\ pass[s].version # 0 /\ pass[s].mine # 0
      OBVIOUS
    <3>1. pass[s].version \in Nat /\ secret.version \in Nat /\ pass[s] # NoPass
      BY CertTypes DEF FreshInv, PassType, NoPass
    <3>2. /\ pass[s].version <= secret.version /\ pass[s].mine # 0
          /\ pass[s].version = 0 => secret.version = 0
      BY DEF FreshInv, WriteIsDue
    <3>3. secret.version # 0
      BY <1>1, <3>1 DEF FreshInv, OnePassCold
    <3> QED BY <2>3, <3>1, <3>2, <3>3
  <2>6. WriteIsDue'
    <3> SUFFICES ASSUME NEW s \in Replica, pass'[s].step = "write"
                 PROVE  /\ pass'[s].version <= secret'.version
                        /\ pass'[s].version # secret'.version
                        /\ pass'[s].version # 0 /\ pass'[s].mine # 0
      BY DEF WriteIsDue
    <3>1. s # r /\ pass'[s] = pass[s]
      BY <2>1, <2>4
    <3>2. pass[s].version \in Nat /\ secret'.version \in Nat
      BY <2>3, CertTypes DEF FreshInv, PassType
    <3> QED BY <2>5, <3>1, <3>2
  <2>7. ASSUME PatchPending PROVE PatchPending'
    <3>1. NeedIssue
      BY <1>1, <1>3, WriteWasDue
    <3>2. \A s \in Replica : pass[s].step # "patch"
      BY <2>7, <3>1 DEF PatchPending, NeedIssue
    <3>3. pass[r].mine # 0
      BY <1>1 DEF FreshInv, WriteIsDue
    <3> QED BY <2>1, <2>2, <2>3, <2>4, <3>2, <3>3 DEF PatchPending
  <2> QED BY <2>4, <2>6, <2>7 DEF FreshInv
<1> QED BY <1>2, <1>3

\* The caBundle patch brings the bundle up to the stored pair.
LEMMA PatchStep ==
  ASSUME FreshInv, NEW r \in Replica, PatchBundle(r)
  PROVE  FreshInv' /\ (PatchPending => PatchPending')
<1>1. /\ pass[r].step = "patch" /\ pass[r] # NoPass /\ bundle' = pass[r].mine
      /\ UNCHANGED <<secret, due, issued, mount, served, leader, rollout, events>>
  BY DEF PatchBundle, NoPass
<1>2. bundle' \in Nat
  BY <1>1, CertTypes DEF FreshInv, PassType
<1>3. /\ FreshInv' /\ pass'[r].step # "patch"
      /\ \A s \in Replica \ {r} : pass'[s] = pass[s]
  <2>1. CASE proc[r] # "serve"
    <3>1. Return(r)
      BY <2>1 DEF PatchBundle
    <3>2. pass'[r].step # "patch" /\ \A s \in Replica \ {r} : pass'[s] = pass[s]
      BY <3>1, ReturnFacts, CertTypes DEF FreshInv
    <3> QED BY <1>1, <1>2, <3>1, <3>2, ReturnStep DEF FreshInv, CertTypeOK
  <2>2. CASE proc[r] = "serve"
    <3> DEFINE x == [pass[r] EXCEPT !.step = "roll"]
    <3>1. x \in PassType /\ x.step = "roll"
      BY CertTypes DEF FreshInv, PassType, Step
    <3>2. pass' = [pass EXCEPT ![r] = x] /\ proc' = proc
      BY <2>2, CertTypes DEF PatchBundle, FreshInv
    <3> HIDE DEF x
    <3>3. /\ CertTypeOK' /\ pass'[r] = x /\ OnePassCold'
          /\ \A s \in Replica \ {r} : pass'[s] = pass[s]
      BY <1>1, <1>2, <3>1, <3>2, GoesOn, ZenonT(60) DEF FreshInv, CertTypeOK
    <3>4. WriteIsDue'
      BY <1>1, <3>1, <3>3, ZenonT(60) DEF FreshInv, WriteIsDue, NeedIssue
    <3> QED BY <3>1, <3>3, <3>4, ZenonT(60) DEF FreshInv
  <2> QED BY <2>1, <2>2
<1>4. PatchPending => PatchPending'
  BY <1>1, <1>3, ZenonT(60) DEF PatchPending
<1> QED BY <1>3, <1>4

\* The roll, and a request that fails.
LEMMA RollStep ==
  ASSUME FreshInv, NEW r \in Replica, RollDeployment(r) \/ RequestFails(r)
  PROVE  FreshInv' /\ (PatchReliable /\ PatchPending => PatchPending')
<1> USE CertAssumption
<1>1. /\ Return(r) /\ UNCHANGED <<secret, due, bundle, issued, mount, served, leader>>
      /\ rollout' \subseteq Replica /\ events' \in 0..MaxEvents
      /\ PatchReliable => pass[r].step # "patch"
  BY DEF RollDeployment, RequestFails, FreshInv, CertTypeOK, MayFail, PatchReliable
<1> QED BY <1>1, ReturnStep DEF FreshInv, CertTypeOK

\* A process ends, by itself or replaced by the rolling update.
LEMMA EndStep ==
  ASSUME FreshInv, NEW r \in Replica, Dies(r) \/ Replaced(r)
  PROVE  FreshInv' /\ (PatchReliable /\ PatchPending => PatchPending')
<1> USE CertAssumption
<1>1. /\ Ends(r) /\ UNCHANGED <<secret, due, bundle, issued>>
      /\ rollout' \subseteq Replica /\ events' \in 0..MaxEvents
      /\ mount' \in [Replica -> Nat]
      /\ secret.version = 0 => \A s \in Replica : mount'[s] = 0
      /\ PatchReliable => pass[r] = NoPass
  <2>1. CASE Dies(r)
    <3>1. Ends(r) /\ UNCHANGED <<secret, due, bundle, issued, rollout, mount>>
      BY <2>1 DEF Dies, Ends
    <3>2. /\ rollout \subseteq Replica /\ events' \in 0..MaxEvents
          /\ PatchReliable => pass[r] = NoPass
      BY <2>1 DEF Dies, FreshInv, CertTypeOK, MayFail, PatchReliable
    <3>3. /\ mount \in [Replica -> Nat]
          /\ secret.version = 0 => \A s \in Replica : mount[s] = 0
      BY DEF FreshInv, CertTypeOK, OnePassCold
    <3> QED BY <3>1, <3>2, <3>3
  <2>2. CASE Replaced(r)
    <3>1. /\ mount' = [mount EXCEPT ![r] = secret.leaf] /\ secret.leaf \in Nat
          /\ mount \in [Replica -> Nat]
      BY <2>2, CertTypes DEF Replaced, FreshInv, CertTypeOK
    <3> QED BY <2>2, <3>1 DEF Replaced, Ends, FreshInv, CertTypeOK, OnePassCold
  <2> QED BY <2>1, <2>2
<1>2. /\ pass' \in [Replica -> PassType] /\ pass'[r] = NoPass
      /\ proc' \in [Replica -> {"down", "cold", "boot", "serve"}] /\ proc'[r] = "down"
      /\ served' \in [Replica -> Nat]
      /\ \A s \in Replica \ {r} : pass'[s] = pass[s] /\ proc'[s] = proc[s]
      /\ leader' \in (Replica \cup {NoReplica}) \ {r} /\ leader' \in {leader, NoReplica}
  BY <1>1, CertTypes DEF Ends, FreshInv, CertTypeOK
<1>3. CertTypeOK'
  BY <1>1, <1>2 DEF FreshInv, CertTypeOK, PassType, Step
<1>4. OnePassCold'
  <2>1. \A s \in Replica \ {r} : proc'[s] = "serve" /\ leader' # s => pass'[s] = NoPass
    <3> SUFFICES ASSUME NEW s \in Replica \ {r}, proc[s] = "serve", leader' # s
                 PROVE  pass[s] = NoPass
      BY <1>2
    <3>1. leader # s
      BY <1>1 DEF Ends
    <3> QED BY <3>1, ZenonT(60) DEF FreshInv, OnePassCold
  <2>2. secret'.version = 0 =>
          /\ secret'.leaf = 0 /\ leader' = NoReplica
          /\ \A s \in Replica : mount'[s] = 0 /\ proc'[s] \in {"down", "cold"}
          /\ \A s, t \in Replica : pass'[s] # NoPass /\ pass'[t] # NoPass => s = t
    BY <1>1, <1>2 DEF FreshInv, OnePassCold
  <2> QED BY <1>2, <2>1, <2>2, ZenonT(60) DEF OnePassCold
<1>5. WriteIsDue'
  BY <1>1, <1>2, CertTypes DEF FreshInv, WriteIsDue, NeedIssue
<1>6. PatchReliable /\ PatchPending => PatchPending'
  BY <1>1, <1>2, CertTypes DEF FreshInv, PatchPending
<1> QED BY <1>3, <1>4, <1>5, <1>6 DEF FreshInv

\* The kubelet, certwatcher and the passing of time.
LEMMA AroundStep ==
  ASSUME FreshInv, Ages \/ \E r \in Replica : Propagates(r) \/ Reloads(r)
  PROVE  FreshInv' /\ (PatchPending => PatchPending')
<1> USE CertAssumption
<1>1. CASE Ages
  <2>1. /\ UNCHANGED <<secret, bundle, issued, proc, pass, mount, served, leader, rollout>>
        /\ due' = TRUE /\ events' \in 0..MaxEvents
        /\ \A r \in Replica : pass[r] = NoPass
    BY <1>1 DEF Ages, FreshInv, CertTypeOK
  <2>2. CertTypeOK' /\ OnePassCold'
    BY <2>1 DEF FreshInv, CertTypeOK, OnePassCold
  <2>3. WriteIsDue' /\ (PatchPending => PatchPending')
    BY <2>1, CertTypes DEF FreshInv, WriteIsDue, PatchPending
  <2> QED BY <2>2, <2>3 DEF FreshInv
<1>2. CASE \E r \in Replica : Propagates(r) \/ Reloads(r)
  <2>1. PICK r \in Replica : Propagates(r) \/ Reloads(r)
    BY <1>2
  <2>2. /\ UNCHANGED <<secret, due, bundle, issued, proc, pass, leader, rollout, events>>
        /\ mount' \in [Replica -> Nat] /\ served' \in [Replica -> Nat]
    BY <2>1, CertTypes DEF Propagates, Reloads, FreshInv, CertTypeOK
  <2>3. secret.version = 0 => mount' = mount
    BY <2>1, ZenonT(60) DEF Propagates, Reloads, FreshInv, OnePassCold
  <2>4. CertTypeOK' /\ OnePassCold'
    BY <2>2, <2>3 DEF FreshInv, CertTypeOK, OnePassCold
  <2>5. WriteIsDue' /\ (PatchPending => PatchPending')
    BY <2>2, ZenonT(60) DEF FreshInv, WriteIsDue, PatchPending, NeedIssue
  <2> QED BY <2>4, <2>5 DEF FreshInv
<1> QED BY <1>1, <1>2

\* Every step of a replica, the API server and the kubelet keeps FreshInv.
LEMMA CertStep ==
  ASSUME GetReliable, FreshInv, [CertNext]_certVars
  PROVE  FreshInv' /\ (PatchReliable /\ PatchPending => PatchPending')
<1>1. CASE CertNext
  BY <1>1, StartStep, LeaderStep, GetStep, WriteStep, PatchStep, RollStep, EndStep, AroundStep
     DEF CertNext
<1>2. CASE UNCHANGED certVars
  BY <1>2 DEF certVars, FreshInv, CertTypeOK, OnePassCold, WriteIsDue, PatchPending, NeedIssue
<1> QED BY <1>1, <1>2

\* Only a write that ensure may make changes the Secret.
LEMMA SecretChangeWasDue ==
  ASSUME FreshInv, [CertNext]_certVars, secret' # secret
  PROVE  NeedIssue
<1>1. PICK r \in Replica : WriteSecret(r)
  BY ZenonT(60) DEF CertNext, certVars, Start, Elected, Tick, GetSecret, NewPair, PatchBundle, RollDeployment,
     RequestFails, Dies, Replaced, Ends, Propagates, Reloads, Ages
<1>2. pass[r].step = "write" /\ (UpdateOK(r) \/ CreateOK(r))
  BY <1>1 DEF WriteSecret
<1> QED BY <1>2, WriteWasDue

\* If Get does not fail and the first start-ups take turns, no pass of any
\* replica replaces a certificate pair that is in order: the version carried
\* into Update makes a stale pass fail.  Crashes, failed writes, failed patches
\* and failed rolls, at any point and in any number, do not matter.
THEOREM FreshSecretNeverReplaced ==
  ASSUME GetReliable
  PROVE  CertSpec => FreshSecretKept
<1>1. CertInit => FreshInv
  BY CertInitOK
<1>2. FreshInv /\ [CertNext]_certVars => FreshInv'
  BY CertStep
<1>3. FreshInv /\ [CertNext]_certVars => [secret' # secret => NeedIssue]_certVars
  BY SecretChangeWasDue
<1> QED BY <1>1, <1>2, <1>3, PTL DEF CertSpec, FreshSecretKept

\* If moreover a pass that stored its pair lives to patch the caBundle, then
\* between passes the API server trusts the CA that signed the stored leaf.
THEOREM BundleAlwaysTrusts ==
  ASSUME PatchReliable
  PROVE  CertSpec => []BundleTrustsSecret
<1>1. CertInit => FreshInv /\ PatchPending
  BY CertInitOK
<1>2. FreshInv /\ PatchPending /\ [CertNext]_certVars => (FreshInv /\ PatchPending)'
  BY CertStep DEF PatchReliable
<1>3. FreshInv /\ PatchPending => BundleTrustsSecret
  BY CertTypes DEF FreshInv, PatchPending, BundleTrustsSecret, Quiet
<1> QED BY <1>1, <1>2, <1>3, PTL DEF CertSpec

\* If Get does not fail and the first start-ups take turns, the rotation keeps
\* its types, and only a serving replica holds the lease (leaderOnly).
THEOREM CertTypeCorrect ==
  ASSUME GetReliable
  PROVE  CertSpec => []CertTypeOK
<1>1. CertInit => FreshInv
  BY CertInitOK
<1>2. FreshInv /\ [CertNext]_certVars => FreshInv'
  BY CertStep
<1>3. FreshInv => CertTypeOK
  BY DEF FreshInv
<1> QED BY <1>1, <1>2, <1>3, PTL DEF CertSpec
=============================================================================
