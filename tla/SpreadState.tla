---------------------------- MODULE SpreadState ----------------------------
(***************************************************************************)
(* The state machine of internal/spread/state.go: an immutable count       *)
(* snapshot behind an atomic pointer, and the reservations that overlay    *)
(* it.  Every operation below is one critical section of spreadState.mu,   *)
(* so each is one atomic step, whoever calls it.                           *)
(*                                                                         *)
(* A Go map is a total function whose value is None (or 0, for a counter)  *)
(* where the map has no entry: no reader can tell the two apart.           *)
(***************************************************************************)
EXTENDS Integers, FiniteSets

CONSTANTS
  Pod,              \* pod UIDs
  Node,             \* node names
  QuotaKey,         \* service quota keys (maxPodsPerNode dimension)
  SchedKey,         \* service scheduling keys (maxSkew dimension)
  NoNode, NoKey,    \* the empty string, as a node name and as a key
  None,             \* no entry in a map
  MaxPodsPerNode,   \* QuotaKey -> the policy's cap
  MaxSkew           \* QuotaKey -> the policy's skew

NodeName == Node \cup {NoNode}
AnyQuotaKey == QuotaKey \cup {NoKey}
AnySchedKey == SchedKey \cup {NoKey}

\* The footprint of a pod in a snapshot.
podRef == [quota : AnyQuotaKey, sched : AnySchedKey, node : NodeName]

\* old: the reservation has outlived the TTL, counted from its Since field.
reservation == [quota : AnyQuotaKey, sched : AnySchedKey, node : NodeName,
                phase : {"Reserved", "BoundObs"}, old : BOOLEAN]

ASSUME PodsAreFinite == IsFiniteSet(Pod)
ASSUME NoneIsNoEntry == None \notin Pod /\ None \notin podRef /\ None \notin reservation
ASSUME EmptyNames == NoNode \notin Node /\ NoKey \notin QuotaKey /\ NoKey \notin SchedKey
\* The admission webhook and the CRD schema reject policies below 1.
ASSUME PolicyValues == /\ MaxPodsPerNode \in [QuotaKey -> Nat \ {0}]
                       /\ MaxSkew \in [QuotaKey -> Nat \ {0}]

VARIABLES
  snap,   \* the snapshot the atomic pointer holds
  resv    \* UID -> reservation

stateVars == <<snap, resv>>

snapshot == [pods       : [Pod -> podRef \cup {None}],
             nodeQuota  : [NodeName \X AnyQuotaKey -> Nat],
             nodeDomain : [NodeName \X AnySchedKey -> Nat]]

-----------------------------------------------------------------------------
(* Reading the state.                                                      *)

\* The entries of a UID-indexed map that sit on node n under a key.
OnQuota(m, n, q) == {u \in Pod : m[u] # None /\ m[u].node = n /\ m[u].quota = q}
OnSched(m, n, k) == {u \in Pod : m[u] # None /\ m[u].node = n /\ m[u].sched = k}

\* reserveGuard.EffCount: snapshot counter plus the overlay, both read under mu.
EffQuota(n, q) == snap.nodeQuota[<<n, q>>] + Cardinality(OnQuota(resv, n, q))
EffDomain(n, k) == snap.nodeDomain[<<n, k>>] + Cardinality(OnSched(resv, n, k))

-----------------------------------------------------------------------------
(* Maintaining the snapshot.                                               *)

incMap(m, outer, inner) == [m EXCEPT ![<<outer, inner>>] = @ + 1]

decMap(m, outer, inner) ==
  [m EXCEPT ![<<outer, inner>>] = IF @ <= 1 THEN 0 ELSE @ - 1]

unapplyCount(s, uid) ==
  LET old == s.pods[uid] IN
  IF old = None THEN s
  ELSE [pods       |-> [s.pods EXCEPT ![uid] = None],
        nodeQuota  |-> decMap(s.nodeQuota, old.node, old.quota),
        nodeDomain |-> decMap(s.nodeDomain, old.node, old.sched)]

\* Mutant: an update of a counted pod is not preceded by unapplyCount.
applyCountTwice(s, uid, ref) ==
  [pods       |-> [s.pods EXCEPT ![uid] = ref],
   nodeQuota  |-> incMap(s.nodeQuota, ref.node, ref.quota),
   nodeDomain |-> incMap(s.nodeDomain, ref.node, ref.sched)]
applyCount(s, uid, ref) ==
  LET t == unapplyCount(s, uid) IN
  [pods       |-> [t.pods EXCEPT ![uid] = ref],
   nodeQuota  |-> incMap(t.nodeQuota, ref.node, ref.quota),
   nodeDomain |-> incMap(t.nodeDomain, ref.node, ref.sched)]

\* The snapshot whose counters were built by counting each entry of m once.
SnapshotOf(m) ==
  [pods       |-> m,
   nodeQuota  |-> [x \in NodeName \X AnyQuotaKey |-> Cardinality(OnQuota(m, x[1], x[2]))],
   nodeDomain |-> [x \in NodeName \X AnySchedKey |-> Cardinality(OnSched(m, x[1], x[2]))]]

\* newSpreadState
emptySnapshot == [pods       |-> [u \in Pod |-> None],
                  nodeQuota  |-> [x \in NodeName \X AnyQuotaKey |-> 0],
                  nodeDomain |-> [x \in NodeName \X AnySchedKey |-> 0]]
noReservations == [u \in Pod |-> None]

upsertCount(uid, ref) == snap' = applyCount(snap, uid, ref) /\ UNCHANGED resv

removeCount(uid) == snap' = unapplyCount(snap, uid) /\ UNCHANGED resv

rebuild(pods) == snap' = SnapshotOf(pods) /\ UNCHANGED resv

-----------------------------------------------------------------------------
(* Reservations.                                                           *)

\* Mutants of Admit: the overlay left out, an off-by-one, the skew left out.
AdmitIgnoresOverlay(ref, domain) ==
  snap.nodeQuota[<<ref.node, ref.quota>>] + 1 <= MaxPodsPerNode[ref.quota]
AdmitOffByOne(ref, domain) == EffQuota(ref.node, ref.quota) <= MaxPodsPerNode[ref.quota]
AdmitCapOnly(ref, domain) == EffQuota(ref.node, ref.quota) + 1 <= MaxPodsPerNode[ref.quota]

\* Reserve's admission callback: cap, then skew against the minimum over the
\* domain ("count + 1 - min <= maxSkew" is "for every node of the domain").
Admit(ref, domain) ==
  /\ EffQuota(ref.node, ref.quota) + 1 <= MaxPodsPerNode[ref.quota]
  /\ \A m \in domain : EffDomain(ref.node, ref.sched) + 1 - EffDomain(m, ref.sched)
                          <= MaxSkew[ref.quota]

\* TryReserveChecked succeeds; it is a no-op when this is disabled.
CanReserve(uid, ref, domain) == resv[uid] = None /\ Admit(ref, domain)

TryReserveChecked(uid, ref, domain) ==
  /\ CanReserve(uid, ref, domain)
  /\ resv' = [resv EXCEPT ![uid] = [quota |-> ref.quota, sched |-> ref.sched,
                                    node |-> ref.node, phase |-> "Reserved",
                                    old |-> FALSE]]
  /\ UNCHANGED snap

Unreserve(uid) ==
  /\ resv' = IF resv[uid] # None /\ resv[uid].phase = "Reserved"
             THEN [resv EXCEPT ![uid] = None] ELSE resv
  /\ UNCHANGED snap

\* Mutant: a phase the state machine does not know.
MarkBoundUnknownPhase(uid) ==
  /\ resv' = IF resv[uid] # None THEN [resv EXCEPT ![uid].phase = "Bound"] ELSE resv
  /\ UNCHANGED snap
MarkBound(uid) ==
  /\ resv' = IF resv[uid] # None THEN [resv EXCEPT ![uid].phase = "BoundObs"] ELSE resv
  /\ UNCHANGED snap

\* Mutant: released although the snapshot does not count the pod yet.
releaseAlways(uid) == resv' = [resv EXCEPT ![uid] = None] /\ UNCHANGED snap
releaseIfObserved(uid) ==
  /\ resv' = IF /\ resv[uid] # None
                /\ snap.pods[uid] # None
                /\ snap.pods[uid].node = resv[uid].node
             THEN [resv EXCEPT ![uid] = None] ELSE resv
  /\ UNCHANGED snap

\* releaseUnverified, and the delete that ends OnPodDelete: both drop the
\* reservation of the UID whatever its node, phase and age.
releaseUnverified(uid) == resv' = [resv EXCEPT ![uid] = None] /\ UNCHANGED snap

\* Time passes: the reservation reaches its TTL.
Expire(uid) ==
  /\ resv[uid] # None /\ ~resv[uid].old
  /\ resv' = [resv EXCEPT ![uid].old = TRUE]
  /\ UNCHANGED snap
=============================================================================
