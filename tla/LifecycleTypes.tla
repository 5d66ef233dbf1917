--------------------------- MODULE LifecycleTypes ---------------------------
(***************************************************************************)
(* Type correctness of Lifecycle, the exactness of its counters and the    *)
(* ownership of reservations, for the code as it runs: no timing           *)
(* assumption is used.  First, what the critical sections of               *)
(* internal/spread/state.go do to a snapshot: they keep its type, touch    *)
(* one pod, and leave its counters equal to a recount.                     *)
(***************************************************************************)
EXTENDS LifecycleInformer, FiniteSetTheorems

\* Backends of a leaf that names none, with their time in seconds.
USE SMTT(40), ZenonT(60)

\* Adding an entry to a set of pods, or removing one, moves its size by one;
\* the counters of incMap and decMap follow such sets.
LEMMA CountChange ==
  ASSUME NEW S \in SUBSET Pod, NEW u \in Pod
  PROVE  /\ Cardinality(S) \in Nat
         /\ u \in S => Cardinality(S) >= 1 /\ Cardinality(S \ {u}) = Cardinality(S) - 1
         /\ u \notin S => Cardinality(S \cup {u}) = Cardinality(S) + 1 /\ S \ {u} = S
<1>1. IsFiniteSet(S)
  BY PodsAreFinite, FS_Subset
<1>2. Cardinality(S) \in Nat
  BY <1>1, FS_CardinalityType
<1>3. ASSUME u \in S PROVE Cardinality(S) >= 1 /\ Cardinality(S \ {u}) = Cardinality(S) - 1
  <2>1. Cardinality(S \ {u}) = Cardinality(S) - 1
    BY <1>1, <1>3, FS_RemoveElement
  <2>2. Cardinality(S \ {u}) \in Nat
    BY <1>1, FS_Subset, FS_CardinalityType, S \ {u} \subseteq S
  <2> QED BY <1>2, <2>1, <2>2
<1>4. ASSUME u \notin S PROVE Cardinality(S \cup {u}) = Cardinality(S) + 1 /\ S \ {u} = S
  BY <1>1, <1>4, FS_AddElement
<1> QED BY <1>2, <1>3, <1>4

\* Both maps of pods the code counts over, by either key, are sets of pods.
LEMMA OnType ==
  ASSUME NEW m, NEW n, NEW k
  PROVE  OnQuota(m, n, k) \in SUBSET Pod /\ OnSched(m, n, k) \in SUBSET Pod
BY DEF OnQuota, OnSched

\* A recount is a well-formed snapshot: rebuild stores one.
LEMMA SnapshotOfType ==
  ASSUME NEW m \in [Pod -> podRef \cup {None}]
  PROVE  SnapshotOf(m) \in snapshot /\ SnapshotOf(m).pods = m
<1>1. \A n, k : Cardinality(OnQuota(m, n, k)) \in Nat /\ Cardinality(OnSched(m, n, k)) \in Nat
  BY OnType, PodsAreFinite, FS_Subset, FS_CardinalityType
<1> QED BY <1>1 DEF SnapshotOf, snapshot

\* The empty state machine is the recount of no pods.
LEMMA EmptyIsExact ==
  emptySnapshot \in snapshot /\ emptySnapshot = SnapshotOf(emptySnapshot.pods)
<1> DEFINE m == [u \in Pod |-> None]
<1>1. \A n, k : OnQuota(m, n, k) = {} /\ OnSched(m, n, k) = {}
  BY DEF OnQuota, OnSched
<1>2. emptySnapshot = SnapshotOf(m)
  BY <1>1, FS_EmptySet, ZenonT(60) DEF emptySnapshot, SnapshotOf
<1>3. emptySnapshot.pods = m
  BY DEF emptySnapshot
<1>4. emptySnapshot \in snapshot
  BY <1>2, SnapshotOfType
<1> QED BY <1>2, <1>3, <1>4

\* unapplyCount on exact counters gives the recount without the pod: decMap's
\* floor at zero is never what keeps a counter from going negative.
LEMMA UnapplyIsRecount ==
  ASSUME NEW s \in snapshot, s = SnapshotOf(s.pods), NEW u \in Pod
  PROVE  unapplyCount(s, u) = SnapshotOf([s.pods EXCEPT ![u] = None])
<1> DEFINE m == s.pods
           t == [m EXCEPT ![u] = None]
<1>0. m \in [Pod -> podRef \cup {None}]
  BY DEF snapshot
<1>1. CASE m[u] = None
  <2>1. t = m
    BY <1>0, <1>1
  <2> QED BY <1>1, <2>1 DEF unapplyCount
<1>2. CASE m[u] # None
  <2> DEFINE old == m[u]
  <2>0. old \in podRef
    BY <1>0, <1>2
  <2>1. ASSUME NEW x \in NodeName \X AnyQuotaKey
        PROVE  decMap(s.nodeQuota, old.node, old.quota)[x] = Cardinality(OnQuota(t, x[1], x[2]))
    <3> DEFINE S == OnQuota(m, x[1], x[2])
    <3>0. s.nodeQuota = [y \in NodeName \X AnyQuotaKey |-> Cardinality(OnQuota(m, y[1], y[2]))]
      BY DEF SnapshotOf
    <3>1. s.nodeQuota[x] = Cardinality(S)
      BY <3>0
    <3>2. OnQuota(t, x[1], x[2]) = S \ {u}
      BY <1>0, <1>2 DEF OnQuota
    <3>3. u \in S <=> x = <<old.node, old.quota>>
      BY <1>2, <2>0 DEF OnQuota, podRef
    <3>4. S \in SUBSET Pod
      BY OnType
    <3>5. CASE u \in S
      <4>1. decMap(s.nodeQuota, old.node, old.quota)[x]
              = IF Cardinality(S) <= 1 THEN 0 ELSE Cardinality(S) - 1
        BY <3>0, <3>1, <3>3, <3>5 DEF decMap
      <4> QED BY <4>1, <3>2, <3>4, <3>5, CountChange
    <3>6. CASE u \notin S
      <4>1. decMap(s.nodeQuota, old.node, old.quota)[x] = Cardinality(S)
        BY <3>0, <3>1, <3>3, <3>6 DEF decMap
      <4> QED BY <4>1, <3>2, <3>4, <3>6, CountChange, ZenonT(60)
    <3> QED BY <3>5, <3>6
  <2>2. ASSUME NEW x \in NodeName \X AnySchedKey
        PROVE  decMap(s.nodeDomain, old.node, old.sched)[x] = Cardinality(OnSched(t, x[1], x[2]))
    <3> DEFINE S == OnSched(m, x[1], x[2])
    <3>0. s.nodeDomain = [y \in NodeName \X AnySchedKey |-> Cardinality(OnSched(m, y[1], y[2]))]
      BY DEF SnapshotOf
    <3>1. s.nodeDomain[x] = Cardinality(S)
      BY <3>0
    <3>2. OnSched(t, x[1], x[2]) = S \ {u}
      BY <1>0, <1>2 DEF OnSched
    <3>3. u \in S <=> x = <<old.node, old.sched>>
      BY <1>2, <2>0 DEF OnSched, podRef
    <3>4. S \in SUBSET Pod
      BY OnType
    <3>5. CASE u \in S
      <4>1. decMap(s.nodeDomain, old.node, old.sched)[x]
              = IF Cardinality(S) <= 1 THEN 0 ELSE Cardinality(S) - 1
        BY <3>0, <3>1, <3>3, <3>5 DEF decMap
      <4> QED BY <4>1, <3>2, <3>4, <3>5, CountChange
    <3>6. CASE u \notin S
      <4>1. decMap(s.nodeDomain, old.node, old.sched)[x] = Cardinality(S)
        BY <3>0, <3>1, <3>3, <3>6 DEF decMap
      <4> QED BY <4>1, <3>2, <3>4, <3>6, CountChange, ZenonT(60)
    <3> QED BY <3>5, <3>6
  <2>3. decMap(s.nodeQuota, old.node, old.quota) = SnapshotOf(t).nodeQuota
    <3>1. s.nodeQuota \in [NodeName \X AnyQuotaKey -> Nat]
      BY DEF snapshot
    <3>2. SnapshotOf(t).nodeQuota = [x \in NodeName \X AnyQuotaKey |-> Cardinality(OnQuota(t, x[1], x[2]))]
      BY DEF SnapshotOf
    <3> HIDE DEF t, old
    <3> QED BY <2>1, <3>1, <3>2 DEF decMap
  <2>4. decMap(s.nodeDomain, old.node, old.sched) = SnapshotOf(t).nodeDomain
    <3>1. s.nodeDomain \in [NodeName \X AnySchedKey -> Nat]
      BY DEF snapshot
    <3>2. SnapshotOf(t).nodeDomain = [x \in NodeName \X AnySchedKey |-> Cardinality(OnSched(t, x[1], x[2]))]
      BY DEF SnapshotOf
    <3> HIDE DEF t, old
    <3> QED BY <2>2, <3>1, <3>2 DEF decMap
  <2>5. unapplyCount(s, u) = [pods |-> t, nodeQuota |-> decMap(s.nodeQuota, old.node, old.quota),
                              nodeDomain |-> decMap(s.nodeDomain, old.node, old.sched)]
    BY <1>2 DEF unapplyCount
  <2> QED BY <2>3, <2>4, <2>5 DEF SnapshotOf
<1> QED BY <1>1, <1>2

\* applyCount on exact counters gives the recount with the pod at its new ref,
\* whether or not the snapshot already had the pod.
LEMMA ApplyIsRecount ==
  ASSUME NEW s \in snapshot, s = SnapshotOf(s.pods), NEW u \in Pod, NEW ref \in podRef
  PROVE  applyCount(s, u, ref) = SnapshotOf([s.pods EXCEPT ![u] = ref])
<1> DEFINE m == [s.pods EXCEPT ![u] = None]
           t == [s.pods EXCEPT ![u] = ref]
           c == unapplyCount(s, u)
<1>1. m \in [Pod -> podRef \cup {None}] /\ m[u] = None /\ t = [m EXCEPT ![u] = ref]
  BY DEF snapshot
<1>2. c = SnapshotOf(m)
  BY UnapplyIsRecount
<1>3. ref # None
  BY NoneIsNoEntry
<1>4. ASSUME NEW x \in NodeName \X AnyQuotaKey
      PROVE  incMap(c.nodeQuota, ref.node, ref.quota)[x] = Cardinality(OnQuota(t, x[1], x[2]))
  <2> DEFINE S == OnQuota(m, x[1], x[2])
  <2>1. c.nodeQuota = [y \in NodeName \X AnyQuotaKey |-> Cardinality(OnQuota(m, y[1], y[2]))]
    BY <1>2 DEF SnapshotOf
  <2>2. S \in SUBSET Pod /\ u \notin S
    BY <1>1 DEF OnQuota
  <2>3. OnQuota(t, x[1], x[2]) = IF x = <<ref.node, ref.quota>> THEN S \cup {u} ELSE S
    BY <1>1, <1>3 DEF OnQuota, podRef
  <2>4. incMap(c.nodeQuota, ref.node, ref.quota)[x]
          = IF x = <<ref.node, ref.quota>> THEN Cardinality(S) + 1 ELSE Cardinality(S)
    BY <2>1 DEF incMap
  <2> QED BY <2>2, <2>3, <2>4, CountChange
<1>5. ASSUME NEW x \in NodeName \X AnySchedKey
      PROVE  incMap(c.nodeDomain, ref.node, ref.sched)[x] = Cardinality(OnSched(t, x[1], x[2]))
  <2> DEFINE S == OnSched(m, x[1], x[2])
  <2>1. c.nodeDomain = [y \in NodeName \X AnySchedKey |-> Cardinality(OnSched(m, y[1], y[2]))]
    BY <1>2 DEF SnapshotOf
  <2>2. S \in SUBSET Pod /\ u \notin S
    BY <1>1 DEF OnSched
  <2>3. OnSched(t, x[1], x[2]) = IF x = <<ref.node, ref.sched>> THEN S \cup {u} ELSE S
    BY <1>1, <1>3 DEF OnSched, podRef
  <2>4. incMap(c.nodeDomain, ref.node, ref.sched)[x]
          = IF x = <<ref.node, ref.sched>> THEN Cardinality(S) + 1 ELSE Cardinality(S)
    BY <2>1 DEF incMap
  <2> QED BY <2>2, <2>3, <2>4, CountChange
<1>6. incMap(c.nodeQuota, ref.node, ref.quota) = SnapshotOf(t).nodeQuota
  <2>1. c.nodeQuota \in [NodeName \X AnyQuotaKey -> Nat]
    BY <1>1, <1>2, SnapshotOfType DEF snapshot
  <2>2. SnapshotOf(t).nodeQuota = [x \in NodeName \X AnyQuotaKey |-> Cardinality(OnQuota(t, x[1], x[2]))]
    BY DEF SnapshotOf
  <2> HIDE DEF c, t
  <2> QED BY <2>1, <2>2, <1>4 DEF incMap
<1>7. incMap(c.nodeDomain, ref.node, ref.sched) = SnapshotOf(t).nodeDomain
  <2>1. c.nodeDomain \in [NodeName \X AnySchedKey -> Nat]
    BY <1>1, <1>2, SnapshotOfType DEF snapshot
  <2>2. SnapshotOf(t).nodeDomain = [x \in NodeName \X AnySchedKey |-> Cardinality(OnSched(t, x[1], x[2]))]
    BY DEF SnapshotOf
  <2> HIDE DEF c, t
  <2> QED BY <2>1, <2>2, <1>5 DEF incMap
<1>8. [c.pods EXCEPT ![u] = ref] = t
  BY <1>1, <1>2 DEF SnapshotOf
<1>9. applyCount(s, u, ref) = [pods |-> [c.pods EXCEPT ![u] = ref],
                               nodeQuota |-> incMap(c.nodeQuota, ref.node, ref.quota),
                               nodeDomain |-> incMap(c.nodeDomain, ref.node, ref.sched)]
  BY Zenon DEF applyCount
<1>10. SnapshotOf(t) = [pods |-> t, nodeQuota |-> SnapshotOf(t).nodeQuota,
                        nodeDomain |-> SnapshotOf(t).nodeDomain]
  BY SMT DEF SnapshotOf
<1> HIDE DEF c
<1> QED BY <1>6, <1>7, <1>8, <1>9, <1>10, Zenon

USE DEF Absent, Unbound, Bound, Finished, Deleted, Revision

-----------------------------------------------------------------------------
(* The effect of each critical section on the snapshot.                    *)

\* upsertCount: one entry of the snapshot is replaced, the rest is a recount.
LEMMA UpsertEffect ==
  ASSUME TypeOK, CountersExact, NEW u \in Pod, NEW ref \in podRef, upsertCount(u, ref)
  PROVE  /\ snap' \in snapshot /\ CountersExact' /\ resv' = resv
         /\ snap'.pods = [snap.pods EXCEPT ![u] = ref]
<1> DEFINE m == [snap.pods EXCEPT ![u] = ref]
<1>1. m \in [Pod -> podRef \cup {None}]
  BY DEF TypeOK, snapshot
<1>2. snap' = SnapshotOf(m)
  BY ApplyIsRecount DEF upsertCount, TypeOK, CountersExact
<1> QED BY <1>1, <1>2, SnapshotOfType DEF upsertCount, CountersExact

\* removeCount: one entry leaves the snapshot, the rest is a recount.
LEMMA RemoveEffect ==
  ASSUME TypeOK, CountersExact, NEW u \in Pod, removeCount(u)
  PROVE  /\ snap' \in snapshot /\ CountersExact' /\ resv' = resv
         /\ snap'.pods = [snap.pods EXCEPT ![u] = None]
<1> DEFINE m == [snap.pods EXCEPT ![u] = None]
<1>1. m \in [Pod -> podRef \cup {None}]
  BY DEF TypeOK, snapshot
<1>2. snap' = SnapshotOf(m)
  BY UnapplyIsRecount DEF removeCount, TypeOK, CountersExact
<1> QED BY <1>1, <1>2, SnapshotOfType DEF removeCount, CountersExact

\* rebuild: the snapshot is the recount of the list.
LEMMA RebuildEffect ==
  ASSUME TypeOK, NEW counts, rebuild(RefsOf(counts))
  PROVE  /\ snap' \in snapshot /\ CountersExact' /\ resv' = resv
         /\ snap'.pods = RefsOf(counts)
BY RefTypes, SnapshotOfType DEF rebuild, CountersExact

\* The first critical section of a callback, whichever branch it takes.
LEMMA EventEffect ==
  ASSUME TypeOK, CountersExact, NEW u \in Pod, NEW r, OnPodEvent(u, r)
  PROVE  /\ snap' \in snapshot /\ CountersExact' /\ resv' = resv
         /\ snap'.pods = [snap.pods EXCEPT ![u] = IF r = Bound THEN eventRef(u) ELSE None]
<1>1. CASE r = Bound
  BY <1>1, RefTypes, UpsertEffect DEF OnPodEvent, countablePod
<1>2. CASE r # Bound
  BY <1>2, RemoveEffect DEF OnPodEvent, countablePod
<1> QED BY <1>1, <1>2

-----------------------------------------------------------------------------
(* Type correctness and exact counters.                                    *)

\* A process starts with an empty, exact snapshot.
LEMMA InitType == Init => TypeOK /\ CountersExact
<1> SUFFICES ASSUME Init PROVE TypeOK /\ CountersExact
  OBVIOUS
<1>1. snap \in snapshot /\ CountersExact
  BY EmptyIsExact DEF Init, CountersExact
<1>2. resv \in [Pod -> reservation \cup {None}]
  BY DEF Init, noReservations
<1>3. JanitorIdle \in [pc : {"idle", "scanned", "loop", "release", "rebuild", "confirm"},
                       expired : SUBSET Pod, counts : SUBSET Pod, cur : Pod \cup {None}]
  BY DEF JanitorIdle
<1>4. handler \in [pod : Pod \cup {None}, rev : Revision]
  BY DEF Init, NoCallback
<1>5. reconciler \in [pc : {"idle", "listed"}, counts : SUBSET Pod]
  BY DEF Init, ReconcilerIdle
<1>6. api \in [Pod -> Revision] /\ lister \in [Pod -> Revision]
  BY DEF Init
<1>7. synced \in BOOLEAN /\ pend \in [Pod -> SUBSET Revision] /\ initial \in SUBSET Pod
  BY ZenonT(60) DEF Init
<1>8. /\ boundTo \in [Pod -> NodeName]
      /\ cycle \in [Pod -> {"queued", "scheduling", "binding", "landed", "bound"}]
      /\ target \in [Pod -> NodeName] /\ restarts \in Nat
  BY DEF Init, NodeName
<1> QED BY <1>1, <1>2, <1>3, <1>4, <1>5, <1>6, <1>7, <1>8 DEF Init, TypeOK

\* The steps that leave the snapshot alone keep the types.
LEMMA TypeStep ==
  ASSUME TypeOK, CountersExact, [Next]_vars
  PROVE  TypeOK' /\ CountersExact'
<1> USE DEF stateVars, clusterVars, informerVars, cycleVars, loopVars
<1>1. ASSUME NEW u \in Pod, Cluster(u) PROVE TypeOK' /\ CountersExact'
  BY <1>1
     DEF TypeOK, CountersExact, Cluster, CreatePod, FinishPod, DeletePod, ForeignBind, NodeName
<1>2. CASE InformerSync
  BY <1>2 DEF TypeOK, CountersExact, InformerSync
<1>3. ASSUME NEW u \in Pod, NEW r \in Revision, WatchEvent(u, r) PROVE TypeOK' /\ CountersExact'
  BY <1>3 DEF TypeOK, CountersExact, WatchEvent
<1>4. ASSUME NEW u \in Pod, StatusUpdate(u) PROVE TypeOK' /\ CountersExact'
  BY <1>4 DEF TypeOK, CountersExact, StatusUpdate
<1>5. ASSUME NEW u \in Pod, NEW r \in Revision, OnPodEvent(u, r) PROVE TypeOK' /\ CountersExact'
  <2>1. snap' \in snapshot /\ CountersExact' /\ resv' = resv
    BY <1>5, EventEffect, ZenonT(60)
  <2> QED BY <1>5, <2>1 DEF TypeOK, OnPodEvent
<1>6. CASE OnPodEventEnd
  BY <1>6
     DEF TypeOK, CountersExact, OnPodEventEnd, releaseUnverified, releaseIfObserved, NoCallback
<1>7. ASSUME NEW u \in Pod, PreFilter(u) \/ Unschedulable(u) PROVE TypeOK' /\ CountersExact'
  BY <1>7 DEF TypeOK, CountersExact, PreFilter, Unschedulable
<1>8. ASSUME NEW u \in Pod, NEW domain \in Domains, NEW n \in Node, Reserve(u, n, domain)
      PROVE  TypeOK' /\ CountersExact'
  <2>1. n \in Node
    BY LifecycleConstants
  <2>2. resv' \in [Pod -> reservation \cup {None}] /\ snap' = snap
    <3> DEFINE new == [quota |-> quotaOf[u], sched |-> schedOf[u], node |-> n,
                       phase |-> "Reserved", old |-> FALSE]
    <3>1. new \in reservation
      BY <2>1, LifecycleConstants DEF reservation, NodeName, AnyQuotaKey, AnySchedKey
    <3>2. resv' = [resv EXCEPT ![u] = new] \/ resv' = [resv EXCEPT ![u] = None] \/ resv' = resv
      BY <1>8 DEF Reserve, TryReserveChecked, Unreserve, PodRefFor
    <3>3. snap' = snap
      BY <1>8 DEF Reserve, TryReserveChecked, Unreserve
    <3> HIDE DEF new
    <3> QED BY <3>1, <3>2, <3>3 DEF TypeOK
  <2> QED BY <1>8, <2>1, <2>2 DEF TypeOK, CountersExact, Reserve, NodeName
<1>9. ASSUME NEW u \in Pod, BindLands(u) PROVE TypeOK' /\ CountersExact'
  BY <1>9 DEF TypeOK, CountersExact, BindLands
<1>10. ASSUME NEW u \in Pod, PostBind(u) PROVE TypeOK' /\ CountersExact'
  <2>1. resv' \in [Pod -> reservation \cup {None}] /\ snap' = snap
    BY <1>10, NoneIsNoEntry DEF TypeOK, PostBind, MarkBound, reservation
  <2> QED BY <1>10, <2>1, ZenonT(60) DEF TypeOK, CountersExact, PostBind, NodeName
<1>11. ASSUME NEW u \in Pod, BindFails(u) PROVE TypeOK' /\ CountersExact'
  BY <1>11 DEF TypeOK, CountersExact, BindFails, Unreserve, NodeName
<1>12. ASSUME NEW u \in Pod, TTLElapses(u) PROVE TypeOK' /\ CountersExact'
  <2>1. resv' \in [Pod -> reservation \cup {None}] /\ snap' = snap
    <3>1. resv[u] \in reservation
      BY <1>12 DEF TypeOK, TTLElapses, Expire
    <3>2. [resv[u] EXCEPT !.old = TRUE] \in reservation
      BY <3>1, ZenonT(60) DEF reservation
    <3>3. resv' = [resv EXCEPT ![u] = [resv[u] EXCEPT !.old = TRUE]] /\ snap' = snap
      BY <1>12 DEF TypeOK, TTLElapses, Expire
    <3> QED BY <3>2, <3>3 DEF TypeOK
  <2> QED BY <1>12, <2>1 DEF TypeOK, CountersExact, TTLElapses
<1>13. CASE JanitorScan \/ JanitorList \/ JanitorListFails \/ JanitorDone
  <2>1. CASE JanitorScan
    <3>1. PICK expired \in SUBSET Pod :
            janitor' = [JanitorIdle EXCEPT !.pc = "scanned", !.expired = expired]
      BY <2>1, ZenonT(60) DEF JanitorScan
    <3>2. janitor' = [pc |-> "scanned", expired |-> expired, counts |-> {}, cur |-> None]
      BY <3>1, ZenonT(60) DEF JanitorIdle
    <3> QED BY <2>1, <3>2 DEF TypeOK, CountersExact, JanitorScan
  <2>2. CASE JanitorList
    BY <2>2, LifecycleConstants, ZenonT(60) DEF TypeOK, CountersExact, JanitorList, ListCountable
  <2>3. CASE JanitorListFails \/ JanitorDone
    BY <2>3 DEF TypeOK, CountersExact, JanitorListFails, JanitorDone, JanitorIdle
  <2> QED BY <1>13, <2>1, <2>2, <2>3
<1>14. ASSUME NEW u \in Pod, JanitorPick(u) PROVE TypeOK' /\ CountersExact'
  BY <1>14, ZenonT(60) DEF TypeOK, CountersExact, JanitorPick
<1>15. CASE JanitorRelease \/ JanitorConfirm
  BY <1>15, ZenonT(60)
     DEF TypeOK, CountersExact, JanitorRelease, JanitorConfirm, releaseUnverified,
         releaseIfObserved
<1>16. CASE JanitorRebuild
  <2>1. snap' \in snapshot /\ CountersExact' /\ resv' = resv
    BY <1>16, RebuildEffect DEF JanitorRebuild
  <2> QED BY <1>16, <2>1 DEF TypeOK, JanitorRebuild
<1>17. CASE ReconcileList
  BY <1>17, LifecycleConstants DEF TypeOK, CountersExact, ReconcileList, ListCountable
<1>18. CASE ReconcileRebuild
  <2>1. snap' \in snapshot /\ CountersExact' /\ resv' = resv
    BY <1>18, RebuildEffect DEF ReconcileRebuild
  <2> QED BY <1>18, <2>1 DEF TypeOK, ReconcileRebuild, ReconcilerIdle
<1>19. CASE Restart
  <2>1. snap' \in snapshot /\ CountersExact'
    BY <1>19, EmptyIsExact DEF Restart, CountersExact
  <2>2. resv' \in [Pod -> reservation \cup {None}]
    BY <1>19 DEF Restart, noReservations
  <2>3. JanitorIdle \in [pc : {"idle", "scanned", "loop", "release", "rebuild", "confirm"},
                         expired : SUBSET Pod, counts : SUBSET Pod, cur : Pod \cup {None}]
    BY DEF JanitorIdle
  <2>4. handler' \in [pod : Pod \cup {None}, rev : Revision]
    BY <1>19 DEF Restart, NoCallback
  <2>5. reconciler' \in [pc : {"idle", "listed"}, counts : SUBSET Pod]
    BY <1>19 DEF Restart, ReconcilerIdle
  <2>6. lister' \in [Pod -> Revision]
    BY <1>19 DEF Restart
  <2>7. synced' \in BOOLEAN /\ pend' \in [Pod -> SUBSET Revision] /\ initial' \in SUBSET Pod
    BY <1>19, ZenonT(60) DEF Restart
  <2>8. /\ cycle' \in [Pod -> {"queued", "scheduling", "binding", "landed", "bound"}]
        /\ target' \in [Pod -> NodeName] /\ restarts' \in Nat
    BY <1>19 DEF TypeOK, Restart, NodeName
  <2> QED BY <1>19, <2>1, <2>2, <2>3, <2>4, <2>5, <2>6, <2>7, <2>8 DEF TypeOK, Restart
<1>20. CASE UNCHANGED vars
  BY <1>20 DEF TypeOK, CountersExact, vars
<1> QED BY <1>1, <1>2, <1>3, <1>4, <1>5, <1>6, <1>7, <1>8, <1>9, <1>10, <1>11, <1>12, <1>13,
           <1>14, <1>15, <1>16, <1>17, <1>18, <1>19, <1>20
           DEF Next, Informer, Scheduling, Janitor

\* Every variable stays within its type for the code as it runs: in
\* particular no counter of the snapshot ever goes negative.
THEOREM TypeCorrect == Spec => []TypeOK
<1>1. TypeOK /\ CountersExact /\ [Next]_vars => TypeOK' /\ CountersExact'
  BY TypeStep
<1> QED BY InitType, <1>1, PTL DEF Spec

\* The counters Filter and Reserve read are exact for the code as it runs:
\* whatever order the callbacks, rebuilds and restarts come in, they equal a
\* recount of the pods of the snapshot.
THEOREM CountersStayExact == Spec => []CountersExact
<1>1. TypeOK /\ CountersExact /\ [Next]_vars => TypeOK' /\ CountersExact'
  BY TypeStep
<1> QED BY InitType, <1>1, PTL DEF Spec

-----------------------------------------------------------------------------
(* A reservation is its pod's own.                                         *)

\* What Begun says of a pod stays true while its cycle, target, node and the
\* gate are left alone, and the two revisions of the pod move forward together.
LEMMA BegunKept ==
  ASSUME TypeOK, TypeOK', Begun, UNCHANGED <<boundTo, cycle, target>>,
         \A v \in Pod : lister'[v] <= api'[v] /\ api[v] <= api'[v],
         Warm => Warm'
  PROVE  Begun'
<1> SUFFICES ASSUME NEW v \in Pod
            PROVE  /\ lister'[v] <= api'[v]
                   /\ cycle'[v] # "queued" => v \in Managed /\ Warm' /\ api'[v] >= Unbound
                   /\ cycle'[v] = "binding" => target'[v] \in Node
                   /\ cycle'[v] \in {"landed", "bound"} => api'[v] >= Bound
                   /\ cycle'[v] = "landed" => boundTo'[v] = target'[v]
  BY DEF Begun
<1>1. api[v] \in Revision /\ api'[v] \in Revision /\ api[v] <= api'[v]
  BY DEF TypeOK
<1>2. /\ cycle[v] # "queued" => v \in Managed /\ Warm /\ api[v] >= Unbound
      /\ cycle[v] = "binding" => target[v] \in Node
      /\ cycle[v] \in {"landed", "bound"} => api[v] >= Bound
      /\ cycle[v] = "landed" => boundTo[v] = target[v]
  BY DEF Begun
<1>3. /\ api[v] >= Unbound => api'[v] >= Unbound
      /\ api[v] >= Bound => api'[v] >= Bound
  BY <1>1
<1>4. cycle' = cycle /\ target' = target /\ boundTo' = boundTo
  OBVIOUS
<1> QED BY <1>2, <1>3, <1>4, ZenonT(60)

\* A reservation that is left alone, aged or dropped stays its pod's own.
LEMMA OwnedKept ==
  ASSUME ReservationsOwned, UNCHANGED <<boundTo, cycle, target>>,
         \A v \in Pod : \/ resv'[v] = resv[v]
                        \/ resv'[v] = None
                        \/ resv[v] # None /\ resv'[v] = [resv[v] EXCEPT !.old = TRUE],
         TypeOK
  PROVE  ReservationsOwned'
<1>1. \A v \in Pod : resv[v] # None => resv[v] \in reservation
  BY DEF TypeOK
<1> QED BY <1>1 DEF ReservationsOwned, reservation

\* The API server, and pods of other schedulers.
LEMMA ClusterOwned ==
  ASSUME OwnInv, TypeOK', NEW u \in Pod, Cluster(u)
  PROVE  OwnParts'
<1> USE DEF stateVars, clusterVars, informerVars, cycleVars, loopVars
<1>t. /\ api \in [Pod -> Revision] /\ lister \in [Pod -> Revision]
      /\ boundTo \in [Pod -> NodeName]
  BY DEF OwnInv, TypeOK
<1>1. /\ UNCHANGED <<synced, lister, initial, cycle, target, resv>>
      /\ \A v \in Pod : api[v] <= api'[v] /\ (v \in Managed => boundTo'[v] = boundTo[v])
  BY <1>t DEF Cluster, CreatePod, FinishPod, DeletePod, ForeignBind
<1>2. Begun'
  <2>1. Begun /\ (Warm => Warm') /\ api' \in [Pod -> Revision]
    BY <1>1 DEF OwnInv, OwnParts, TypeOK, Warm
  <2> SUFFICES ASSUME NEW v \in Pod
              PROVE  /\ lister'[v] <= api'[v]
                     /\ cycle'[v] # "queued" => v \in Managed /\ Warm' /\ api'[v] >= Unbound
                     /\ cycle'[v] = "binding" => target'[v] \in Node
                     /\ cycle'[v] \in {"landed", "bound"} => api'[v] >= Bound
                     /\ cycle'[v] = "landed" => boundTo'[v] = target'[v]
    BY DEF Begun
  <2>2. /\ lister[v] <= api[v]
        /\ cycle[v] # "queued" => v \in Managed /\ Warm /\ api[v] >= Unbound
        /\ cycle[v] = "binding" => target[v] \in Node
        /\ cycle[v] \in {"landed", "bound"} => api[v] >= Bound
        /\ cycle[v] = "landed" => boundTo[v] = target[v]
    BY <2>1 DEF Begun
  <2>3. api[v] \in Revision /\ api'[v] \in Revision /\ lister[v] \in Revision
    BY <1>t, <2>1
  <2>4. /\ lister'[v] <= api'[v]
        /\ api[v] >= Unbound => api'[v] >= Unbound
        /\ api[v] >= Bound => api'[v] >= Bound
    BY <1>1, <2>2, <2>3
  <2>5. /\ cycle' = cycle /\ target' = target
        /\ cycle[v] = "landed" => boundTo'[v] = boundTo[v]
    BY <1>1, <2>2
  <2> QED BY <2>1, <2>2, <2>4, <2>5, ZenonT(60)
<1>3. ReservationsOwned'
  <2> SUFFICES ASSUME NEW v \in Pod, resv[v] # None
               PROVE  v \in Managed /\ ReservationsOwned
    BY <1>1 DEF ReservationsOwned
  <2> QED BY DEF OwnInv, OwnParts, ReservationsOwned
<1> QED BY <1>2, <1>3 DEF OwnParts

\* The informer, its handler, the clock and the two loops drop reservations or
\* let them age; none of them creates or moves one.
LEMMA BackgroundOwned ==
  ASSUME OwnInv, TypeOK',
         \/ \E u \in Pod : Informer(u) \/ TTLElapses(u)
         \/ InformerSync \/ OnPodEventEnd
         \/ Janitor \/ ReconcileList \/ ReconcileRebuild \/ UNCHANGED vars
  PROVE  OwnParts'
<1> USE DEF stateVars, clusterVars, informerVars, cycleVars, loopVars
<1>t. /\ api \in [Pod -> Revision] /\ lister \in [Pod -> Revision]
      /\ resv \in [Pod -> reservation \cup {None}] /\ synced \in BOOLEAN
  BY DEF OwnInv, TypeOK
<1>k. ASSUME UNCHANGED <<api, boundTo, cycle, target>>, \A v \in Pod : lister'[v] <= api[v], Warm => Warm',
             \A v \in Pod : \/ resv'[v] = resv[v] \/ resv'[v] = None
                            \/ resv[v] # None /\ resv'[v] = [resv[v] EXCEPT !.old = TRUE]
      PROVE  OwnParts'
  <2>1. Begun'
    BY <1>k, <1>t, BegunKept DEF OwnInv, OwnParts
  <2>2. ReservationsOwned'
    BY <1>k, OwnedKept DEF OwnInv, OwnParts
  <2> QED BY <2>1, <2>2 DEF OwnParts
<1>l. \A v \in Pod : lister[v] <= api[v]
  BY DEF OwnInv, OwnParts, Begun
<1>1. ASSUME NEW u \in Pod, NEW r \in Revision, WatchEvent(u, r) PROVE OwnParts'
  BY <1>1, <1>k, <1>l, <1>t DEF WatchEvent, Warm
<1>2. ASSUME NEW u \in Pod, NEW r \in Revision, OnPodEvent(u, r) PROVE OwnParts'
  <2>1. UNCHANGED <<api, boundTo, cycle, target, lister, synced, resv>> /\ initial' = initial \ {u}
    BY <1>2 DEF OnPodEvent, upsertCount, removeCount
  <2>2. Warm => Warm'
    BY <2>1 DEF Warm
  <2> QED BY <1>k, <1>l, <2>1, <2>2
<1>3. ASSUME NEW u \in Pod, StatusUpdate(u) PROVE OwnParts'
  BY <1>3, <1>k, <1>l DEF StatusUpdate, Warm
<1>4. ASSUME NEW u \in Pod, TTLElapses(u) PROVE OwnParts'
  BY <1>4, <1>k, <1>l, <1>t DEF TTLElapses, Expire, Warm
<1>5. ASSUME InformerSync PROVE OwnParts'
  <2>1. UNCHANGED <<api, boundTo, cycle, target, resv>> /\ lister' = api /\ ~Warm
    BY <1>5 DEF InformerSync, Warm
  <2> QED BY <1>k, <1>t, <2>1
<1>6. ASSUME OnPodEventEnd PROVE OwnParts'
  <2>1. UNCHANGED <<api, boundTo, cycle, target, lister, synced, initial>>
    BY <1>6 DEF OnPodEventEnd
  <2>2. \A v \in Pod : resv'[v] = resv[v] \/ resv'[v] = None
    BY <1>6, <1>t DEF OnPodEventEnd, releaseUnverified, releaseIfObserved
  <2>3. Warm => Warm'
    BY <2>1 DEF Warm
  <2> QED BY <1>k, <1>l, <2>1, <2>2, <2>3
<1>7. ASSUME Janitor \/ ReconcileList \/ ReconcileRebuild \/ UNCHANGED vars PROVE OwnParts'
  <2>1. UNCHANGED <<api, boundTo, cycle, target, lister, synced, initial>>
    BY <1>7, ZenonT(60)
       DEF Janitor, JanitorScan, JanitorList, JanitorListFails, JanitorPick, JanitorRelease,
           JanitorRebuild, JanitorConfirm, JanitorDone, ReconcileList, ReconcileRebuild, vars
  <2>2. \A v \in Pod : resv'[v] = resv[v] \/ resv'[v] = None
    <3>1. CASE JanitorRelease \/ JanitorConfirm
      BY <3>1, <1>t DEF JanitorRelease, JanitorConfirm, releaseUnverified, releaseIfObserved
    <3>2. CASE ~(JanitorRelease \/ JanitorConfirm)
      <4>1. resv' = resv
        BY <1>7, <3>2, ZenonT(60)
           DEF Janitor, JanitorScan, JanitorList, JanitorListFails, JanitorPick, JanitorRebuild,
               JanitorDone, ReconcileList, ReconcileRebuild, rebuild, vars
      <4> QED BY <4>1
    <3> QED BY <3>1, <3>2
  <2>3. Warm => Warm'
    BY <2>1 DEF Warm
  <2> QED BY <1>k, <1>l, <2>1, <2>2, <2>3
<1> QED BY <1>1, <1>2, <1>3, <1>4, <1>5, <1>6, <1>7 DEF Informer

\* The hooks of the scheduling and binding cycles: Reserve creates a pod's
\* reservation, PostBind moves its phase, and Unreserve, called while the phase
\* is still Reserved, leaves none behind.
LEMMA SchedulingOwned ==
  ASSUME OwnInv, TypeOK', NEW u \in Pod, Scheduling(u)
  PROVE  OwnParts'
<1> USE DEF stateVars, clusterVars, informerVars, cycleVars, loopVars
<1>t. /\ api \in [Pod -> Revision] /\ lister \in [Pod -> Revision] /\ boundTo \in [Pod -> NodeName]
      /\ cycle \in [Pod -> {"queued", "scheduling", "binding", "landed", "bound"}]
      /\ target \in [Pod -> NodeName] /\ resv \in [Pod -> reservation \cup {None}]
  BY DEF OwnInv, TypeOK
<1>0. Begun /\ ReservationsOwned
  BY DEF OwnInv, OwnParts
<1>1. ASSUME PreFilter(u) \/ Unschedulable(u) PROVE OwnParts'
  <2>1. Begun'
    BY <1>0, <1>1, <1>t DEF Begun, Warm, PreFilter, Unschedulable
  <2>2. ReservationsOwned'
    BY <1>0, <1>1, <1>t DEF ReservationsOwned, PreFilter, Unschedulable
  <2> QED BY <2>1, <2>2 DEF OwnParts
<1>2. ASSUME NEW domain \in Domains, NEW n \in Node, Reserve(u, n, domain) PROVE OwnParts'
  <2>0. cycle[u] = "scheduling" /\ UNCHANGED <<api, boundTo, synced, lister, initial>>
    BY <1>2 DEF Reserve
  <2>1. CASE n \in domain /\ CanReserve(u, PodRefFor(u, n), domain)
    <3>1. /\ cycle' = [cycle EXCEPT ![u] = "binding"] /\ target' = [target EXCEPT ![u] = n]
          /\ resv' = [resv EXCEPT ![u] = [quota |-> quotaOf[u], sched |-> schedOf[u], node |-> n,
                                          phase |-> "Reserved", old |-> FALSE]]
      BY <1>2, <2>1 DEF Reserve, TryReserveChecked, PodRefFor
    <3>2. Begun'
      BY <1>0, <1>t, <2>0, <3>1 DEF Begun, Warm
    <3>3. ReservationsOwned'
      <4>1. u \in Managed
        BY <1>0, <2>0 DEF Begun
      <4> QED BY <1>0, <1>t, <2>0, <3>1, <4>1 DEF ReservationsOwned
    <3> QED BY <3>2, <3>3 DEF OwnParts
  <2>2. CASE ~(n \in domain /\ CanReserve(u, PodRefFor(u, n), domain))
    <3>1. cycle' = [cycle EXCEPT ![u] = "queued"] /\ target' = target /\ Unreserve(u)
      BY <1>2, <2>2 DEF Reserve
    <3>2. Begun'
      BY <1>0, <1>t, <2>0, <3>1 DEF Begun, Warm
    <3>3. ReservationsOwned'
      BY <1>0, <1>t, <2>0, <3>1 DEF ReservationsOwned, Unreserve
    <3> QED BY <3>2, <3>3 DEF OwnParts
  <2> QED BY <2>1, <2>2
<1>3. ASSUME BindLands(u) PROVE OwnParts'
  <2>1. Begun'
    <3>1. Begun /\ (Warm => Warm') /\ lister' = lister /\ target' = target
      BY <1>0, <1>3 DEF Warm, BindLands
    <3> QED BY <1>3, <1>t, <3>1 DEF Begun, BindLands
  <2>2. ReservationsOwned'
    BY <1>0, <1>3, <1>t DEF ReservationsOwned, BindLands
  <2> QED BY <2>1, <2>2 DEF OwnParts
<1>4. ASSUME PostBind(u) PROVE OwnParts'
  <2>1. Begun'
    BY <1>0, <1>4, <1>t DEF Begun, Warm, PostBind
  <2>2. \A v \in Pod : resv[v] # None => resv[v] \in reservation
    BY <1>t
  <2>3. /\ cycle[u] = "landed" /\ boundTo[u] = target[u] /\ boundTo' = boundTo
        /\ cycle' = [cycle EXCEPT ![u] = "bound"] /\ target' = [target EXCEPT ![u] = NoNode]
        /\ resv' = IF resv[u] # None THEN [resv EXCEPT ![u].phase = "BoundObs"] ELSE resv
    BY <1>0, <1>4 DEF Begun, PostBind, MarkBound
  <2>4. \A v \in Pod \ {u} : resv'[v] = resv[v] /\ cycle'[v] = cycle[v] /\ target'[v] = target[v]
    BY <1>t, <2>3
  <2>5. resv'[u] # None => /\ resv[u] # None /\ resv'[u].quota = resv[u].quota
                           /\ resv'[u].sched = resv[u].sched /\ resv'[u].node = resv[u].node
                           /\ resv'[u].phase = "BoundObs" /\ cycle'[u] = "bound"
    BY <1>t, <2>2, <2>3 DEF reservation
  <2>6. ReservationsOwned'
    BY <1>0, <2>3, <2>4, <2>5 DEF ReservationsOwned
  <2> QED BY <2>1, <2>6 DEF OwnParts
<1>5. ASSUME BindFails(u) PROVE OwnParts'
  <2>1. Begun'
    BY <1>0, <1>5, <1>t DEF Begun, Warm, BindFails
  <2>2. ReservationsOwned'
    BY <1>0, <1>5, <1>t DEF ReservationsOwned, BindFails, Unreserve
  <2> QED BY <2>1, <2>2 DEF OwnParts
<1> QED BY <1>1, <1>2, <1>3, <1>4, <1>5 DEF Scheduling

\* No pod is in a cycle in the initial state.
LEMMA OwnInvInit == Init => OwnInv
<1> SUFFICES ASSUME Init PROVE OwnInv
  OBVIOUS
<1>1. /\ api = [u \in Pod |-> Absent] /\ lister = [u \in Pod |-> Absent]
      /\ cycle = [u \in Pod |-> "queued"] /\ resv = [u \in Pod |-> None]
  BY DEF Init, noReservations
<1>2. \A u \in Pod : /\ lister[u] <= api[u] /\ resv[u] = None /\ cycle[u] = "queued"
                      /\ cycle[u] \notin {"binding", "landed", "bound"}
  BY <1>1
<1>3. Begun /\ ReservationsOwned
  BY <1>2, ZenonT(60) DEF Begun, ReservationsOwned
<1>4. TypeOK /\ CountersExact
  BY InitType, ZenonT(60)
<1> QED BY <1>3, <1>4, ZenonT(60) DEF OwnInv, OwnParts

\* Every step keeps reservations their pods' own.
LEMMA OwnInvStep ==
  ASSUME OwnInv, [Next]_vars
  PROVE  OwnInv'
<1>0. TypeOK' /\ CountersExact'
  BY TypeStep DEF OwnInv
<1>1. ASSUME Restart PROVE OwnParts'
  <2>1. /\ lister' = [u \in Pod |-> Absent] /\ cycle' = [u \in Pod |-> "queued"]
        /\ resv' = [u \in Pod |-> None]
    BY <1>1 DEF Restart, noReservations
  <2>2. api' \in [Pod -> Revision]
    BY <1>0 DEF TypeOK
  <2>3. \A u \in Pod : /\ lister'[u] <= api'[u] /\ resv'[u] = None /\ cycle'[u] = "queued"
                        /\ cycle'[u] \notin {"binding", "landed", "bound"}
    BY <2>1, <2>2
  <2>4. Begun' /\ ReservationsOwned'
    BY <2>3, ZenonT(60) DEF Begun, ReservationsOwned
  <2> QED BY <2>4 DEF OwnParts
<1>2. OwnParts'
  BY <1>0, <1>1, ClusterOwned, SchedulingOwned, BackgroundOwned DEF Next
<1> QED BY <1>0, <1>2 DEF OwnInv

\* A reservation is always its pod's own, whatever the caches and the loops do
\* and whatever the bind call reports: it is in the phase of the pod's cycle, on
\* the node of its bind call, and a requeued pod has none, so that TryReserve's
\* check for an existing reservation never refuses a retry.
THEOREM ReservationsAreOwned == Spec => []ReservationsOwned
<1>1. OwnInv /\ [Next]_vars => OwnInv'
  BY OwnInvStep
<1>2. OwnInv => ReservationsOwned
  BY DEF OwnInv, OwnParts
<1> QED BY OwnInvInit, <1>1, <1>2, PTL DEF Spec
=============================================================================
