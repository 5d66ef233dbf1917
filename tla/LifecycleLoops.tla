--------------------------- MODULE LifecycleLoops ---------------------------
(***************************************************************************)
(* The janitor and the reconciler keep the seat invariant: one lemma per   *)
(* action, one step per part it can disturb.  Pods that are not the        *)
(* plugin's stay out of the counts, whichever loop runs.                   *)
(***************************************************************************)
EXTENDS LifecycleInformer

\* Backends of a leaf that names none, with their time in seconds.
USE SMTT(40), ZenonT(60)

USE DEF Absent, Unbound, Bound, Finished, Deleted, Revision

\* rebuild: the snapshot holds the pods of the list.
LEMMA RebuildPods ==
  ASSUME NEW counts, rebuild(RefsOf(counts))
  PROVE  snap'.pods = RefsOf(counts) /\ resv' = resv
BY DEF rebuild, SnapshotOf

\* The scan of the janitor collects expired reservations.
LEMMA JanitorScanKeeps ==
  ASSUME Prompt, SeatInv, TypeOK', JanitorScan
  PROVE  SeatParts'
<1> USE DEF stateVars, clusterVars, informerVars, cycleVars, loopVars
<1>0. TypeOK /\ CountersExact
  BY DEF SeatInv
<1>t. /\ api \in [Pod -> Revision]
      /\ lister \in [Pod -> Revision]
      /\ janitor \in [pc : {"idle", "scanned", "loop", "release", "rebuild", "confirm"},
                      expired : SUBSET Pod, counts : SUBSET Pod, cur : Pod \cup {None}]
  BY <1>0 DEF TypeOK
<1>1. Lag' /\ Cycles' /\ Initial' /\ Coverage' /\ Callback'
  <2>1. UNCHANGED <<api, lister, pend, handler, boundTo, synced, initial, resv, cycle, target, snap>>
    BY DEF JanitorScan
  <2> QED BY <2>1
             DEF SeatInv, SeatParts, Lag, Cycles, Initial, Coverage, Callback, NoCallback,
                 MustCount
<1>2. Nodes'
  BY <1>t DEF SeatInv, SeatParts, Nodes, JanitorScan, JanitorIdle
<1>3. Refs'
  <2>1. janitor'.counts = {} /\ UNCHANGED <<boundTo, snap, resv, reconciler>>
    BY DEF JanitorScan, JanitorIdle
  <2>2. \A v \in Pod : eventRef(v)' = eventRef(v)
    BY <2>1 DEF eventRef, PodRefFor, emptyRef
  <2> QED BY <2>1, <2>2 DEF SeatInv, SeatParts, Refs
<1>4. Lists'
  BY <1>t DEF SeatInv, SeatParts, Lists, MustCount, ListHeld, JanitorScan, JanitorIdle
<1>5. Expired'
  BY <1>t, NoneIsNoEntry DEF SeatInv, SeatParts, Expired, JanitorScan, JanitorIdle
<1>6. Cursor'
  BY <1>t DEF SeatInv, SeatParts, Cursor, JanitorScan, JanitorIdle
<1> QED BY <1>1, <1>2, <1>3, <1>4, <1>5, <1>6 DEF SeatParts

\* The janitor's list contains every expired pod that still runs.
LEMMA JanitorListKeeps ==
  ASSUME Prompt, SeatInv, TypeOK', JanitorList
  PROVE  SeatParts'
<1> USE DEF stateVars, clusterVars, informerVars, cycleVars, loopVars
<1>0. TypeOK /\ CountersExact
  BY DEF SeatInv
<1>t. /\ api \in [Pod -> Revision]
      /\ lister \in [Pod -> Revision]
      /\ janitor \in [pc : {"idle", "scanned", "loop", "release", "rebuild", "confirm"},
                      expired : SUBSET Pod, counts : SUBSET Pod, cur : Pod \cup {None}]
  BY <1>0 DEF TypeOK
<1>1. Lag' /\ Cycles' /\ Initial' /\ Coverage' /\ Callback'
  <2>1. UNCHANGED <<api, lister, pend, handler, boundTo, synced, initial, resv, cycle, target, snap>>
    BY DEF JanitorList
  <2> QED BY <2>1
             DEF SeatInv, SeatParts, Lag, Cycles, Initial, Coverage, Callback, NoCallback,
                 MustCount
<1>2. Nodes'
  BY <1>t, LifecycleConstants
     DEF SeatInv, SeatParts, Lag, Nodes, JanitorList, ListCountable, countablePod
<1>3. Refs'
  BY <1>t
     DEF SeatInv, SeatParts, Refs, eventRef, PodRefFor, emptyRef, JanitorList, ListCountable,
         countablePod
<1>4. Lists'
  <2>1. /\ janitor'.counts = ListCountable /\ janitor'.pc = "loop"
        /\ UNCHANGED <<api, synced, initial, lister, handler, resv, reconciler, cycle>>
    BY <1>0 DEF TypeOK, JanitorList
  <2>2. handler = NoCallback /\ reconciler.pc # "listed"
    BY DEF JanitorList, Prompt, ListHeld
  <2>3. ASSUME NEW v \in Pod, MustCount(v)', v \notin janitor'.counts PROVE resv'[v] # None
    <3>1. MustCount(v) /\ lister[v] < Bound
      BY <1>t, <2>1, <2>3 DEF SeatInv, SeatParts, Lag, MustCount, ListCountable, countablePod
    <3> QED BY <2>1, <3>1 DEF SeatInv, SeatParts, Coverage
  <2> QED BY <2>1, <2>2, <2>3 DEF Lists, ListHeld, NoCallback
<1>5. Expired'
  BY <1>t DEF SeatInv, SeatParts, Cycles, Expired, JanitorList, ListCountable, countablePod
<1>6. Cursor'
  BY <1>t DEF SeatInv, SeatParts, Cursor, JanitorList, ListCountable, countablePod
<1> QED BY <1>1, <1>2, <1>3, <1>4, <1>5, <1>6 DEF SeatParts

\* The janitor's pass ends.
LEMMA JanitorStopKeeps ==
  ASSUME Prompt, SeatInv, TypeOK', JanitorListFails \/ JanitorDone
  PROVE  SeatParts'
<1> USE DEF stateVars, clusterVars, informerVars, cycleVars, loopVars
<1>0. TypeOK /\ CountersExact
  BY DEF SeatInv
<1>t. /\ api \in [Pod -> Revision]
      /\ lister \in [Pod -> Revision]
      /\ janitor \in [pc : {"idle", "scanned", "loop", "release", "rebuild", "confirm"},
                      expired : SUBSET Pod, counts : SUBSET Pod, cur : Pod \cup {None}]
  BY <1>0 DEF TypeOK
<1>1. Lag' /\ Cycles' /\ Initial' /\ Coverage' /\ Callback'
  <2>1. UNCHANGED <<api, lister, pend, handler, boundTo, synced, initial, resv, cycle, target, snap>>
    BY DEF JanitorListFails, JanitorDone
  <2> QED BY <2>1
             DEF SeatInv, SeatParts, Lag, Cycles, Initial, Coverage, Callback, NoCallback,
                 MustCount
<1>2. Nodes'
  BY <1>t DEF SeatInv, SeatParts, Nodes, JanitorListFails, JanitorDone, JanitorIdle
<1>3. Refs'
  BY <1>t
     DEF SeatInv, SeatParts, Refs, eventRef, PodRefFor, emptyRef, JanitorListFails, JanitorDone,
         JanitorIdle
<1>4. Lists'
  BY <1>t
     DEF SeatInv, SeatParts, Lists, MustCount, ListHeld, JanitorListFails, JanitorDone,
         JanitorIdle
<1>5. Expired'
  BY <1>t, NoneIsNoEntry
     DEF SeatInv, SeatParts, Expired, JanitorListFails, JanitorDone, JanitorIdle
<1>6. Cursor'
  BY <1>t DEF SeatInv, SeatParts, Cursor, JanitorListFails, JanitorDone, JanitorIdle
<1> QED BY <1>1, <1>2, <1>3, <1>4, <1>5, <1>6 DEF SeatParts

\* The janitor marks for release only reservations of pods that run no more.
LEMMA JanitorPickKeeps ==
  ASSUME Prompt, SeatInv, TypeOK', NEW u \in Pod, JanitorPick(u)
  PROVE  SeatParts'
<1> USE DEF stateVars, clusterVars, informerVars, cycleVars, loopVars
<1>0. TypeOK /\ CountersExact
  BY DEF SeatInv
<1>t. /\ api \in [Pod -> Revision]
      /\ lister \in [Pod -> Revision]
      /\ janitor \in [pc : {"idle", "scanned", "loop", "release", "rebuild", "confirm"},
                      expired : SUBSET Pod, counts : SUBSET Pod, cur : Pod \cup {None}]
  BY <1>0 DEF TypeOK
<1>1. Lag' /\ Cycles' /\ Initial' /\ Coverage' /\ Callback'
  <2>1. UNCHANGED <<api, lister, pend, handler, boundTo, synced, initial, resv, cycle, target, snap>>
    BY DEF JanitorPick
  <2> QED BY <2>1
             DEF SeatInv, SeatParts, Lag, Cycles, Initial, Coverage, Callback, NoCallback,
                 MustCount
<1>2. Nodes'
  BY <1>t DEF SeatInv, SeatParts, Nodes, JanitorPick
<1>3. Refs'
  BY <1>t DEF SeatInv, SeatParts, Refs, eventRef, PodRefFor, emptyRef, JanitorPick
<1>4. Lists'
  BY <1>t DEF SeatInv, SeatParts, Lists, MustCount, ListHeld, JanitorPick
<1>5. Expired'
  BY <1>t, NoneIsNoEntry DEF SeatInv, SeatParts, Nodes, Refs, Cycles, Cursor, Expired, JanitorPick
<1>6. Cursor'
  BY <1>t, NoneIsNoEntry DEF SeatInv, SeatParts, Cursor, JanitorPick
<1> QED BY <1>1, <1>2, <1>3, <1>4, <1>5, <1>6 DEF SeatParts

\* The janitor's release gives up no seat in use.
LEMMA JanitorReleaseKeeps ==
  ASSUME Prompt, SeatInv, TypeOK', JanitorRelease
  PROVE  SeatParts'
<1> USE DEF stateVars, clusterVars, informerVars, cycleVars, loopVars
<1>0. TypeOK /\ CountersExact
  BY DEF SeatInv
<1>t. /\ api \in [Pod -> Revision]
      /\ lister \in [Pod -> Revision]
      /\ janitor \in [pc : {"idle", "scanned", "loop", "release", "rebuild", "confirm"},
                      expired : SUBSET Pod, counts : SUBSET Pod, cur : Pod \cup {None}]
      /\ resv \in [Pod -> reservation \cup {None}]
  BY <1>0 DEF TypeOK
<1>1. Lag' /\ Initial' /\ Callback'
  <2>1. UNCHANGED <<api, lister, pend, handler, initial, snap, cycle>>
    BY DEF JanitorRelease, releaseUnverified
  <2> QED BY <2>1 DEF SeatInv, SeatParts, Lag, Initial, Callback, NoCallback
<1>2. Nodes'
  BY <1>t DEF SeatInv, SeatParts, Nodes, JanitorRelease, releaseUnverified
<1>3. Refs'
  BY <1>t
     DEF SeatInv, SeatParts, Refs, eventRef, PodRefFor, emptyRef, JanitorRelease,
         releaseUnverified
<1>4. Cycles'
  BY <1>t DEF SeatInv, SeatParts, Expired, Cursor, Cycles, JanitorRelease, releaseUnverified
<1>5. Coverage'
  BY <1>t
     DEF SeatInv, SeatParts, Expired, Cursor, Coverage, MustCount, JanitorRelease,
         releaseUnverified
<1>6. Lists'
  BY <1>t
     DEF SeatInv, SeatParts, Expired, Cursor, Lists, MustCount, ListHeld, JanitorRelease,
         releaseUnverified
<1>7. Expired'
  BY <1>t, NoneIsNoEntry
     DEF SeatInv, SeatParts, Cursor, Expired, JanitorRelease, releaseUnverified
<1>8. Cursor'
  BY <1>t DEF SeatInv, SeatParts, Cursor, JanitorRelease, releaseUnverified
<1> QED BY <1>1, <1>2, <1>3, <1>4, <1>5, <1>6, <1>7, <1>8 DEF SeatParts

\* The janitor's rebuild drops no pod whose reservation is gone.
LEMMA JanitorRebuildKeeps ==
  ASSUME Prompt, SeatInv, TypeOK', JanitorRebuild
  PROVE  SeatParts'
<1> USE DEF stateVars, clusterVars, informerVars, cycleVars, loopVars
<1>0. TypeOK /\ CountersExact
  BY DEF SeatInv
<1>t. /\ api \in [Pod -> Revision]
      /\ lister \in [Pod -> Revision]
      /\ janitor \in [pc : {"idle", "scanned", "loop", "release", "rebuild", "confirm"},
                      expired : SUBSET Pod, counts : SUBSET Pod, cur : Pod \cup {None}]
      /\ snap.pods \in [Pod -> podRef \cup {None}]
  BY <1>0 DEF TypeOK, snapshot
<1>s. snap'.pods = RefsOf(janitor.counts) /\ resv' = resv
  BY RebuildPods DEF JanitorRebuild
<1>1. Lag' /\ Cycles' /\ Initial'
  <2>1. UNCHANGED <<api, lister, pend, handler, boundTo, synced, initial, resv, cycle, target>>
    BY DEF JanitorRebuild, rebuild
  <2> QED BY <2>1 DEF SeatInv, SeatParts, Lag, Cycles, Initial, NoCallback
<1>2. Nodes'
  BY <1>t, <1>s DEF SeatInv, SeatParts, Nodes, JanitorRebuild, RefsOf
<1>3. Refs'
  BY <1>t, <1>s
     DEF SeatInv, SeatParts, Refs, eventRef, PodRefFor, emptyRef, JanitorRebuild, RefsOf
<1>4. Coverage'
  <2>2. \A v \in Pod : v \in janitor.counts => snap'.pods[v] # None
    BY <1>s, <1>0, NoneIsNoEntry, LifecycleConstants
       DEF TypeOK, RefsOf, PodRefFor, podRef, NodeName, AnyQuotaKey, AnySchedKey
  <2>3. UNCHANGED <<api, synced, initial, lister, pend>>
    BY DEF JanitorRebuild
  <2> QED BY <1>s, <2>2, <2>3 DEF SeatInv, SeatParts, Lists, Coverage, MustCount, JanitorRebuild
<1>5. Lists'
  BY <1>t, <1>s DEF SeatInv, SeatParts, Lists, MustCount, ListHeld, JanitorRebuild, RefsOf
<1>6. Callback'
  BY <1>t, <1>s, NoneIsNoEntry, LifecycleConstants
     DEF SeatInv, SeatParts, Lists, Callback, ListHeld, NoCallback, JanitorRebuild, RefsOf
<1>7. Expired'
  BY <1>t, <1>s DEF SeatInv, SeatParts, Expired, JanitorRebuild, RefsOf
<1>8. Cursor'
  BY <1>t DEF SeatInv, SeatParts, Cursor, JanitorRebuild
<1> QED BY <1>1, <1>2, <1>3, <1>4, <1>5, <1>6, <1>7, <1>8 DEF SeatParts

\* The janitor's second release happens after the rebuild counted the pod.
LEMMA JanitorConfirmKeeps ==
  ASSUME Prompt, SeatInv, TypeOK', JanitorConfirm
  PROVE  SeatParts'
<1> USE DEF stateVars, clusterVars, informerVars, cycleVars, loopVars
<1>0. TypeOK /\ CountersExact
  BY DEF SeatInv
<1>t. /\ api \in [Pod -> Revision]
      /\ lister \in [Pod -> Revision]
      /\ janitor \in [pc : {"idle", "scanned", "loop", "release", "rebuild", "confirm"},
                      expired : SUBSET Pod, counts : SUBSET Pod, cur : Pod \cup {None}]
      /\ resv \in [Pod -> reservation \cup {None}]
  BY <1>0 DEF TypeOK
<1>1. Lag' /\ Initial' /\ Callback'
  <2>1. UNCHANGED <<api, lister, pend, handler, initial, snap, cycle>>
    BY DEF JanitorConfirm, releaseIfObserved
  <2> QED BY <2>1 DEF SeatInv, SeatParts, Lag, Initial, Callback, NoCallback
<1>2. Nodes'
  BY <1>t DEF SeatInv, SeatParts, Nodes, JanitorConfirm, releaseIfObserved
<1>3. Refs'
  BY <1>t
     DEF SeatInv, SeatParts, Refs, eventRef, PodRefFor, emptyRef, JanitorConfirm,
         releaseIfObserved
<1>4. Cycles'
  BY <1>t DEF SeatInv, SeatParts, Expired, Cursor, Cycles, JanitorConfirm, releaseIfObserved
<1>5. Coverage'
  BY <1>t
     DEF SeatInv, SeatParts, Expired, Cursor, Coverage, MustCount, JanitorConfirm,
         releaseIfObserved
<1>6. Lists'
  BY <1>t
     DEF SeatInv, SeatParts, Expired, Cursor, Lists, MustCount, ListHeld, JanitorConfirm,
         releaseIfObserved
<1>7. Expired'
  BY <1>t, NoneIsNoEntry DEF SeatInv, SeatParts, Expired, JanitorConfirm, releaseIfObserved
<1>8. Cursor'
  BY <1>t DEF SeatInv, SeatParts, Cursor, JanitorConfirm, releaseIfObserved
<1> QED BY <1>1, <1>2, <1>3, <1>4, <1>5, <1>6, <1>7, <1>8 DEF SeatParts

\* A running pod missing from the reconciler's list has its reservation.
LEMMA ReconcileListKeeps ==
  ASSUME Prompt, SeatInv, TypeOK', ReconcileList
  PROVE  SeatParts'
<1> USE DEF stateVars, clusterVars, informerVars, cycleVars, loopVars
<1>0. TypeOK /\ CountersExact
  BY DEF SeatInv
<1>t. /\ api \in [Pod -> Revision]
      /\ lister \in [Pod -> Revision]
      /\ reconciler \in [pc : {"idle", "listed"}, counts : SUBSET Pod]
  BY <1>0 DEF TypeOK
<1>1. Lag' /\ Cycles' /\ Initial' /\ Coverage' /\ Callback' /\ Expired' /\ Cursor'
  <2>1. UNCHANGED <<api, lister, pend, handler, boundTo, synced, initial, resv, cycle, target, snap, janitor>>
    BY DEF ReconcileList
  <2> QED BY <2>1
             DEF SeatInv, SeatParts, Lag, Cycles, Initial, Coverage, Callback, Expired, Cursor,
                 NoCallback, MustCount
<1>2. Nodes'
  BY <1>t, LifecycleConstants
     DEF SeatInv, SeatParts, Lag, Nodes, ReconcileList, ListCountable, countablePod
<1>3. Refs'
  BY <1>t
     DEF SeatInv, SeatParts, Refs, eventRef, PodRefFor, emptyRef, ReconcileList, ListCountable,
         countablePod
<1>4. Lists'
  BY <1>t
     DEF SeatInv, SeatParts, Prompt, Lag, Coverage, Lists, MustCount, ListHeld, ReconcileList,
         ListCountable, countablePod
<1> QED BY <1>1, <1>2, <1>3, <1>4 DEF SeatParts

\* The reconciler's rebuild drops no pod whose reservation is gone.
LEMMA ReconcileRebuildKeeps ==
  ASSUME Prompt, SeatInv, TypeOK', ReconcileRebuild
  PROVE  SeatParts'
<1> USE DEF stateVars, clusterVars, informerVars, cycleVars, loopVars
<1>0. TypeOK /\ CountersExact
  BY DEF SeatInv
<1>t. /\ api \in [Pod -> Revision]
      /\ lister \in [Pod -> Revision]
      /\ reconciler \in [pc : {"idle", "listed"}, counts : SUBSET Pod]
      /\ snap.pods \in [Pod -> podRef \cup {None}]
  BY <1>0 DEF TypeOK, snapshot
<1>s. snap'.pods = RefsOf(reconciler.counts) /\ resv' = resv
  BY RebuildPods DEF ReconcileRebuild
<1>1. Lag' /\ Cycles' /\ Initial' /\ Expired' /\ Cursor'
  <2>1. UNCHANGED <<api, lister, pend, handler, boundTo, synced, initial, resv, cycle, target, janitor>>
    BY DEF ReconcileRebuild, rebuild
  <2> QED BY <2>1 DEF SeatInv, SeatParts, Lag, Cycles, Initial, Expired, Cursor, NoCallback
<1>2. Nodes'
  BY <1>t, <1>s DEF SeatInv, SeatParts, Nodes, ReconcileRebuild, ReconcilerIdle, RefsOf
<1>3. Refs'
  BY <1>t, <1>s
     DEF SeatInv, SeatParts, Refs, eventRef, PodRefFor, emptyRef, ReconcileRebuild,
         ReconcilerIdle, RefsOf
<1>4. Coverage'
  <2>2. \A v \in Pod : v \in reconciler.counts => snap'.pods[v] # None
    BY <1>s, <1>0, NoneIsNoEntry, LifecycleConstants
       DEF TypeOK, RefsOf, PodRefFor, podRef, NodeName, AnyQuotaKey, AnySchedKey
  <2>3. UNCHANGED <<api, synced, initial, lister, pend>>
    BY DEF ReconcileRebuild
  <2> QED BY <1>s, <2>2, <2>3 DEF SeatInv, SeatParts, Lists, Coverage, MustCount, ReconcileRebuild
<1>5. Lists'
  BY <1>t, <1>s
     DEF SeatInv, SeatParts, Lists, MustCount, ListHeld, ReconcileRebuild, ReconcilerIdle, RefsOf
<1>6. Callback'
  <2>1. handler' = handler /\ ListHeld
    BY DEF ReconcileRebuild, ListHeld
  <2>2. handler'.pod = None
    BY <2>1 DEF SeatInv, SeatParts, Lists, NoCallback
  <2> QED BY <2>2, NoneIsNoEntry, LifecycleConstants DEF Callback
<1> QED BY <1>1, <1>2, <1>3, <1>4, <1>5, <1>6 DEF SeatParts
-----------------------------------------------------------------------------
(* Pods that are not the plugin's.                                         *)

\* A foreign pod is never scheduled or reserved here and is counted with an
\* empty ref if at all; the lists in use name managed pods only.
ForeignInv ==
  /\ TypeOK /\ CountersExact
  /\ \A u \in Pod \ Managed : snap.pods[u] \in {None, emptyRef} /\ resv[u] = None
                              /\ cycle[u] = "queued"
  /\ janitor.counts \subseteq Managed /\ reconciler.counts \subseteq Managed

\* The process starts with empty maps and idle loops.
LEMMA ForeignInit ==
  ASSUME TypeOK, CountersExact, Init
  PROVE  ForeignInv
<1>1. /\ snap.pods = [u \in Pod |-> None] /\ resv = [u \in Pod |-> None]
      /\ cycle = [u \in Pod |-> "queued"]
  BY DEF Init, emptySnapshot, noReservations
<1>2. janitor.counts = {} /\ reconciler.counts = {}
  BY DEF Init, JanitorIdle, ReconcilerIdle
<1> QED BY <1>1, <1>2 DEF ForeignInv

\* Every critical section, whichever loop runs it, keeps foreign pods out.
LEMMA ForeignStep ==
  ASSUME ForeignInv, TypeOK', CountersExact', [Next]_vars
  PROVE  ForeignInv'
<1> USE DEF stateVars, clusterVars, informerVars, cycleVars, loopVars
<1>t. TypeOK /\ CountersExact /\ TypeOK' /\ CountersExact'
  BY DEF ForeignInv
<1> DEFINE Clean == /\ \A u \in Pod \ Managed : snap.pods[u] \in {None, emptyRef}
                                                /\ resv[u] = None /\ cycle[u] = "queued"
                    /\ janitor.counts \subseteq Managed /\ reconciler.counts \subseteq Managed
<1>c. Clean
  BY DEF ForeignInv
<1> SUFFICES Clean'
  BY <1>t DEF ForeignInv
<1>1. ASSUME NEW u \in Pod, Cluster(u) \/ StatusUpdate(u) \/ (\E r \in Revision : WatchEvent(u, r))
      PROVE  Clean'
  <2>1. UNCHANGED <<snap, resv, cycle, janitor, reconciler>>
    BY <1>1 DEF Cluster, CreatePod, FinishPod, DeletePod, ForeignBind, StatusUpdate, WatchEvent
  <2> QED BY <1>c, <2>1
<1>2. CASE InformerSync
  BY <1>2, <1>c DEF InformerSync
<1>3. ASSUME NEW u \in Pod, NEW r \in Revision, OnPodEvent(u, r) PROVE Clean'
  <2>1. /\ resv' = resv
        /\ \A v \in Pod : snap'.pods[v] =
             IF v # u THEN snap.pods[v] ELSE IF r = Bound THEN eventRef(u) ELSE None
    BY <1>t, <1>3, EventPods, ZenonT(60)
  <2>2. cycle' = cycle /\ janitor' = janitor /\ reconciler' = reconciler
    BY <1>3 DEF OnPodEvent
  <2>3. u \notin Managed => eventRef(u) = emptyRef
    BY DEF eventRef
  <2> QED BY <1>c, <2>1, <2>2, <2>3
<1>4. CASE OnPodEventEnd
  BY <1>4, <1>c, <1>t DEF TypeOK, OnPodEventEnd, releaseUnverified, releaseIfObserved
<1>5. ASSUME NEW u \in Pod, PreFilter(u) \/ Unschedulable(u) PROVE Clean'
  BY <1>5, <1>c, <1>t DEF TypeOK, PreFilter, Unschedulable
<1>6. ASSUME NEW u \in Pod, NEW domain \in Domains, NEW n \in Node, Reserve(u, n, domain)
      PROVE  Clean'
  <2>1. u \in Managed
    BY <1>6, <1>c DEF Reserve
  <2>2. /\ snap' = snap /\ janitor' = janitor /\ reconciler' = reconciler
        /\ \A v \in Pod \ {u} : resv'[v] = resv[v] /\ cycle'[v] = cycle[v]
    BY <1>6, <1>t DEF TypeOK, Reserve, TryReserveChecked, Unreserve
  <2> QED BY <1>c, <2>1, <2>2
<1>7. ASSUME NEW u \in Pod, BindLands(u) \/ PostBind(u) \/ BindFails(u) PROVE Clean'
  <2>1. u \in Managed
    BY <1>7, <1>c DEF BindLands, PostBind, BindFails
  <2>2. /\ snap' = snap /\ janitor' = janitor /\ reconciler' = reconciler
        /\ \A v \in Pod \ {u} : resv'[v] = resv[v] /\ cycle'[v] = cycle[v]
    BY <1>7, <1>t DEF TypeOK, BindLands, PostBind, BindFails, MarkBound, Unreserve
  <2> QED BY <1>c, <2>1, <2>2
<1>8. ASSUME NEW u \in Pod, TTLElapses(u) PROVE Clean'
  <2>1. u \in Managed
    BY <1>8, <1>c DEF TTLElapses, Expire
  <2>2. /\ snap' = snap /\ cycle' = cycle /\ janitor' = janitor /\ reconciler' = reconciler
        /\ \A v \in Pod \ {u} : resv'[v] = resv[v]
    BY <1>8, <1>t DEF TypeOK, TTLElapses, Expire
  <2> QED BY <1>c, <2>1, <2>2
<1>9. CASE Janitor
  <2>1. CASE JanitorScan
    <3>1. PICK expired : janitor' = [JanitorIdle EXCEPT !.pc = "scanned", !.expired = expired]
      BY <2>1, ZenonT(60) DEF JanitorScan
    <3>2. janitor'.counts = {}
      BY <3>1 DEF JanitorIdle
    <3> QED BY <2>1, <3>2, <1>c DEF JanitorScan
  <2>2. CASE JanitorListFails \/ JanitorDone
    BY <2>2, <1>c DEF JanitorListFails, JanitorDone, JanitorIdle
  <2>3. CASE JanitorList
    <3>1. janitor'.counts = ListCountable
      BY <2>3, <1>t DEF TypeOK, JanitorList
    <3> QED BY <2>3, <3>1, <1>c DEF JanitorList, ListCountable
  <2>4. ASSUME NEW u \in Pod, JanitorPick(u) PROVE Clean'
    <3>1. janitor'.counts = janitor.counts
      BY <2>4, <1>t DEF TypeOK, JanitorPick
    <3> QED BY <2>4, <3>1, <1>c DEF JanitorPick
  <2>5. CASE JanitorRelease \/ JanitorConfirm
    <3>1. janitor'.counts = janitor.counts
      BY <2>5, <1>t, ZenonT(60) DEF TypeOK, JanitorRelease, JanitorConfirm
    <3> QED BY <2>5, <3>1, <1>c, <1>t
            DEF TypeOK, JanitorRelease, JanitorConfirm, releaseUnverified, releaseIfObserved
  <2>6. CASE JanitorRebuild
    <3>1. janitor'.counts = janitor.counts
      BY <2>6, <1>t DEF TypeOK, JanitorRebuild
    <3>2. snap'.pods = RefsOf(janitor.counts) /\ resv' = resv
      BY <2>6, <1>t, RebuildPods DEF JanitorRebuild
    <3> QED BY <2>6, <3>1, <3>2, <1>c DEF JanitorRebuild, RefsOf
  <2> QED BY <1>9, <2>1, <2>2, <2>3, <2>4, <2>5, <2>6 DEF Janitor
<1>10. CASE ReconcileList
  BY <1>10, <1>c DEF ReconcileList, ListCountable
<1>11. CASE ReconcileRebuild
  <2>1. snap'.pods = RefsOf(reconciler.counts) /\ resv' = resv
    BY <1>11, <1>t, RebuildPods DEF ReconcileRebuild
  <2> QED BY <1>11, <2>1, <1>c DEF ReconcileRebuild, RefsOf, ReconcilerIdle
<1>12. CASE Restart
  BY <1>12 DEF Restart, emptySnapshot, noReservations, JanitorIdle, ReconcilerIdle
<1>13. CASE UNCHANGED vars
  BY <1>13, <1>c DEF vars
<1> QED BY <1>1, <1>2, <1>3, <1>4, <1>5, <1>6, <1>7, <1>8, <1>9, <1>10, <1>11, <1>12, <1>13
           DEF Next, Informer, Scheduling
=============================================================================
