------------------------- MODULE LifecycleInformer --------------------------
(***************************************************************************)
(* The API server, the informer, its event handler and a restart keep the  *)
(* seat invariant: one lemma per action, one step per part it can disturb. *)
(***************************************************************************)
EXTENDS LifecycleInv, TLAPS

\* Backends of a leaf that names none, with their time in seconds.
USE SMTT(40), ZenonT(60)

USE DEF Absent, Unbound, Bound, Finished, Deleted, Revision

\* The ref onPodEvent passes on, and the map ListCountable returns, are typed.
LEMMA RefTypes ==
  ASSUME TypeOK
  PROVE  /\ \A u \in Pod : eventRef(u) \in podRef
         /\ \A counts : RefsOf(counts) \in [Pod -> podRef \cup {None}]
BY LifecycleConstants
   DEF TypeOK, eventRef, PodRefFor, emptyRef, RefsOf, podRef, NodeName, AnyQuotaKey, AnySchedKey

\* The API server's own steps move a pod forward, and never bind a managed one.
LEMMA ClusterEffect ==
  ASSUME TypeOK, NEW u \in Pod, Cluster(u)
  PROVE  \A v \in Managed : boundTo'[v] = boundTo[v] /\ (api'[v] = Bound => api[v] = Bound)
BY LifecycleConstants DEF TypeOK, Cluster, CreatePod, FinishPod, DeletePod, ForeignBind

\* The first critical section of a callback moves one entry of the snapshot,
\* whichever branch it takes.
LEMMA EventPods ==
  ASSUME TypeOK, NEW u \in Pod, NEW r, OnPodEvent(u, r)
  PROVE  /\ resv' = resv
         /\ \A v \in Pod : snap'.pods[v] =
              IF v # u THEN snap.pods[v] ELSE IF r = Bound THEN eventRef(u) ELSE None
<1>1. snap.pods \in [Pod -> podRef \cup {None}]
  BY DEF TypeOK, snapshot
<1>2. unapplyCount(snap, u).pods = [snap.pods EXCEPT ![u] = None]
  BY <1>1 DEF unapplyCount
<1>3. CASE r = Bound
  <2>1. resv' = resv /\ snap'.pods = [unapplyCount(snap, u).pods EXCEPT ![u] = eventRef(u)]
    BY <1>3 DEF OnPodEvent, countablePod, upsertCount, applyCount
  <2> QED BY <1>1, <1>2, <1>3, <2>1
<1>4. CASE r # Bound
  <2>1. resv' = resv /\ snap' = unapplyCount(snap, u)
    BY <1>4 DEF OnPodEvent, countablePod, removeCount
  <2> QED BY <1>1, <1>2, <1>4, <2>1
<1> QED BY <1>3, <1>4

USE DEF Absent, Unbound, Bound, Finished, Deleted, Revision

\* The API server's own steps: pods only move forward, and a managed pod is
\* never bound behind the scheduler's back.
LEMMA ClusterKeeps ==
  ASSUME Prompt, SeatInv, TypeOK', NEW u \in Pod, Cluster(u)
  PROVE  SeatParts'
<1> USE DEF stateVars, clusterVars, informerVars, cycleVars, loopVars
<1>0. TypeOK /\ CountersExact
  BY DEF SeatInv
<1>t. /\ api \in [Pod -> Revision]
      /\ boundTo \in [Pod -> NodeName]
      /\ lister \in [Pod -> Revision]
  BY <1>0 DEF TypeOK
<1>a. \A v \in Managed : boundTo'[v] = boundTo[v] /\ (api'[v] = Bound => api[v] = Bound)
  BY <1>0, ClusterEffect
<1>b. UNCHANGED <<snap, resv, synced, lister, pend, initial, handler, cycle, target, janitor, reconciler>>
  BY DEF Cluster, CreatePod, FinishPod, DeletePod, ForeignBind
<1>1. Cursor'
  <2>1. UNCHANGED <<janitor>>
    BY DEF Cluster, CreatePod, FinishPod, DeletePod, ForeignBind
  <2> QED BY <2>1 DEF SeatInv, SeatParts, Cursor
<1>2. Lag'
  BY <1>t DEF SeatInv, SeatParts, Lag, Cluster, CreatePod, FinishPod, DeletePod, ForeignBind
<1>3. Nodes'
  BY <1>t, EmptyNames
     DEF SeatInv, SeatParts, Lag, Nodes, Cluster, CreatePod, FinishPod, DeletePod, ForeignBind
<1>4. Refs'
  <2>1. \A v \in Pod : eventRef(v)' = eventRef(v)
    BY <1>a DEF eventRef, PodRefFor, emptyRef
  <2> QED BY <1>a, <1>b, <2>1 DEF SeatInv, SeatParts, Refs
<1>5. Cycles'
  BY <1>t, EmptyNames
     DEF SeatInv, SeatParts, Lag, Nodes, Cycles, Cluster, CreatePod, FinishPod, DeletePod,
         ForeignBind
<1>6. Initial'
  BY <1>a, <1>b DEF SeatInv, SeatParts, Initial
<1>7. Coverage'
  BY <1>a, <1>b DEF SeatInv, SeatParts, Coverage, MustCount
<1>8. Lists'
  BY <1>a, <1>b DEF SeatInv, SeatParts, Lists, MustCount, ListHeld
<1>9. Callback'
  BY <1>a, <1>b, LifecycleConstants DEF SeatInv, SeatParts, Callback
<1>10. Expired'
  BY <1>a, <1>b DEF SeatInv, SeatParts, Nodes, Cycles, Expired
<1> QED BY <1>1, <1>2, <1>3, <1>4, <1>5, <1>6, <1>7, <1>8, <1>9, <1>10 DEF SeatParts

\* The initial list: every bound pod in it has its Add callback to come.
LEMMA InformerSyncKeeps ==
  ASSUME Prompt, SeatInv, TypeOK', InformerSync
  PROVE  SeatParts'
<1> USE DEF stateVars, clusterVars, informerVars, cycleVars, loopVars
<1>0. TypeOK /\ CountersExact
  BY DEF SeatInv
<1>t. /\ api \in [Pod -> Revision]
      /\ lister \in [Pod -> Revision]
      /\ pend \in [Pod -> SUBSET Revision]
      /\ initial \in SUBSET Pod
  BY <1>0 DEF TypeOK
<1>1. Refs' /\ Cursor'
  <2>1. UNCHANGED <<boundTo, snap, resv, janitor, reconciler>>
    BY DEF InformerSync
  <2> QED BY <2>1 DEF SeatInv, SeatParts, Refs, Cursor, eventRef, PodRefFor, emptyRef
<1>2. Lag'
  <2>1. api' = api /\ lister' = api /\ handler' = handler
    BY DEF InformerSync
  <2>2. \A v \in Pod : \A r \in pend'[v] : r = api[v] /\ Unbound <= api[v]
    BY <1>t DEF InformerSync
  <2>3. \A v \in Pod : lister[v] <= api[v]
    BY DEF SeatInv, SeatParts, Lag
  <2>4. handler \in [pod : Pod \cup {None}, rev : Revision]
    BY <1>0 DEF TypeOK
  <2> QED BY <1>t, <2>1, <2>2, <2>3, <2>4 DEF SeatInv, SeatParts, Lag, NoCallback
<1>3. Nodes'
  BY <1>t DEF SeatInv, SeatParts, Lag, Nodes, InformerSync
<1>4. Cycles'
  BY <1>t DEF SeatInv, SeatParts, Nodes, Cycles, InformerSync
<1>5. Initial'
  <2>1. \A v \in initial' : lister'[v] = api'[v] /\ pend'[v] = {api'[v]}
    BY <1>t DEF InformerSync
  <2> QED BY <2>1 DEF Initial
<1>6. \A v \in Pod : ~MustCount(v)'
  <2>1. \A v \in Pod : api'[v] = Bound => v \in initial'
    BY <1>t DEF InformerSync, Unbound, Bound, Finished
  <2>2. \A v \in Pod : cycle'[v] = "queued"
    BY DEF SeatInv, SeatParts, Cycles, InformerSync
  <2> QED BY <2>1, <2>2 DEF MustCount
<1>7. Coverage' /\ Lists'
  <2>1. UNCHANGED <<handler, janitor, reconciler>>
    BY DEF InformerSync
  <2> QED BY <1>6, <2>1 DEF SeatInv, SeatParts, Coverage, Lists, ListHeld, NoCallback
<1>8. Callback'
  BY <1>t, LifecycleConstants DEF SeatInv, SeatParts, Callback, InformerSync
<1>9. Expired'
  BY <1>t DEF SeatInv, SeatParts, Cycles, Expired, InformerSync
<1> QED BY <1>1, <1>2, <1>3, <1>4, <1>5, <1>6, <1>7, <1>8, <1>9 DEF SeatParts

\* The cache moves forward, and never past the API server.
LEMMA WatchEventKeeps ==
  ASSUME Prompt, SeatInv, TypeOK', NEW u \in Pod, NEW r \in Revision, WatchEvent(u, r)
  PROVE  SeatParts'
<1> USE DEF stateVars, clusterVars, informerVars, cycleVars, loopVars
<1>0. TypeOK /\ CountersExact
  BY DEF SeatInv
<1>t. /\ api \in [Pod -> Revision]
      /\ lister \in [Pod -> Revision]
      /\ pend \in [Pod -> SUBSET Revision]
  BY <1>0 DEF TypeOK
<1>1. Refs' /\ Lists' /\ Cursor'
  <2>1. UNCHANGED <<boundTo, snap, resv, janitor, reconciler, api, synced, initial, handler, cycle>>
    BY DEF WatchEvent
  <2> QED BY <2>1
             DEF SeatInv, SeatParts, Refs, Lists, Cursor, eventRef, PodRefFor, emptyRef,
                 MustCount, ListHeld
<1>2. Lag'
  <2>1. api' = api /\ handler' = handler
    BY DEF WatchEvent
  <2>2. \A v \in Pod : lister[v] <= lister'[v] /\ lister'[v] <= api[v]
    BY <1>t DEF SeatInv, SeatParts, Lag, WatchEvent
  <2>3. \A v \in Pod : \A s \in pend'[v] : s \in pend[v] \/ (v = u /\ s = r)
    BY <1>t DEF WatchEvent
  <2>4. Unbound <= r /\ r = lister'[u]
    BY <1>t DEF WatchEvent
  <2>5. handler \in [pod : Pod \cup {None}, rev : Revision] /\ lister' \in [Pod -> Revision]
    BY <1>0 DEF TypeOK
  <2> QED BY <1>t, <2>1, <2>2, <2>3, <2>4, <2>5 DEF SeatInv, SeatParts, Lag, NoCallback
<1>3. Nodes'
  BY <1>t DEF SeatInv, SeatParts, Lag, Nodes, WatchEvent
<1>4. Cycles'
  BY <1>t DEF SeatInv, SeatParts, Lag, Nodes, Cycles, WatchEvent
<1>5. Initial'
  BY <1>t DEF SeatInv, SeatParts, Initial, WatchEvent
<1>6. Coverage'
  BY <1>t DEF SeatInv, SeatParts, Lag, Coverage, MustCount, WatchEvent
<1>7. Callback'
  BY <1>t, LifecycleConstants DEF SeatInv, SeatParts, Lag, Callback, WatchEvent
<1>8. Expired'
  BY <1>t DEF SeatInv, SeatParts, Lag, Expired, WatchEvent
<1> QED BY <1>1, <1>2, <1>3, <1>4, <1>5, <1>6, <1>7, <1>8 DEF SeatParts

\* A repeated notification shows the revision the cache has.
LEMMA StatusUpdateKeeps ==
  ASSUME Prompt, SeatInv, TypeOK', NEW u \in Pod, StatusUpdate(u)
  PROVE  SeatParts'
<1>0. TypeOK
  BY DEF SeatInv
<1>i. Lag /\ Nodes /\ Refs /\ Cycles /\ Initial /\ Coverage /\ Lists /\ Callback /\ Expired /\ Cursor
  BY DEF SeatInv, SeatParts
<1>t. \A v \in Pod : api[v] \in Revision /\ lister[v] \in Revision /\ pend[v] \subseteq Revision
  BY <1>0 DEF TypeOK
<1>a. UNCHANGED <<api, boundTo, synced, initial, lister, handler, cycle, target>>
  BY DEF StatusUpdate, clusterVars, cycleVars
<1>b. UNCHANGED <<snap, resv, janitor, reconciler>>
  BY DEF StatusUpdate, stateVars, loopVars
<1>c. \A v \in Pod : pend'[v] = IF v = u THEN pend[u] \cup {lister[u]} ELSE pend[v]
  BY <1>0 DEF StatusUpdate, TypeOK
<1>d. lister[u] \in {Unbound, Bound}
  BY DEF StatusUpdate
<1>1. Refs'
  BY <1>i, <1>a, <1>b DEF Refs, eventRef, PodRefFor, emptyRef
<1>2. Cycles'
  BY <1>i, <1>a, <1>b DEF Cycles
<1>3. Lists' /\ Cursor'
  BY <1>i, <1>a, <1>b DEF Lists, MustCount, ListHeld, Cursor
<1>4. Lag'
  BY <1>i, <1>t, <1>a, <1>c, <1>d DEF Lag
<1>5. Nodes'
  BY <1>i, <1>t, <1>a, <1>b, <1>c DEF Nodes
<1>6. Initial'
  BY <1>i, <1>a, <1>c, LifecycleConstants DEF Initial
<1>7. Coverage'
  <2>1. ASSUME NEW v \in Pod, MustCount(v)'
        PROVE  /\ snap'.pods[v] # None \/ resv'[v] # None
               /\ lister'[v] < Bound \/ Unbound \in pend'[v] => resv'[v] # None
    <3>1. MustCount(v)
      BY <1>a, <2>1 DEF MustCount
    <3>2. /\ snap.pods[v] # None \/ resv[v] # None
          /\ lister[v] < Bound \/ Unbound \in pend[v] => resv[v] # None
      BY <1>i, <3>1 DEF Coverage
    <3>3. Unbound \in pend'[v] => Unbound \in pend[v] \/ lister[v] < Bound
      BY <1>c
    <3> QED BY <1>a, <1>b, <3>2, <3>3
  <2> QED BY <2>1 DEF Coverage
<1>8. Callback'
  BY <1>i, <1>t, <1>a, <1>b, <1>c, LifecycleConstants DEF Lag, Callback
<1>9. Expired'
  BY <1>i, <1>a, <1>b, <1>c DEF Expired
<1> QED BY <1>1, <1>2, <1>3, <1>4, <1>5, <1>6, <1>7, <1>8, <1>9 DEF SeatParts

\* The first critical section of a callback moves one pod in or out of the
\* snapshot; it loses a running pod only if it was shown the pod unbound, and
\* then the reservation covers it.
LEMMA OnPodEventKeeps ==
  ASSUME Prompt, SeatInv, TypeOK', NEW u \in Pod, NEW r \in Revision, OnPodEvent(u, r)
  PROVE  SeatParts'
<1>0. TypeOK /\ CountersExact
  BY DEF SeatInv
<1>i. Lag /\ Nodes /\ Refs /\ Cycles /\ Initial /\ Coverage /\ Lists /\ Callback /\ Expired /\ Cursor
  BY DEF SeatInv, SeatParts
<1>t. \A v \in Pod : api[v] \in Revision /\ lister[v] \in Revision /\ pend[v] \subseteq Revision
  BY <1>0 DEF TypeOK
<1>a. handler = NoCallback /\ handler'.pod = u /\ handler'.rev = r /\ handler'.pod # None
  BY NoneIsNoEntry DEF OnPodEvent
<1>b. r \in pend[u] /\ \A x \in pend[u] : r <= x
  BY DEF OnPodEvent
<1>c. ~ListHeld
  BY DEF OnPodEvent, Prompt
<1>d. UNCHANGED <<api, boundTo, synced, lister, cycle, target>>
  BY DEF OnPodEvent, clusterVars, cycleVars
<1>e. UNCHANGED <<janitor, reconciler, resv>>
  <2>1. UNCHANGED <<janitor, reconciler>>
    BY DEF OnPodEvent, loopVars
  <2> QED BY <1>0, <2>1, EventPods
<1>f. initial' = initial \ {u}
  BY DEF OnPodEvent
<1>g. \A v \in Pod : pend'[v] = IF v = u THEN pend[u] \ {r} ELSE pend[v]
  BY <1>0 DEF OnPodEvent, TypeOK
<1>h. \A v \in Pod :
        snap'.pods[v] = IF v # u THEN snap.pods[v] ELSE IF r = Bound THEN eventRef(u) ELSE None
  BY <1>0, EventPods
<1>1. Cursor' /\ Expired'
  BY <1>i, <1>d, <1>e, <1>g DEF Cursor, Expired
<1>2. Lag'
  BY <1>i, <1>t, <1>a, <1>b, <1>d, <1>g DEF Lag
<1>3. Nodes'
  BY <1>i, <1>t, <1>b, <1>d, <1>e, <1>g, <1>h DEF Lag, Nodes
<1>4. Refs'
  <2>1. \A v \in Pod : eventRef(v)' = eventRef(v)
    BY <1>d DEF eventRef, PodRefFor, emptyRef
  <2> QED BY <1>i, <1>d, <1>e, <1>h, <2>1 DEF Refs
<1>5. Cycles'
  BY <1>i, <1>d, <1>e, <1>f DEF Cycles
<1>6. Initial'
  BY <1>i, <1>d, <1>f, <1>g, LifecycleConstants DEF Initial
<1>7. Coverage'
  <2>1. eventRef(u) # None
    BY <1>0, RefTypes, NoneIsNoEntry
  <2>2. ASSUME NEW v \in Pod, v # u, MustCount(v)'
        PROVE  MustCount(v) /\ snap'.pods[v] = snap.pods[v] /\ pend'[v] = pend[v]
    BY <1>d, <1>f, <1>g, <1>h, <2>2 DEF MustCount
  <2>3. ASSUME MustCount(u)'
        PROVE  /\ snap'.pods[u] # None \/ resv[u] # None
               /\ lister[u] < Bound \/ Unbound \in pend'[u] => resv[u] # None
    <3>1. u \in Managed /\ synced /\ api[u] = Bound
      BY <1>d, <2>3 DEF MustCount
    <3>2. CASE MustCount(u)
      <4>1. lister[u] < Bound \/ Unbound \in pend[u] => resv[u] # None
        BY <1>i, <3>2 DEF Coverage
      <4>2. r = Bound \/ lister[u] < Bound \/ Unbound \in pend[u]
        BY <1>i, <1>t, <1>b, <3>1 DEF Lag
      <4>3. snap'.pods[u] # None \/ r # Bound
        BY <1>h, <2>1
      <4>4. Unbound \in pend'[u] => Unbound \in pend[u]
        BY <1>g
      <4> QED BY <4>1, <4>2, <4>3, <4>4
    <3>3. CASE ~MustCount(u)
      <4>1. lister[u] = Bound /\ pend[u] = {Bound}
        BY <1>i, <3>1, <3>3 DEF MustCount, Initial
      <4> QED BY <1>b, <1>g, <1>h, <2>1, <4>1
    <3> QED BY <3>2, <3>3
  <2>4. lister' = lister /\ resv' = resv
    BY <1>d, <1>e
  <2>5. ASSUME NEW v \in Pod, MustCount(v)'
        PROVE  /\ snap'.pods[v] # None \/ resv'[v] # None
               /\ lister'[v] < Bound \/ Unbound \in pend'[v] => resv'[v] # None
    BY <1>i, <2>2, <2>3, <2>4, <2>5 DEF Coverage
  <2> QED BY <2>5 DEF Coverage
<1>8. Lists'
  BY <1>c, <1>e DEF Lists, ListHeld
<1>9. Callback'
  <2>1. api[u] = Bound => r \in {Unbound, Bound}
    BY <1>i, <1>t, <1>b DEF Lag
  <2>2. r = Bound => Unbound \notin pend'[u]
    BY <1>b, <1>g
  <2>3. r = Unbound => snap'.pods[u] = None
    BY <1>h
  <2> QED BY <1>a, <1>d, <2>1, <2>2, <2>3 DEF Callback
<1> QED BY <1>1, <1>2, <1>3, <1>4, <1>5, <1>6, <1>7, <1>8, <1>9 DEF SeatParts

\* The second critical section drops a reservation only if the snapshot counts
\* the pod, or the pod is gone.
LEMMA OnPodEventEndKeeps ==
  ASSUME Prompt, SeatInv, TypeOK', OnPodEventEnd
  PROVE  SeatParts'
<1>0. TypeOK /\ CountersExact
  BY DEF SeatInv
<1>i. Lag /\ Nodes /\ Refs /\ Cycles /\ Initial /\ Coverage /\ Lists /\ Callback /\ Expired /\ Cursor
  BY DEF SeatInv, SeatParts
<1>t. \A v \in Pod : api[v] \in Revision /\ lister[v] \in Revision
  BY <1>0 DEF TypeOK
<1>a. handler.pod \in Pod \cup {None} /\ handler.rev \in Revision
  BY <1>0 DEF TypeOK
<1>b. handler' = NoCallback /\ handler'.pod = None
  BY DEF OnPodEventEnd, NoCallback
<1>c. UNCHANGED <<api, boundTo, synced, lister, pend, initial, cycle, target>>
  BY DEF OnPodEventEnd, clusterVars, cycleVars
<1>d. UNCHANGED <<janitor, reconciler, snap>>
  BY DEF OnPodEventEnd, loopVars, releaseUnverified, releaseIfObserved
<1>e. \A v \in Pod : resv'[v] = resv[v] \/ resv'[v] = None
  BY <1>0 DEF OnPodEventEnd, releaseUnverified, releaseIfObserved, TypeOK
<1>f. \A v \in Pod : resv'[v] # resv[v] =>
        v = handler.pod /\ (handler.rev = Deleted \/ snap.pods[v] # None)
  BY <1>0 DEF OnPodEventEnd, releaseUnverified, releaseIfObserved, TypeOK
<1>1. Nodes' /\ Initial' /\ Cursor'
  BY <1>i, <1>c, <1>d DEF Nodes, Initial, Cursor
<1>2. Lag'
  BY <1>i, <1>b, <1>c, NoneIsNoEntry DEF Lag
<1>3. Refs'
  <2>1. \A v \in Pod : eventRef(v)' = eventRef(v)
    BY <1>c DEF eventRef, PodRefFor, emptyRef
  <2> QED BY <1>i, <1>c, <1>d, <1>e, <2>1 DEF Refs
<1>4. \A v \in Pod : resv'[v] # resv[v] =>
        /\ api[v] # Unbound
        /\ v \in Managed /\ api[v] = Bound =>
             snap.pods[v] # None /\ lister[v] >= Bound /\ Unbound \notin pend[v]
  <2> SUFFICES ASSUME NEW v \in Pod, resv'[v] # resv[v]
               PROVE  /\ api[v] # Unbound
                      /\ v \in Managed /\ api[v] = Bound =>
                           snap.pods[v] # None /\ lister[v] >= Bound /\ Unbound \notin pend[v]
    OBVIOUS
  <2>1. v = handler.pod /\ (handler.rev = Deleted \/ snap.pods[v] # None)
    BY <1>f
  <2>2. handler.rev <= lister[v] /\ lister[v] <= api[v]
    BY <2>1, <1>i DEF Lag
  <2>3. snap.pods[v] # None => api[v] >= Bound
    BY <1>i DEF Nodes
  <2>4. v \in Managed /\ api[v] = Bound =>
          \/ handler.rev = Unbound /\ snap.pods[v] = None
          \/ handler.rev = Bound /\ Unbound \notin pend[v]
    BY <2>1, <1>i DEF Callback
  <2> QED BY <1>t, <1>a, <2>1, <2>2, <2>3, <2>4
<1>5. Cycles'
  BY <1>i, <1>c, <1>e, <1>4 DEF Cycles
<1>6. Coverage'
  <2>1. ASSUME NEW v \in Pod, MustCount(v)'
        PROVE  /\ MustCount(v) /\ snap'.pods[v] = snap.pods[v]
               /\ lister'[v] = lister[v] /\ lister[v] \in Revision /\ pend'[v] = pend[v]
               /\ resv'[v] # resv[v] =>
                    snap.pods[v] # None /\ lister[v] >= Bound /\ Unbound \notin pend[v]
    BY <2>1, <1>t, <1>c, <1>d, <1>4 DEF MustCount
  <2>2. ASSUME NEW v \in Pod, MustCount(v)'
        PROVE  /\ snap'.pods[v] # None \/ resv'[v] # None
               /\ lister'[v] < Bound \/ Unbound \in pend'[v] => resv'[v] # None
    <3>1. /\ MustCount(v) /\ snap'.pods[v] = snap.pods[v]
          /\ lister'[v] = lister[v] /\ lister[v] \in Revision /\ pend'[v] = pend[v]
          /\ resv'[v] # resv[v] =>
               snap.pods[v] # None /\ lister[v] >= Bound /\ Unbound \notin pend[v]
      BY <2>1, <2>2, ZenonT(60)
    <3>2. /\ snap.pods[v] # None \/ resv[v] # None
          /\ lister[v] < Bound \/ Unbound \in pend[v] => resv[v] # None
      BY <1>i, <3>1 DEF Coverage
    <3>3. lister[v] >= Bound => ~(lister[v] < Bound)
      BY <3>1
    <3>4. CASE resv'[v] = resv[v]
      BY <3>1, <3>2, <3>4, ZenonT(60)
    <3>5. CASE resv'[v] # resv[v]
      BY <3>1, <3>3, <3>5, ZenonT(60)
    <3> QED BY <3>4, <3>5
  <2> QED BY <2>2 DEF Coverage
<1>7. Lists'
  <2>1. ~ListHeld
    BY <1>i DEF OnPodEventEnd, Lists
  <2> QED BY <2>1, <1>d DEF Lists, ListHeld
<1>8. Callback'
  BY <1>b, NoneIsNoEntry, LifecycleConstants DEF Callback
<1>9. Expired'
  BY <1>i, <1>c, <1>d, <1>e DEF Expired
<1> QED BY <1>1, <1>2, <1>3, <1>5, <1>6, <1>7, <1>8, <1>9 DEF SeatParts

\* A new process starts with nothing to undercount.
LEMMA RestartKeeps ==
  ASSUME Prompt, SeatInv, TypeOK', Restart
  PROVE  SeatParts'
<1>1. UNCHANGED <<api, boundTo>>
  BY DEF Restart, clusterVars
<1>2. \A u \in Pod : api[u] \in Revision
  BY DEF SeatInv, TypeOK
<1>3. \A u \in Pod : /\ snap'.pods[u] = None /\ resv'[u] = None
                     /\ lister'[u] = Absent /\ pend'[u] = {}
                     /\ cycle'[u] = "queued" /\ u # None
  BY NoneIsNoEntry DEF Restart, emptySnapshot, noReservations
<1>4. ~synced' /\ initial' = {} /\ handler' = NoCallback /\ handler'.pod = None
  BY DEF Restart, NoCallback
<1>5. /\ janitor'.pc = "idle" /\ janitor'.cur = None
      /\ janitor'.expired = {} /\ janitor'.counts = {}
      /\ reconciler'.pc = "idle" /\ reconciler'.counts = {}
  BY DEF Restart, JanitorIdle, ReconcilerIdle
<1>6. \A u \in Pod : /\ boundTo[u] # NoNode => api[u] >= Bound
                     /\ api[u] = Bound => boundTo[u] # NoNode
  BY DEF SeatInv, SeatParts, Nodes
<1> HIDE DEF SeatInv, Restart, TypeOK
<1>7. Lag'
  <2>1. \A u \in Pod : Absent <= api'[u]
    BY <1>1, <1>2
  <2> QED BY <2>1, <1>3, <1>4 DEF Lag, NoCallback
<1>8. Nodes'
  BY <1>1, <1>3, <1>5, <1>6 DEF Nodes
<1>9. Refs'
  BY <1>3, <1>5 DEF Refs
<1>10. Cycles'
  BY <1>3, <1>4 DEF Cycles
<1>11. Initial' /\ Coverage'
  BY <1>4 DEF Initial, Coverage, MustCount
<1>12. Lists'
  BY <1>4, <1>5 DEF Lists, ListHeld, MustCount
<1>13. Callback'
  BY <1>3, <1>4, LifecycleConstants DEF Callback
<1>14. Expired' /\ Cursor'
  BY <1>3, <1>5 DEF Expired, Cursor
<1> QED BY <1>7, <1>8, <1>9, <1>10, <1>11, <1>12, <1>13, <1>14 DEF SeatParts
=============================================================================
