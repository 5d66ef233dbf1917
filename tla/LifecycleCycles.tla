-------------------------- MODULE LifecycleCycles ---------------------------
(***************************************************************************)
(* The scheduling and binding cycles and the TTL keep the seat invariant: one *)
(* lemma per action, one step per part it can disturb.                     *)
(***************************************************************************)
EXTENDS LifecycleInv, TLAPS

\* Backends of a leaf that names none, with their time in seconds.
USE SMTT(40), ZenonT(60)

USE DEF Absent, Unbound, Bound, Finished, Deleted, Revision

\* A step after which each pod has a reservation exactly if it had one, on the
\* same node and under the same keys.
SameSeats ==
  /\ snap' = snap
  /\ \A v \in Pod :
       /\ resv'[v] = None <=> resv[v] = None
       /\ resv[v] # None => /\ resv'[v].node = resv[v].node
                            /\ resv'[v].quota = resv[v].quota /\ resv'[v].sched = resv[v].sched

\* MarkBound and the passing of time change a reservation's phase and age only.
LEMMA MarkEffect ==
  ASSUME TypeOK, TypeOK', NEW u \in Pod, MarkBound(u) \/ Expire(u)
  PROVE  SameSeats
<1>1. CASE resv[u] = None
  BY <1>1 DEF MarkBound, Expire, SameSeats
<1>2. CASE resv[u] # None
  <2>1. resv[u] \in reservation /\ resv'[u] \in reservation \cup {None}
    BY <1>2 DEF TypeOK
  <2>2. PICK r \in {[resv[u] EXCEPT !.phase = "BoundObs"], [resv[u] EXCEPT !.old = TRUE]} :
          resv' = [resv EXCEPT ![u] = r] /\ snap' = snap
    BY <1>2 DEF TypeOK, MarkBound, Expire
  <2>3. r \in reservation /\ r.node = resv[u].node /\ r.quota = resv[u].quota /\ r.sched = resv[u].sched
    BY <2>1, ZenonT(60) DEF reservation
  <2> QED BY <1>2, <2>2, <2>3, NoneIsNoEntry DEF TypeOK, SameSeats
<1> QED BY <1>1, <1>2

\* PreFilter admits a pod to a scheduling cycle only when caches are warm.
LEMMA PreFilterKeeps ==
  ASSUME Prompt, SeatInv, TypeOK', NEW u \in Pod, PreFilter(u)
  PROVE  SeatParts'
<1> USE DEF stateVars, clusterVars, informerVars, cycleVars, loopVars
<1>0. TypeOK /\ CountersExact
  BY DEF SeatInv
<1>t. /\ api \in [Pod -> Revision]
      /\ lister \in [Pod -> Revision]
      /\ cycle \in [Pod -> {"queued", "scheduling", "binding", "landed", "bound"}]
  BY <1>0 DEF TypeOK
<1>1. Lag' /\ Nodes' /\ Refs' /\ Initial' /\ Coverage' /\ Lists' /\ Callback' /\ Cursor'
  <2>1. UNCHANGED <<api, lister, pend, handler, boundTo, snap, janitor, reconciler, resv, initial, synced>>
    BY DEF PreFilter
  <2>2. \A v \in Pod : v # u => cycle'[v] = cycle[v]
    BY <1>t DEF PreFilter
  <2>3. api[u] # Bound
    BY DEF SeatInv, SeatParts, Nodes, Cycles, PreFilter, Warm
  <2> QED BY <2>1, <2>2, <2>3, LifecycleConstants
             DEF SeatInv, SeatParts, Lag, Nodes, Refs, Initial, Coverage, Lists, Callback, Cursor,
                 NoCallback, eventRef, PodRefFor, emptyRef, MustCount, ListHeld
<1>2. Cycles'
  BY <1>t DEF SeatInv, SeatParts, Prompt, Lag, Cycles, PreFilter, Warm
<1>3. Expired'
  BY <1>t DEF SeatInv, SeatParts, Expired, PreFilter, Warm
<1> QED BY <1>1, <1>2, <1>3 DEF SeatParts

\* A cycle that finds no node changes no count.
LEMMA UnschedulableKeeps ==
  ASSUME Prompt, SeatInv, TypeOK', NEW u \in Pod, Unschedulable(u)
  PROVE  SeatParts'
<1> USE DEF stateVars, clusterVars, informerVars, cycleVars, loopVars
<1>0. TypeOK /\ CountersExact
  BY DEF SeatInv
<1>t. /\ api \in [Pod -> Revision]
      /\ lister \in [Pod -> Revision]
      /\ cycle \in [Pod -> {"queued", "scheduling", "binding", "landed", "bound"}]
  BY <1>0 DEF TypeOK
<1>1. Lag' /\ Nodes' /\ Refs' /\ Initial' /\ Coverage' /\ Lists' /\ Callback' /\ Cursor'
  <2>1. UNCHANGED <<api, lister, pend, handler, boundTo, snap, janitor, reconciler, resv, initial, synced>>
    BY DEF Unschedulable
  <2>2. \A v \in Pod : v # u => cycle'[v] = cycle[v]
    BY <1>t DEF Unschedulable
  <2>3. api[u] # Bound
    BY DEF SeatInv, SeatParts, Nodes, Cycles, Unschedulable
  <2> QED BY <2>1, <2>2, <2>3, LifecycleConstants
             DEF SeatInv, SeatParts, Lag, Nodes, Refs, Initial, Coverage, Lists, Callback, Cursor,
                 NoCallback, eventRef, PodRefFor, emptyRef, MustCount, ListHeld
<1>2. Cycles'
  BY <1>t DEF SeatInv, SeatParts, Cycles, Unschedulable
<1>3. Expired'
  BY <1>t DEF SeatInv, SeatParts, Expired, Unschedulable
<1> QED BY <1>1, <1>2, <1>3 DEF SeatParts

\* Reserve: the admitted pod has its reservation before its bind call exists.
LEMMA ReserveKeeps ==
  ASSUME Prompt, SeatInv, TypeOK',
         NEW u \in Pod, NEW domain \in Domains, NEW n \in Node, Reserve(u, n, domain)
  PROVE  SeatParts'
<1>0. TypeOK
  BY DEF SeatInv
<1>i. Lag /\ Nodes /\ Refs /\ Cycles /\ Initial /\ Coverage /\ Lists /\ Callback /\ Expired /\ Cursor
  BY DEF SeatInv, SeatParts
<1>t. /\ cycle \in [Pod -> {"queued", "scheduling", "binding", "landed", "bound"}]
      /\ target \in [Pod -> NodeName]
      /\ resv \in [Pod -> reservation \cup {None}]
  BY <1>0 DEF TypeOK
<1>a. UNCHANGED <<api, boundTo, synced, lister, pend, initial, handler>>
  BY DEF Reserve, clusterVars, informerVars
<1>b. UNCHANGED <<snap, janitor, reconciler>>
  BY DEF Reserve, TryReserveChecked, Unreserve, loopVars
<1>c. /\ cycle[u] = "scheduling"
      /\ u \in Managed /\ boundTo[u] = NoNode /\ api[u] # Bound /\ resv[u] = None
  BY <1>i DEF Reserve, Cycles, Nodes
<1>d. \A v \in Pod : v # u => cycle'[v] = cycle[v] /\ target'[v] = target[v] /\ resv'[v] = resv[v]
  BY <1>t DEF Reserve, TryReserveChecked, Unreserve
<1>e. resv'[u] # None => /\ cycle'[u] = "binding"
                         /\ resv'[u].quota = quotaOf[u] /\ resv'[u].sched = schedOf[u]
                         /\ resv'[u].phase = "Reserved" /\ ~resv'[u].old
  BY <1>t, <1>c DEF Reserve, TryReserveChecked, Unreserve, PodRefFor
<1>1. Lag' /\ Nodes' /\ Initial' /\ Callback' /\ Cursor'
  BY <1>i, <1>a, <1>b, <1>c, <1>d, LifecycleConstants DEF Lag, Nodes, Initial, Callback, Cursor
<1>2. Refs'
  <2>1. \A v \in Pod : eventRef(v)' = eventRef(v)
    BY <1>a DEF eventRef, PodRefFor, emptyRef
  <2> QED BY <1>i, <1>a, <1>b, <1>c, <1>d, <1>e, <2>1 DEF Refs
<1>3. Cycles'
  <2>1. CASE n \in domain /\ CanReserve(u, PodRefFor(u, n), domain)
    <3>1. cycle'[u] = "binding" /\ target'[u] = n
      BY <1>t, <2>1 DEF Reserve
    <3>2. resv'[u] = [quota |-> quotaOf[u], sched |-> schedOf[u], node |-> n,
                      phase |-> "Reserved", old |-> FALSE]
      BY <1>t, <2>1 DEF Reserve, TryReserveChecked, PodRefFor
    <3>3. resv'[u] # None
      <4>1. quotaOf[u] \in AnyQuotaKey /\ schedOf[u] \in AnySchedKey /\ n \in NodeName
        BY LifecycleConstants DEF NodeName, AnyQuotaKey, AnySchedKey
      <4>2. resv'[u] \in reservation
        BY <3>2, <4>1 DEF reservation
      <4> QED BY <4>2, NoneIsNoEntry
    <3>4. resv'[u].node = n
      BY <3>2
    <3> QED BY <1>i, <1>a, <1>c, <1>d, <1>e, <3>1, <3>3, <3>4 DEF Cycles
  <2>2. CASE ~(n \in domain /\ CanReserve(u, PodRefFor(u, n), domain))
    <3>1. cycle'[u] = "queued" /\ resv'[u] = None
      BY <1>t, <1>c, <2>2 DEF Reserve, Unreserve
    <3> QED BY <1>i, <1>a, <1>c, <1>d, <3>1 DEF Cycles
  <2> QED BY <2>1, <2>2
<1>4. Coverage'
  BY <1>i, <1>a, <1>b, <1>c, <1>d DEF Coverage, MustCount
<1>5. Lists'
  BY <1>i, <1>a, <1>b, <1>c, <1>d DEF Lists, MustCount, ListHeld
<1>6. Expired'
  BY <1>i, <1>a, <1>b, <1>c, <1>d, <1>e DEF Expired
<1> QED BY <1>1, <1>2, <1>3, <1>4, <1>5, <1>6 DEF SeatParts

\* A bind lands on the node of the pod's reservation.
LEMMA BindLandsKeeps ==
  ASSUME Prompt, SeatInv, TypeOK', NEW u \in Pod, BindLands(u)
  PROVE  SeatParts'
<1> USE DEF stateVars, clusterVars, informerVars, cycleVars, loopVars
<1>0. TypeOK /\ CountersExact
  BY DEF SeatInv
<1>t. /\ api \in [Pod -> Revision]
      /\ boundTo \in [Pod -> NodeName]
      /\ lister \in [Pod -> Revision]
      /\ cycle \in [Pod -> {"queued", "scheduling", "binding", "landed", "bound"}]
  BY <1>0 DEF TypeOK
<1>1. Cursor'
  <2>1. UNCHANGED <<janitor>>
    BY DEF BindLands
  <2> QED BY <2>1 DEF SeatInv, SeatParts, Cursor
<1>2. Lag'
  BY <1>t DEF SeatInv, SeatParts, Lag, BindLands
<1>3. Nodes'
  BY <1>t, EmptyNames DEF SeatInv, SeatParts, Lag, Cycles, Nodes, BindLands
<1>4. Refs'
  <2>1. snap.pods[u] = None /\ (resv[u] # None => resv[u].node = target[u])
    BY DEF SeatInv, SeatParts, Nodes, Cycles, BindLands
  <2>2. boundTo'[u] = target[u] /\ \A v \in Pod : v # u => boundTo'[v] = boundTo[v]
    BY <1>0 DEF TypeOK, BindLands
  <2>3. UNCHANGED <<snap, resv, janitor, reconciler>>
    BY DEF BindLands
  <2>4. \A v \in Pod : v # u => eventRef(v)' = eventRef(v)
    BY <2>2 DEF eventRef, PodRefFor, emptyRef
  <2> QED BY <2>1, <2>2, <2>3, <2>4 DEF SeatInv, SeatParts, Refs
<1>5. Cycles'
  BY <1>t, EmptyNames DEF SeatInv, SeatParts, Cycles, BindLands
<1>6. Initial'
  BY <1>t DEF SeatInv, SeatParts, Cycles, Initial, BindLands
<1>7. Coverage'
  BY <1>t DEF SeatInv, SeatParts, Lag, Cycles, Coverage, MustCount, BindLands
<1>8. Lists'
  BY <1>t DEF SeatInv, SeatParts, Cycles, Lists, MustCount, ListHeld, BindLands
<1>9. Callback'
  <2>1. /\ api[u] = Unbound /\ cycle[u] = "binding" /\ UNCHANGED <<pend, handler, snap>>
        /\ \A v \in Pod : v # u => api'[v] = api[v]
    BY <1>t DEF BindLands
  <2>2. snap.pods[u] = None
    BY <2>1 DEF SeatInv, SeatParts, Nodes, Cycles
  <2>3. handler \in [pod : Pod \cup {None}, rev : Revision]
    BY <1>0 DEF TypeOK
  <2>4. handler.pod = u => handler.rev = Unbound
    BY <1>t, <2>1, <2>3 DEF SeatInv, SeatParts, Lag
  <2> QED BY <2>1, <2>2, <2>4, LifecycleConstants DEF SeatInv, SeatParts, Callback
<1>10. Expired'
  BY <1>t DEF SeatInv, SeatParts, Expired, BindLands
<1> QED BY <1>1, <1>2, <1>3, <1>4, <1>5, <1>6, <1>7, <1>8, <1>9, <1>10 DEF SeatParts

\* PostBind only marks the reservation.
LEMMA PostBindKeeps ==
  ASSUME Prompt, SeatInv, TypeOK', NEW u \in Pod, PostBind(u)
  PROVE  SeatParts'
<1> USE DEF stateVars, clusterVars, informerVars, cycleVars, loopVars
<1>0. TypeOK /\ CountersExact
  BY DEF SeatInv
<1>t. /\ api \in [Pod -> Revision]
      /\ lister \in [Pod -> Revision]
      /\ cycle \in [Pod -> {"queued", "scheduling", "binding", "landed", "bound"}]
      /\ target \in [Pod -> NodeName]
      /\ resv \in [Pod -> reservation \cup {None}]
  BY <1>0 DEF TypeOK
<1>s. SameSeats
  BY <1>0, MarkEffect DEF PostBind
<1>1. Lag' /\ Nodes' /\ Initial' /\ Callback' /\ Cursor'
  <2>1. UNCHANGED <<api, lister, pend, handler, boundTo, snap, janitor, reconciler, initial>>
    BY DEF PostBind, MarkBound
  <2>2. \A v \in Pod : cycle'[v] = "queued" => cycle[v] = "queued"
    BY <1>t DEF PostBind
  <2> QED BY <2>1, <2>2, LifecycleConstants
             DEF SeatInv, SeatParts, Lag, Nodes, Initial, Callback, Cursor, NoCallback
<1>2. Refs'
  <2>2. UNCHANGED <<boundTo, janitor, reconciler>>
    BY DEF PostBind
  <2> QED BY <1>s, <2>2 DEF SeatInv, SeatParts, Refs, eventRef, PodRefFor, emptyRef, SameSeats
<1>3. Cycles'
  BY <1>t DEF SeatInv, SeatParts, Cycles, PostBind, MarkBound
<1>4. Coverage'
  BY <1>t, <1>s DEF SeatInv, SeatParts, Coverage, MustCount, PostBind, SameSeats
<1>5. Lists'
  BY <1>t, <1>s DEF SeatInv, SeatParts, Lists, MustCount, ListHeld, PostBind, SameSeats
<1>6. Expired'
  BY <1>t DEF SeatInv, SeatParts, Cycles, Expired, PostBind, MarkBound
<1> QED BY <1>1, <1>2, <1>3, <1>4, <1>5, <1>6 DEF SeatParts

\* A failed binding cycle releases a seat no pod uses.
LEMMA BindFailsKeeps ==
  ASSUME Prompt, SeatInv, TypeOK', NEW u \in Pod, BindFails(u)
  PROVE  SeatParts'
<1> USE DEF stateVars, clusterVars, informerVars, cycleVars, loopVars
<1>0. TypeOK /\ CountersExact
  BY DEF SeatInv
<1>t. /\ api \in [Pod -> Revision]
      /\ lister \in [Pod -> Revision]
      /\ cycle \in [Pod -> {"queued", "scheduling", "binding", "landed", "bound"}]
      /\ target \in [Pod -> NodeName]
      /\ resv \in [Pod -> reservation \cup {None}]
  BY <1>0 DEF TypeOK
<1>1. Lag' /\ Nodes' /\ Initial' /\ Callback' /\ Cursor'
  <2>1. UNCHANGED <<api, lister, pend, handler, boundTo, snap, janitor, reconciler, initial>>
    BY DEF BindFails, Unreserve
  <2>2. \A v \in Pod : v # u => cycle'[v] = cycle[v]
    BY <1>t DEF BindFails
  <2>3. api[u] # Bound
    BY DEF SeatInv, SeatParts, Prompt, Nodes, Cycles, BindFails
  <2> QED BY <2>1, <2>2, <2>3, LifecycleConstants
             DEF SeatInv, SeatParts, Lag, Nodes, Initial, Callback, Cursor, NoCallback
<1>2. Refs'
  BY <1>t
     DEF SeatInv, SeatParts, Prompt, Refs, eventRef, PodRefFor, emptyRef, BindFails, Unreserve
<1>3. Cycles'
  BY <1>t DEF SeatInv, SeatParts, Prompt, Cycles, BindFails, Unreserve
<1>4. Coverage'
  BY <1>t DEF SeatInv, SeatParts, Prompt, Nodes, Cycles, Coverage, MustCount, BindFails, Unreserve
<1>5. Lists'
  BY <1>t
     DEF SeatInv, SeatParts, Prompt, Nodes, Cycles, Lists, MustCount, ListHeld, BindFails,
         Unreserve
<1>6. Expired'
  BY <1>t DEF SeatInv, SeatParts, Prompt, Cycles, Expired, BindFails, Unreserve
<1> QED BY <1>1, <1>2, <1>3, <1>4, <1>5, <1>6 DEF SeatParts

\* A reservation that reaches its TTL is one whose binding the cache shows.
LEMMA TTLElapsesKeeps ==
  ASSUME Prompt, SeatInv, TypeOK', NEW u \in Pod, TTLElapses(u)
  PROVE  SeatParts'
<1> USE DEF stateVars, clusterVars, informerVars, cycleVars, loopVars
<1>0. TypeOK /\ CountersExact
  BY DEF SeatInv
<1>t. /\ api \in [Pod -> Revision]
      /\ lister \in [Pod -> Revision]
      /\ resv \in [Pod -> reservation \cup {None}]
  BY <1>0 DEF TypeOK
<1>s. SameSeats
  BY <1>0, MarkEffect DEF TTLElapses
<1>1. Lag' /\ Nodes' /\ Initial' /\ Callback' /\ Cursor'
  <2>1. UNCHANGED <<api, lister, pend, handler, boundTo, snap, janitor, reconciler, initial, cycle>>
    BY DEF TTLElapses, Expire
  <2> QED BY <2>1 DEF SeatInv, SeatParts, Lag, Nodes, Initial, Callback, Cursor, NoCallback
<1>2. Refs'
  BY <1>t, <1>s
     DEF SeatInv, SeatParts, Prompt, Refs, eventRef, PodRefFor, emptyRef, TTLElapses, SameSeats
<1>3. Cycles'
  BY <1>t DEF SeatInv, SeatParts, Prompt, Cycles, TTLElapses, Expire
<1>4. Coverage'
  BY <1>t, <1>s DEF SeatInv, SeatParts, Prompt, Coverage, MustCount, TTLElapses, SameSeats
<1>5. Lists'
  BY <1>t, <1>s DEF SeatInv, SeatParts, Prompt, Lists, MustCount, ListHeld, TTLElapses, SameSeats
<1>6. Expired'
  <2>1. \A v \in Pod : v # u => resv'[v] = resv[v]
    BY <1>t DEF TTLElapses, Expire
  <2>2. UNCHANGED <<api, lister, pend, cycle, janitor>>
    BY DEF TTLElapses
  <2>3. cycle \in [Pod -> {"queued", "scheduling", "binding", "landed", "bound"}]
    BY <1>0 DEF TypeOK
  <2>4. cycle[u] = "bound"
    <3>1. cycle[u] \in {"queued", "scheduling"} => resv[u] = None
      BY DEF SeatInv, SeatParts, Cycles
    <3>2. cycle[u] \notin {"binding", "landed"} /\ resv[u] # None
      BY DEF Prompt, TTLElapses, Expire
    <3> QED BY <2>3, <3>1, <3>2
  <2>5. api[u] = Bound => lister[u] = Bound /\ Unbound \notin pend[u]
    BY DEF Prompt, TTLElapses, Bound, Unbound
  <2>6. Expired
    BY DEF SeatInv, SeatParts
  <2> QED BY <2>1, <2>2, <2>4, <2>5, <2>6 DEF Expired
<1> QED BY <1>1, <1>2, <1>3, <1>4, <1>5, <1>6 DEF SeatParts
=============================================================================
