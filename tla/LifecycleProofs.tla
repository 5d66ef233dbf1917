-------------------------- MODULE LifecycleProofs --------------------------
(***************************************************************************)
(* What is proved of Lifecycle for every set of pods, nodes, services and  *)
(* domains, every policy and any number of restarts.                       *)
(***************************************************************************)
EXTENDS LifecycleTypes, LifecycleCycles, LifecycleLoops

\* Backends of a leaf that names none, with their time in seconds.
USE SMTT(40), ZenonT(60)

USE DEF Absent, Unbound, Bound, Finished, Deleted, Revision

-----------------------------------------------------------------------------
(* The code as it runs: the cap and the skew, relative to what is miscounted. *)

\* A seat is only ever taken by an admitted Reserve; every other step leaves
\* each pod's seat alone or gives it up.
LEMMA SeatMoves ==
  ASSUME OwnInv, [Next]_vars
  PROVE  \/ \A v \in Pod : seatOf(v)' = seatOf(v) \/ seatOf(v)' = NoNode
         \/ \E u \in Pod, domain \in Domains, n \in Node :
              /\ Admitted(u, n, domain) /\ seatOf(u) = NoNode /\ seatOf(u)' = n
              /\ \A v \in Pod : v # u => seatOf(v)' = seatOf(v)
<1> USE DEF stateVars, clusterVars, informerVars, cycleVars, loopVars
<1>t. /\ api \in [Pod -> Revision] /\ boundTo \in [Pod -> NodeName]
      /\ cycle \in [Pod -> {"queued", "scheduling", "binding", "landed", "bound"}]
      /\ target \in [Pod -> NodeName]
  BY DEF OwnInv, TypeOK
<1> DEFINE Kept == \A v \in Pod : seatOf(v)' = seatOf(v) \/ seatOf(v)' = NoNode
<1>1. ASSUME NEW u \in Pod, Cluster(u) PROVE Kept
  <2>1. \A v \in Managed : boundTo'[v] = boundTo[v] /\ (api'[v] = Bound => api[v] = Bound)
    BY <1>1, ClusterEffect DEF OwnInv
  <2>2. UNCHANGED <<cycle, target>>
    BY <1>1 DEF Cluster, CreatePod, FinishPod, DeletePod, ForeignBind
  <2>3. \A v \in Managed : api'[v] = Unbound => api[v] \in {Absent, Unbound}
    BY <1>1, <1>t, LifecycleConstants DEF Cluster, CreatePod, FinishPod, DeletePod, ForeignBind
  <2>4. \A v \in Managed : api[v] = Absent => cycle[v] = "queued"
    BY <1>t, LifecycleConstants DEF OwnInv, OwnParts, Begun
  <2> QED BY <2>1, <2>2, <2>3, <2>4 DEF seatOf
<1>2. ASSUME NEW u \in Pod, PreFilter(u) \/ Unschedulable(u) PROVE Kept
  BY <1>2, <1>t DEF PreFilter, Unschedulable, seatOf
<1>3. ASSUME NEW u \in Pod, BindLands(u) PROVE Kept
  BY <1>3, <1>t DEF BindLands, seatOf
<1>4. ASSUME NEW u \in Pod, PostBind(u) \/ BindFails(u) PROVE Kept
  BY <1>4, <1>t DEF PostBind, BindFails, seatOf
<1>5. ASSUME Restart PROVE Kept
  BY <1>5, <1>t DEF Restart, seatOf
<1>6. ASSUME UNCHANGED <<api, boundTo, cycle, target>> PROVE Kept
  BY <1>6 DEF seatOf
<1>7. ASSUME NEW u \in Pod, NEW domain \in Domains, NEW n \in Node, Reserve(u, n, domain)
      PROVE  \/ Kept
             \/ /\ Admitted(u, n, domain) /\ seatOf(u) = NoNode /\ seatOf(u)' = n
                /\ \A v \in Pod : v # u => seatOf(v)' = seatOf(v)
  <2>1. UNCHANGED <<api, boundTo>> /\ cycle[u] = "scheduling" /\ u \in Managed
    BY <1>7 DEF OwnInv, OwnParts, Begun, Reserve
  <2>2. \A v \in Pod : v # u => seatOf(v)' = seatOf(v)
    BY <1>7, <1>t DEF Reserve, seatOf
  <2>3. CASE api[u] = Unbound /\ cycle'[u] = "binding"
    <3>1. target'[u] = n
      BY <1>7, <1>t, <2>3 DEF Reserve
    <3>2. seatOf(u) = NoNode /\ seatOf(u)' = n
      BY <2>1, <2>3, <3>1 DEF seatOf
    <3> QED BY <1>7, <2>2, <2>3, <3>2 DEF Admitted
  <2>4. CASE ~(api[u] = Unbound /\ cycle'[u] = "binding")
    <3>1. seatOf(u)' = seatOf(u)
      BY <2>1, <2>4 DEF seatOf
    <3> QED BY <2>2, <3>1
  <2> QED BY <2>3, <2>4
<1>8. ASSUME NEW u \in Pod, Informer(u) \/ TTLElapses(u) PROVE UNCHANGED <<api, boundTo, cycle, target>>
  BY <1>8 DEF Informer, WatchEvent, OnPodEvent, StatusUpdate, TTLElapses
<1>9. ASSUME \/ InformerSync \/ OnPodEventEnd \/ Janitor \/ ReconcileList \/ ReconcileRebuild
             \/ UNCHANGED vars
      PROVE  UNCHANGED <<api, boundTo, cycle, target>>
  BY <1>9, ZenonT(60)
     DEF InformerSync, OnPodEventEnd, Janitor, JanitorScan, JanitorList, JanitorListFails,
         JanitorPick, JanitorRelease, JanitorRebuild, JanitorConfirm, JanitorDone, ReconcileList,
         ReconcileRebuild, vars
<1> HIDE DEF Kept
<1>10. Kept \/ \E u \in Pod, domain \in Domains, n \in Node :
                 /\ Admitted(u, n, domain) /\ seatOf(u) = NoNode /\ seatOf(u)' = n
                 /\ \A v \in Pod : v # u => seatOf(v)' = seatOf(v)
  BY <1>1, <1>2, <1>3, <1>4, <1>5, <1>6, <1>7, <1>8, <1>9 DEF Next, Scheduling
<1> QED BY <1>10 DEF Kept

\* The size of a union of sets of pods.
LEMMA UnionCount ==
  ASSUME NEW S \in SUBSET Pod, NEW T \in SUBSET Pod
  PROVE  /\ Cardinality(S) \in Nat /\ Cardinality(T) \in Nat
         /\ Cardinality(S \cup T) \in Nat /\ Cardinality(S \cap T) \in Nat
         /\ Cardinality(S \cup T) + Cardinality(S \cap T) = Cardinality(S) + Cardinality(T)
         /\ Cardinality(S \cup T) <= Cardinality(S) + Cardinality(T)
<1>1. IsFiniteSet(S) /\ IsFiniteSet(T) /\ IsFiniteSet(S \cap T) /\ IsFiniteSet(S \cup T)
  BY PodsAreFinite, FS_Subset
<1>2. Cardinality(S \cup T) = Cardinality(S) + Cardinality(T) - Cardinality(S \cap T)
  BY <1>1, FS_Union
<1>3. /\ Cardinality(S) \in Nat /\ Cardinality(T) \in Nat
      /\ Cardinality(S \cup T) \in Nat /\ Cardinality(S \cap T) \in Nat
  BY <1>1, FS_CardinalityType
<1> QED BY <1>2, <1>3

\* Counting each pod once never gives more than the effective count, which adds
\* the snapshot's counter and the overlay.
LEMMA SeatsWithinEffCount ==
  ASSUME CountersExact, NEW n \in Node, NEW q \in QuotaKey
  PROVE  EffQuota(n, q) \in Nat /\ Cardinality(Seats(n, q)) <= EffQuota(n, q)
<1>1. OnQuota(snap.pods, n, q) \in SUBSET Pod /\ OnQuota(resv, n, q) \in SUBSET Pod
  BY OnType
<1>2. IsFiniteSet(OnQuota(snap.pods, n, q)) /\ IsFiniteSet(OnQuota(resv, n, q))
  BY <1>1, PodsAreFinite, FS_Subset
<1>3. snap = SnapshotOf(snap.pods)
  BY DEF CountersExact
<1>4. snap.nodeQuota = [x \in NodeName \X AnyQuotaKey |-> Cardinality(OnQuota(snap.pods, x[1], x[2]))]
  BY <1>3 DEF SnapshotOf
<1>5. snap.nodeQuota[<<n, q>>] = Cardinality(OnQuota(snap.pods, n, q))
  BY <1>4 DEF NodeName, AnyQuotaKey
<1>6. Cardinality(OnQuota(snap.pods, n, q)) \in Nat /\ Cardinality(OnQuota(resv, n, q)) \in Nat
  BY <1>2, FS_CardinalityType
<1>7. Cardinality(Seats(n, q)) <= Cardinality(OnQuota(snap.pods, n, q)) + Cardinality(OnQuota(resv, n, q))
  BY <1>1, UnionCount, ZenonT(60) DEF Seats
<1> QED BY <1>5, <1>6, <1>7 DEF EffQuota

\* Reserve admits a pod only to a node whose pods of that service, less those
\* it does not count, are fewer than the cap.
LEMMA AdmittedNearCap ==
  ASSUME OwnInv, NEW u \in Pod, NEW domain \in Domains, NEW n \in Node, Admitted(u, n, domain)
  PROVE  LET q == quotaOf[u] IN
         Cardinality(Holders(n, q)) < MaxPodsPerNode[q] + Cardinality(Holders(n, q) \ Seats(n, q))
<1> DEFINE q == quotaOf[u]
           H == Holders(n, q)
           S == Seats(n, q)
<1>1. q \in QuotaKey /\ MaxPodsPerNode[q] \in Nat
  BY LifecycleConstants, PolicyValues
<1>2. CanReserve(u, PodRefFor(u, n), domain)
  <2>1. cycle \in [Pod -> {"queued", "scheduling", "binding", "landed", "bound"}]
    BY DEF OwnInv, TypeOK
  <2> QED BY <2>1 DEF Admitted, Reserve
<1>3. EffQuota(n, q) + 1 <= MaxPodsPerNode[q]
  BY <1>2 DEF CanReserve, Admit, PodRefFor
<1>4. H \in SUBSET Pod /\ S \in SUBSET Pod
  BY OnType DEF Holders, Seats
<1>5. EffQuota(n, q) \in Nat /\ Cardinality(S) <= EffQuota(n, q)
  BY <1>1, SeatsWithinEffCount DEF OwnInv
<1> HIDE DEF q, H, S
<1>6. Cardinality(H) <= Cardinality(S) + Cardinality(H \ S)
  <2>1. H \ S \in SUBSET Pod /\ H \subseteq S \cup (H \ S) /\ S \cup (H \ S) \in SUBSET Pod
    BY <1>4
  <2>2. Cardinality(H) <= Cardinality(S \cup (H \ S))
    BY <2>1, PodsAreFinite, FS_Subset
  <2>3. Cardinality(S \cup (H \ S)) <= Cardinality(S) + Cardinality(H \ S)
    BY <1>4, <2>1, UnionCount, ZenonT(60)
  <2>4. /\ Cardinality(H) \in Nat /\ Cardinality(S) \in Nat /\ Cardinality(H \ S) \in Nat
        /\ Cardinality(S \cup (H \ S)) \in Nat
    BY <1>4, <2>1, PodsAreFinite, FS_Subset, FS_CardinalityType
  <2> QED BY <2>2, <2>3, <2>4
<1>7. Cardinality(H) \in Nat /\ Cardinality(S) \in Nat /\ Cardinality(H \ S) \in Nat
  BY <1>4, PodsAreFinite, FS_Subset, FS_CardinalityType
<1>8. Cardinality(H) < MaxPodsPerNode[q] + Cardinality(H \ S)
  BY <1>1, <1>3, <1>5, <1>6, <1>7
<1> QED BY <1>8 DEF q, H, S

\* A step changes what runs on a node only by freeing seats, or by the one pod
\* that Reserve admits there.
LEMMA HoldersStep ==
  ASSUME OwnInv, [Next]_vars, NEW n \in Node, NEW q \in QuotaKey
  PROVE  \/ Cardinality(Holders(n, q)') <= Cardinality(Holders(n, q))
         \/ \E u \in Pod, domain \in Domains :
              /\ Admitted(u, n, domain) /\ quotaOf[u] = q
              /\ Cardinality(Holders(n, q)') = Cardinality(Holders(n, q)) + 1
<1>0. Holders(n, q) \in SUBSET Pod /\ Holders(n, q)' \in SUBSET Pod
  BY DEF Holders
<1>1. ASSUME Holders(n, q)' \subseteq Holders(n, q)
      PROVE  Cardinality(Holders(n, q)') <= Cardinality(Holders(n, q))
  BY <1>0, <1>1, PodsAreFinite, FS_Subset
<1>2. CASE \A v \in Pod : seatOf(v)' = seatOf(v) \/ seatOf(v)' = NoNode
  <2>1. Holders(n, q)' \subseteq Holders(n, q)
    BY <1>2, EmptyNames DEF Holders
  <2> QED BY <1>1, <2>1
<1>3. ASSUME NEW u \in Pod, NEW domain \in Domains, NEW m \in Node, Admitted(u, m, domain),
             seatOf(u)' = m, \A v \in Pod : v # u => seatOf(v)' = seatOf(v)
      PROVE  \/ Cardinality(Holders(n, q)') <= Cardinality(Holders(n, q))
             \/ /\ Admitted(u, n, domain) /\ quotaOf[u] = q
                /\ Cardinality(Holders(n, q)') = Cardinality(Holders(n, q)) + 1
  <2>1. CASE m = n /\ quotaOf[u] = q /\ u \notin Holders(n, q)
    <3>1. Holders(n, q)' = Holders(n, q) \cup {u}
      BY <1>3, <2>1 DEF Holders
    <3>2. Cardinality(Holders(n, q)') = Cardinality(Holders(n, q)) + 1
      BY <1>0, <2>1, <3>1, CountChange
    <3> QED BY <1>3, <2>1, <3>2
  <2>2. CASE ~(m = n /\ quotaOf[u] = q) \/ u \in Holders(n, q)
    <3>1. Holders(n, q)' \subseteq Holders(n, q)
      BY <1>3, <2>2 DEF Holders
    <3> QED BY <1>1, <3>1
  <2> QED BY <2>1, <2>2
<1> QED BY <1>2, <1>3, SeatMoves

\* A node that gains a pod of a service is above the cap afterwards only by as
\* many of the pods it ran as the state machine did not count.
LEMMA GrowthIsBounded ==
  ASSUME OwnInv, [Next]_vars, NEW n \in Node, NEW q \in QuotaKey
  PROVE  GrowsPastCapBy(n, q, Holders(n, q) \ Seats(n, q))
<1> DEFINE H == Holders(n, q)
           U == Holders(n, q) \ Seats(n, q)
<1> SUFFICES ASSUME Cardinality(H') > Cardinality(H)
             PROVE  Cardinality(H') <= MaxPodsPerNode[q] + Cardinality(U)
  BY DEF GrowsPastCapBy
<1>1. H \in SUBSET Pod /\ H' \in SUBSET Pod /\ U \in SUBSET Pod
  BY DEF Holders
<1>2. Cardinality(H) \in Nat /\ Cardinality(H') \in Nat /\ Cardinality(U) \in Nat
  BY <1>1, PodsAreFinite, FS_Subset, FS_CardinalityType
<1>3. MaxPodsPerNode[q] \in Nat
  BY PolicyValues
<1>4. PICK u \in Pod, domain \in Domains : /\ Admitted(u, n, domain) /\ quotaOf[u] = q
                                           /\ Cardinality(H') = Cardinality(H) + 1
  BY <1>2, HoldersStep
<1>5. Cardinality(H) < MaxPodsPerNode[q] + Cardinality(U)
  BY <1>4, AdmittedNearCap, ZenonT(60)
<1> HIDE DEF H, U
<1> QED BY <1>2, <1>3, <1>4, <1>5

\* The code as it runs, with none of the timing assumptions, exceeds the cap by
\* no more than it undercounts: what Reserve does not see is the only way past
\* maxPodsPerNode, and each pod it does not see lets in one pod at most.
THEOREM CapIsHardUpToUndercount == Spec => CapUpToUndercount
<1>1. OwnInv /\ [Next]_vars => OwnInv'
  BY OwnInvStep
<1>2. OwnInv /\ [Next]_vars =>
        [\A n \in Node, q \in QuotaKey : GrowsPastCapBy(n, q, Holders(n, q) \ Seats(n, q))]_vars
  BY GrowthIsBounded
<1> QED BY OwnInvInit, <1>1, <1>2, PTL DEF Spec, CapUpToUndercount

\* An overcount of a domain node is the only thing that lets Reserve exceed
\* maxSkew, and by no more than the overcount: this needs exact counters only.
THEOREM SkewUpToOvercount == Spec => ReserveKeepsSkewUpToOvercount
<1>1. ASSUME TypeOK, CountersExact, NEW u \in Pod, NEW domain \in Domains, NEW n \in Node,
             Admitted(u, n, domain), NEW m \in domain
      PROVE  NewSkew(u, n, m) <= MaxSkew[quotaOf[u]] + Cardinality(CountedTwice(m, schedOf[u]))
  <2> DEFINE k == schedOf[u]
             A(x) == OnSched(snap.pods, x, k)
             B(x) == OnSched(resv, x, k)
  <2>1. m \in Node /\ k \in SchedKey /\ quotaOf[u] \in QuotaKey
    BY LifecycleConstants
  <2>2. CanReserve(u, PodRefFor(u, n), domain)
    <3>1. cycle \in [Pod -> {"queued", "scheduling", "binding", "landed", "bound"}]
      BY <1>1 DEF TypeOK
    <3> QED BY <1>1, <3>1 DEF Admitted, Reserve
  <2>3. EffDomain(n, k) + 1 - EffDomain(m, k) <= MaxSkew[quotaOf[u]]
    BY <2>2 DEF CanReserve, Admit, PodRefFor
  <2>4. ASSUME NEW x \in Node PROVE EffDomain(x, k) = Cardinality(A(x)) + Cardinality(B(x))
    <3>1. snap.nodeDomain = [y \in NodeName \X AnySchedKey |-> Cardinality(OnSched(snap.pods, y[1], y[2]))]
      BY <1>1 DEF CountersExact, SnapshotOf
    <3>2. snap.nodeDomain[<<x, k>>] = Cardinality(A(x))
      BY <2>1, <3>1 DEF NodeName, AnySchedKey
    <3> QED BY <3>2 DEF EffDomain
  <2>5. ASSUME NEW x \in Node PROVE A(x) \in SUBSET Pod /\ B(x) \in SUBSET Pod
    BY OnType
  <2>6. MaxSkew[quotaOf[u]] \in Nat
    BY <2>1, PolicyValues
  <2>7. /\ SchedSeats(n, k) = A(n) \cup B(n) /\ SchedSeats(m, k) = A(m) \cup B(m)
        /\ CountedTwice(m, k) = A(m) \cap B(m)
    BY DEF SchedSeats, CountedTwice
  <2> HIDE DEF k, A, B
  <2>8. /\ Cardinality(SchedSeats(n, k)) <= EffDomain(n, k)
        /\ Cardinality(SchedSeats(n, k)) \in Nat /\ EffDomain(n, k) \in Nat
    <3>1. A(n) \in SUBSET Pod /\ B(n) \in SUBSET Pod
      BY <2>5
    <3>2. /\ Cardinality(A(n) \cup B(n)) <= Cardinality(A(n)) + Cardinality(B(n))
          /\ Cardinality(A(n)) \in Nat /\ Cardinality(B(n)) \in Nat
          /\ Cardinality(A(n) \cup B(n)) \in Nat
      BY <3>1, UnionCount, ZenonT(60)
    <3> QED BY <2>4, <2>7, <3>2
  <2>9. /\ EffDomain(m, k) = Cardinality(SchedSeats(m, k)) + Cardinality(CountedTwice(m, k))
        /\ Cardinality(SchedSeats(m, k)) \in Nat /\ Cardinality(CountedTwice(m, k)) \in Nat
    BY <2>1, <2>4, <2>5, <2>7, UnionCount
  <2>10. Cardinality(SchedSeats(n, k)) + 1 - Cardinality(SchedSeats(m, k))
           <= MaxSkew[quotaOf[u]] + Cardinality(CountedTwice(m, k))
    BY <2>3, <2>6, <2>8, <2>9
  <2> QED BY <2>10 DEF NewSkew, k
<1>2. TypeOK /\ CountersExact /\ [Next]_vars =>
        [\A u \in Pod, domain \in Domains, n \in Node :
           Admitted(u, n, domain) =>
             \A m \in domain : NewSkew(u, n, m)
               <= MaxSkew[quotaOf[u]] + Cardinality(CountedTwice(m, schedOf[u]))]_vars
  BY <1>1
<1> QED BY TypeCorrect, CountersStayExact, <1>2, PTL DEF Spec, ReserveKeepsSkewUpToOvercount

-----------------------------------------------------------------------------
(* The janitor, under the TTL.                                             *)

\* Steps that leave the janitor and its pods' cycles alone keep Aged: the
\* revisions of a pod move forward only, and reservations are dropped.
LEMMA AgedKept ==
  ASSUME AgedInv, UNCHANGED janitor,
         \A v \in Pod : /\ cycle[v] = "bound" => cycle'[v] = "bound"
                        /\ lister[v] >= Bound => lister'[v] >= Bound
                        /\ api'[v] = Bound => api[v] = Bound \/ cycle[v] # "bound"
                        /\ resv'[v] # None /\ resv'[v].old => resv[v] # None /\ resv[v].old
  PROVE  Aged' /\ Cursor'
BY DEF AgedInv, Aged, Cursor

\* The TTL elapses for a bound pod whose binding the cache shows.
LEMMA TTLElapsesAges ==
  ASSUME TTLCoversLag, AgedInv, NEW u \in Pod, TTLElapses(u)
  PROVE  Aged' /\ Cursor'
<1> USE DEF stateVars, clusterVars, informerVars, cycleVars, loopVars
<1>t. /\ resv \in [Pod -> reservation \cup {None}] /\ api \in [Pod -> Revision]
  BY DEF AgedInv, OwnInv, TypeOK
<1>1. /\ cycle[u] \notin {"binding", "landed"} /\ lister[u] = api[u] /\ resv[u] # None
      /\ UNCHANGED <<api, lister, cycle, janitor>>
      /\ resv' = [resv EXCEPT ![u].old = TRUE]
  BY DEF TTLElapses, Expire
<1>2. cycle[u] = "bound" /\ lister[u] >= Bound
  BY <1>1 DEF AgedInv, OwnInv, OwnParts, Begun, ReservationsOwned
<1>3. \A v \in Pod : v # u => resv'[v] = resv[v]
  BY <1>1, <1>t
<1> QED BY <1>1, <1>2, <1>3 DEF AgedInv, Aged, Cursor

\* The scan takes the reservations past their TTL, the list every running pod
\* among them, and the loop releases unverified only what the list lacks.
LEMMA JanitorAges ==
  ASSUME AgedInv, Janitor
  PROVE  Aged' /\ Cursor'
<1> USE DEF stateVars, clusterVars, informerVars, cycleVars, loopVars
<1>t. /\ resv \in [Pod -> reservation \cup {None}] /\ api \in [Pod -> Revision]
      /\ lister \in [Pod -> Revision]
      /\ janitor \in [pc : {"idle", "scanned", "loop", "release", "rebuild", "confirm"},
                      expired : SUBSET Pod, counts : SUBSET Pod, cur : Pod \cup {None}]
  BY DEF AgedInv, OwnInv, TypeOK
<1>0. Aged /\ Cursor
  BY DEF AgedInv
<1>a. \A v \in Pod : cycle[v] = "bound" => v \in Managed /\ lister[v] <= api[v]
  BY DEF AgedInv, OwnInv, OwnParts, Begun
<1>1. CASE JanitorScan
  <2>1. /\ janitor' = [pc |-> "scanned", expired |-> {v \in Pod : resv[v] # None /\ resv[v].old},
                       counts |-> {}, cur |-> None]
        /\ UNCHANGED <<resv, api, lister, cycle>>
    BY <1>1 DEF JanitorScan, JanitorIdle
  <2> QED BY <1>0, <2>1, NoneIsNoEntry DEF Aged, Cursor
<1>2. CASE JanitorList
  <2>1. /\ janitor.pc = "scanned" /\ UNCHANGED <<resv, api, lister, cycle>>
        /\ janitor'.pc = "loop" /\ janitor'.expired = janitor.expired /\ janitor'.cur = janitor.cur
        /\ janitor'.counts = {v \in Managed : lister[v] = Bound}
    BY <1>2, <1>t DEF JanitorList, ListCountable, countablePod
  <2>2. \A v \in Pod : cycle[v] = "bound" /\ lister[v] >= Bound /\ api[v] = Bound => v \in janitor'.counts
    BY <1>a, <1>t, <2>1
  <2> QED BY <1>0, <2>1, <2>2 DEF Aged, Cursor
<1>3. CASE JanitorListFails \/ JanitorDone
  <2>1. UNCHANGED <<resv, api, lister, cycle>> /\ janitor' = JanitorIdle
    BY <1>3 DEF JanitorListFails, JanitorDone
  <2> QED BY <1>0, <2>1, NoneIsNoEntry DEF Aged, Cursor, JanitorIdle
<1>4. ASSUME NEW u \in Pod, JanitorPick(u) PROVE Aged' /\ Cursor'
  <2>1. /\ UNCHANGED <<resv, api, lister, cycle>> /\ janitor.pc = "loop" /\ u \in janitor.expired
        /\ janitor'.expired = janitor.expired \ {u} /\ janitor'.counts = janitor.counts
        /\ janitor'.cur = IF resv[u] = None THEN None ELSE u
    BY <1>4, <1>t DEF JanitorPick
  <2>2. /\ resv[u] = None => janitor'.pc = "loop"
        /\ resv[u] # None /\ u \in janitor.counts /\ boundTo[u] = resv[u].node => janitor'.pc = "rebuild"
        /\ resv[u] # None /\ ~(u \in janitor.counts /\ boundTo[u] = resv[u].node) => janitor'.pc = "release"
    BY <1>4, <1>t DEF JanitorPick
  <2>3. cycle[u] = "bound" /\ (api[u] = Bound => u \in janitor.counts)
    BY <1>0, <2>1 DEF Aged
  <2>4. resv[u] # None => boundTo[u] = resv[u].node
    BY <2>3 DEF AgedInv, OwnInv, OwnParts, ReservationsOwned
  <2>5. Cursor'
    BY <2>1, <2>2, NoneIsNoEntry DEF Cursor
  <2>6. Aged'
    <3> SUFFICES ASSUME NEW v \in Pod,
                        (resv[v] # None /\ resv[v].old) \/ v \in janitor'.expired \/ v = janitor'.cur
                 PROVE  /\ cycle[v] = "bound" /\ lister[v] >= Bound
                        /\ (v \in janitor'.expired \/ v = janitor'.cur) /\ api[v] = Bound => v \in janitor.counts
                        /\ v = janitor'.cur /\ janitor'.pc = "release" => api[v] # Bound
      BY <2>1 DEF Aged
    <3>1. (resv[v] # None /\ resv[v].old) \/ v \in janitor.expired
      BY <2>1, NoneIsNoEntry
    <3>2. v \in janitor'.expired \/ v = janitor'.cur => v \in janitor.expired
      BY <2>1, NoneIsNoEntry
    <3>3. v = janitor'.cur => v = u /\ resv[u] # None
      BY <2>1, NoneIsNoEntry
    <3> QED BY <1>0, <2>1, <2>2, <2>3, <2>4, <3>1, <3>2, <3>3 DEF Aged
  <2> QED BY <2>5, <2>6
<1>5. CASE JanitorRelease \/ JanitorConfirm
  <2>1. /\ UNCHANGED <<api, lister, cycle>>
        /\ janitor.pc \in {"release", "confirm"}
        /\ janitor'.pc = "loop" /\ janitor'.expired = janitor.expired
        /\ janitor'.counts = janitor.counts /\ janitor'.cur = None
    BY <1>5, <1>t DEF JanitorRelease, JanitorConfirm
  <2>2. \A v \in Pod : resv'[v] = resv[v] \/ resv'[v] = None
    BY <1>5, <1>t DEF JanitorRelease, JanitorConfirm, releaseUnverified, releaseIfObserved
  <2> QED BY <1>0, <2>1, <2>2, NoneIsNoEntry DEF Aged, Cursor
<1>6. CASE JanitorRebuild
  <2>1. /\ UNCHANGED <<resv, api, lister, cycle>> /\ janitor.pc = "rebuild"
        /\ janitor'.pc = "confirm" /\ janitor'.expired = janitor.expired
        /\ janitor'.counts = janitor.counts /\ janitor'.cur = janitor.cur
    BY <1>6, <1>t DEF JanitorRebuild, rebuild
  <2> QED BY <1>0, <2>1 DEF Aged, Cursor
<1> QED BY <1>1, <1>2, <1>3, <1>4, <1>5, <1>6 DEF Janitor

\* Every step keeps what the TTL gives the janitor.
LEMMA AgedInvStep ==
  ASSUME TTLCoversLag, AgedInv, [Next]_vars
  PROVE  AgedInv'
<1> USE DEF stateVars, clusterVars, informerVars, cycleVars, loopVars
<1>0. OwnInv'
  BY OwnInvStep DEF AgedInv
<1>t. /\ resv \in [Pod -> reservation \cup {None}] /\ api \in [Pod -> Revision]
      /\ lister \in [Pod -> Revision] /\ handler \in [pod : Pod \cup {None}, rev : Revision]
      /\ cycle \in [Pod -> {"queued", "scheduling", "binding", "landed", "bound"}]
  BY DEF AgedInv, OwnInv, TypeOK
<1>b. \A v \in Pod : /\ cycle[v] = "bound" => synced /\ api[v] >= Bound
                     /\ resv[v] # None => resv[v] \in reservation
  BY <1>t DEF AgedInv, OwnInv, OwnParts, Begun, Warm
<1> SUFFICES Aged' /\ Cursor'
  BY <1>0 DEF AgedInv
<1>1. ASSUME NEW u \in Pod, Cluster(u) PROVE Aged' /\ Cursor'
  <2>1. UNCHANGED <<janitor, resv, lister, cycle>>
    BY <1>1 DEF Cluster, CreatePod, FinishPod, DeletePod, ForeignBind
  <2>2. \A v \in Pod : api'[v] = Bound => api[v] = Bound \/ cycle[v] # "bound"
    BY <1>1, <1>b, <1>t DEF Cluster, CreatePod, FinishPod, DeletePod, ForeignBind
  <2> QED BY <2>1, <2>2, AgedKept
<1>2. ASSUME NEW u \in Pod, Informer(u) PROVE Aged' /\ Cursor'
  <2>1. UNCHANGED <<janitor, resv, api, cycle>>
    BY <1>2 DEF Informer, WatchEvent, OnPodEvent, StatusUpdate, upsertCount, removeCount
  <2>2. \A v \in Pod : lister[v] >= Bound => lister'[v] >= Bound
    BY <1>2, <1>t DEF Informer, WatchEvent, OnPodEvent, StatusUpdate
  <2> QED BY <2>1, <2>2, AgedKept
<1>3. ASSUME NEW u \in Pod, PreFilter(u) \/ Unschedulable(u) PROVE Aged' /\ Cursor'
  <2>1. UNCHANGED <<janitor, resv, api, lister>> /\ \A v \in Pod : cycle[v] = "bound" => cycle'[v] = "bound"
    BY <1>3, <1>t DEF PreFilter, Unschedulable
  <2> QED BY <2>1, AgedKept
<1>4. ASSUME NEW u \in Pod, NEW domain \in Domains, NEW n \in Node, Reserve(u, n, domain)
      PROVE  Aged' /\ Cursor'
  <2>1. UNCHANGED <<janitor, api, lister>> /\ \A v \in Pod : cycle[v] = "bound" => cycle'[v] = "bound"
    BY <1>4, <1>t DEF Reserve
  <2>2. \A v \in Pod : resv'[v] # None /\ resv'[v].old => resv[v] # None /\ resv[v].old
    BY <1>4, <1>t DEF Reserve, TryReserveChecked, Unreserve
  <2> QED BY <2>1, <2>2, AgedKept
<1>5. ASSUME NEW u \in Pod, BindLands(u) PROVE Aged' /\ Cursor'
  <2>1. UNCHANGED <<janitor, resv, lister>> /\ cycle[u] = "binding"
        /\ \A v \in Pod : v # u => cycle'[v] = cycle[v] /\ api'[v] = api[v]
    BY <1>5, <1>t DEF BindLands
  <2> QED BY <2>1, AgedKept
<1>6. ASSUME NEW u \in Pod, PostBind(u) \/ BindFails(u) PROVE Aged' /\ Cursor'
  <2>1. UNCHANGED <<janitor, api, lister>> /\ \A v \in Pod : cycle[v] = "bound" => cycle'[v] = "bound"
    BY <1>6, <1>t DEF PostBind, BindFails
  <2>2. \A v \in Pod : resv'[v] # None /\ resv'[v].old => resv[v] # None /\ resv[v].old
    BY <1>6, <1>b, <1>t DEF PostBind, BindFails, MarkBound, Unreserve, reservation
  <2> QED BY <2>1, <2>2, AgedKept
<1>7. ASSUME InformerSync PROVE Aged' /\ Cursor'
  <2>1. UNCHANGED <<janitor, resv, api, cycle>> /\ ~synced
    BY <1>7 DEF InformerSync
  <2>2. \A v \in Pod : cycle[v] # "bound"
    BY <1>b, <2>1
  <2> QED BY <2>1, <2>2 DEF AgedInv, Aged, Cursor
<1>8. ASSUME OnPodEventEnd PROVE Aged' /\ Cursor'
  <2>1. UNCHANGED <<janitor, api, lister, cycle>>
    BY <1>8 DEF OnPodEventEnd
  <2>2. \A v \in Pod : resv'[v] = resv[v] \/ resv'[v] = None
    BY <1>8, <1>t DEF OnPodEventEnd, releaseUnverified, releaseIfObserved
  <2> QED BY <2>1, <2>2, AgedKept
<1>9. ASSUME ReconcileList \/ ReconcileRebuild \/ UNCHANGED vars PROVE Aged' /\ Cursor'
  <2>1. UNCHANGED <<janitor, resv, api, lister, cycle>>
    BY <1>9 DEF ReconcileList, ReconcileRebuild, rebuild, vars
  <2> QED BY <2>1, AgedKept
<1>10. ASSUME Restart PROVE Aged' /\ Cursor'
  BY <1>10, NoneIsNoEntry DEF Aged, Cursor, Restart, JanitorIdle, noReservations
<1> QED BY <1>1, <1>2, <1>3, <1>4, <1>5, <1>6, <1>7, <1>8, <1>9, <1>10, TTLElapsesAges, JanitorAges
        DEF Next, Scheduling, AgedInv

\* A TTL that outlasts the binding cycle and the informer's lag makes the
\* janitor safe, whatever the callbacks, the reconciler, the bind errors and a
\* start do: what it releases unverified is never a running pod's seat.
THEOREM JanitorIsSafe == ASSUME TTLCoversLag PROVE Spec => JanitorSparesBound
<1>1. Init => AgedInv
  <2>1. Init => OwnInv
    BY OwnInvInit
  <2>2. Init => Aged /\ Cursor
    BY NoneIsNoEntry DEF Init, Aged, Cursor, JanitorIdle, noReservations
  <2> QED BY <2>1, <2>2 DEF AgedInv
<1>2. AgedInv /\ [Next]_vars => AgedInv'
  BY AgedInvStep
<1>3. AgedInv /\ [Next]_vars =>
        [JanitorRelease => LET u == janitor.cur IN
           resv[u] # None => ~(api[u] = Bound /\ boundTo[u] = resv[u].node)]_vars
  <2> SUFFICES ASSUME AgedInv, JanitorRelease PROVE api[janitor.cur] # Bound
    OBVIOUS
  <2>1. janitor.pc = "release" /\ janitor.cur \in Pod
    BY DEF AgedInv, OwnInv, TypeOK, Cursor, JanitorRelease
  <2> QED BY <2>1 DEF AgedInv, Aged
<1> QED BY <1>1, <1>2, <1>3, PTL DEF Spec, JanitorSparesBound

-----------------------------------------------------------------------------
(* The seat invariant, for a running process that meets its assumptions.   *)

\* The seat invariant holds in the initial state: no pod runs yet.
LEMMA SeatInvInit == Init => SeatInv
<1> SUFFICES ASSUME Init PROVE SeatInv
  OBVIOUS
<1>1. TypeOK /\ CountersExact
  BY InitType
<1>2. /\ api = [u \in Pod |-> Absent] /\ lister = [u \in Pod |-> Absent]
      /\ pend = [u \in Pod |-> {}] /\ initial = {} /\ handler = NoCallback
  BY DEF Init
<1>3. /\ boundTo = [u \in Pod |-> NoNode] /\ synced = FALSE
      /\ cycle = [u \in Pod |-> "queued"]
  BY DEF Init
<1>4. /\ snap.pods = [u \in Pod |-> None] /\ resv = [u \in Pod |-> None]
      /\ janitor = JanitorIdle /\ reconciler = ReconcilerIdle
  BY DEF Init, emptySnapshot, noReservations, SnapshotOf
<1>5. Lag
  BY <1>2, NoneIsNoEntry DEF Lag, NoCallback
<1>6. Nodes
  BY <1>2, <1>3, <1>4 DEF Nodes, JanitorIdle, ReconcilerIdle
<1>7. Refs
  BY <1>4 DEF Refs, JanitorIdle, ReconcilerIdle
<1>8. Cycles
  BY <1>3, <1>4 DEF Cycles
<1>9. Initial /\ Coverage
  BY <1>2, <1>3 DEF Initial, Coverage, MustCount
<1>10. Lists
  BY <1>2, <1>3, <1>4 DEF Lists, ListHeld, MustCount, JanitorIdle, ReconcilerIdle
<1>11. Callback
  BY <1>2, NoneIsNoEntry, LifecycleConstants DEF Callback, NoCallback
<1>12. Expired /\ Cursor
  BY <1>4, NoneIsNoEntry DEF Expired, Cursor, JanitorIdle
<1> QED BY <1>1, <1>5, <1>6, <1>7, <1>8, <1>9, <1>10, <1>11, <1>12 DEF SeatInv, SeatParts

\* A step that changes nothing keeps the seat invariant.
LEMMA StutterKeeps ==
  ASSUME SeatParts, UNCHANGED vars
  PROVE  SeatParts'
<1> USE DEF vars, stateVars, clusterVars, informerVars, cycleVars, loopVars
<1>1. Lag' /\ Nodes'
  BY DEF SeatParts, Lag, Nodes, NoCallback
<1>2. Refs' /\ Cycles'
  BY DEF SeatParts, Refs, Cycles, eventRef, PodRefFor, emptyRef
<1>3. Initial' /\ Coverage' /\ Lists'
  BY DEF SeatParts, Initial, Coverage, Lists, ListHeld, MustCount, NoCallback
<1>4. Callback' /\ Expired' /\ Cursor'
  BY DEF SeatParts, Callback, Expired, Cursor
<1> QED BY <1>1, <1>2, <1>3, <1>4 DEF SeatParts

\* Every step keeps the seat invariant.
LEMMA SeatInvStep ==
  ASSUME Prompt, SeatInv, [Next]_vars
  PROVE  SeatInv'
<1>0. TypeOK' /\ CountersExact'
  BY TypeStep DEF SeatInv
<1> SUFFICES SeatParts'
  BY <1>0 DEF SeatInv
<1>1. ASSUME NEW u \in Pod, Cluster(u) PROVE SeatParts'
  BY <1>0, <1>1, ClusterKeeps
<1>2. ASSUME NEW u \in Pod, Informer(u) PROVE SeatParts'
  BY <1>0, <1>2, WatchEventKeeps, OnPodEventKeeps, StatusUpdateKeeps DEF Informer
<1>3. ASSUME NEW u \in Pod, Scheduling(u) PROVE SeatParts'
  BY <1>0, <1>3, PreFilterKeeps, UnschedulableKeeps, ReserveKeeps, BindLandsKeeps, PostBindKeeps,
     BindFailsKeeps DEF Scheduling
<1>4. ASSUME NEW u \in Pod, TTLElapses(u) PROVE SeatParts'
  BY <1>0, <1>4, TTLElapsesKeeps
<1>5. CASE InformerSync \/ OnPodEventEnd \/ Restart
  BY <1>0, <1>5, InformerSyncKeeps, OnPodEventEndKeeps, RestartKeeps
<1>6. CASE Janitor
  BY <1>0, <1>6, JanitorScanKeeps, JanitorListKeeps, JanitorStopKeeps, JanitorPickKeeps,
     JanitorReleaseKeeps, JanitorRebuildKeeps, JanitorConfirmKeeps DEF Janitor
<1>7. CASE ReconcileList \/ ReconcileRebuild
  BY <1>0, <1>7, ReconcileListKeeps, ReconcileRebuildKeeps
<1>8. CASE UNCHANGED vars
  BY <1>8, StutterKeeps DEF SeatInv
<1> QED BY <1>1, <1>2, <1>3, <1>4, <1>5, <1>6, <1>7, <1>8 DEF Next

\* When the timing assumptions on a running process are met, the seat invariant is inductive.
THEOREM SeatInvariant == ASSUME Prompt PROVE Spec => []SeatInv
<1>1. SeatInv /\ [Next]_vars => SeatInv'
  BY SeatInvStep
<1> QED BY SeatInvInit, <1>1, PTL DEF Spec

\* Once the initial list has been handled, a pod that takes up a seat is
\* counted: a bound pod by Coverage, a bind in flight by its reservation.
LEMMA HoldersAreCounted ==
  ASSUME SeatInv, synced, NEW n \in Node, NEW q \in QuotaKey
  PROVE  Holders(n, q) \ initial \subseteq Seats(n, q)
<1> SUFFICES ASSUME NEW u \in Holders(n, q), u \notin initial PROVE u \in Seats(n, q)
  OBVIOUS
<1>1. u \in Pod /\ quotaOf[u] = q /\ seatOf(u) = n /\ n # NoNode
  BY EmptyNames DEF Holders
<1>2. CASE u \in Managed /\ api[u] = Bound
  <2>1. boundTo[u] = n
    BY <1>1, <1>2 DEF seatOf
  <2>2. snap.pods[u] # None \/ resv[u] # None
    BY <1>1, <1>2 DEF SeatInv, SeatParts, Coverage, MustCount
  <2>3. CASE snap.pods[u] # None
    <3>1. snap.pods[u] = PodRefFor(u, n)
      BY <1>1, <1>2, <2>1, <2>3 DEF SeatInv, SeatParts, Refs, eventRef
    <3>2. snap.pods[u].quota = q /\ snap.pods[u].node = n
      <4>1. PodRefFor(u, n).quota = quotaOf[u] /\ PodRefFor(u, n).node = n
        BY DEF PodRefFor
      <4> QED BY <1>1, <3>1, <4>1, ZenonT(60)
    <3> QED BY <1>1, <2>3, <3>2 DEF Seats, OnQuota
  <2>4. CASE resv[u] # None
    <3>1. resv[u].quota = q /\ resv[u].node = n
      BY <1>1, <2>1, <2>4 DEF SeatInv, SeatParts, Refs
    <3> QED BY <1>1, <2>4, <3>1 DEF Seats, OnQuota
  <2> QED BY <2>2, <2>3, <2>4
<1>3. CASE u \in Managed /\ api[u] = Unbound /\ cycle[u] = "binding"
  <2>1. target[u] = n
    BY <1>1, <1>3 DEF seatOf
  <2>2. resv[u] # None /\ resv[u].node = n /\ resv[u].quota = q
    BY <1>1, <1>3, <2>1 DEF SeatInv, SeatParts, Cycles, Refs
  <2> QED BY <1>1, <2>2 DEF Seats, OnQuota
<1> QED BY <1>1, <1>2, <1>3 DEF seatOf

\* No seat is undercounted: the counts that Reserve checks cover every pod that
\* runs, or is about to run, on a node.
THEOREM SeatsAreCounted == ASSUME Prompt PROVE Spec => []NeverUndercounts
<1>1. SeatInv => NeverUndercounts
  BY HoldersAreCounted DEF NeverUndercounts, Warm
<1> QED BY SeatInvariant, <1>1, PTL

\* The warm-up race is the only one the process has with its cache when the
\* timing assumptions on a running process are met: a node exceeds the cap only
\* by as many pods as the handler has still to see in the initial list.
THEOREM CapIsHardUpToInitialList == ASSUME Prompt PROVE Spec => CapUpToInitialList
<1>1. ASSUME OwnInv, SeatInv, [Next]_vars, NEW n \in Node, NEW q \in QuotaKey
      PROVE  GrowsPastCapBy(n, q, Holders(n, q) \cap initial)
  <2> DEFINE H == Holders(n, q)
             U == Holders(n, q) \ Seats(n, q)
             L == Holders(n, q) \cap initial
  <2> SUFFICES ASSUME Cardinality(H') > Cardinality(H)
               PROVE  Cardinality(H') <= MaxPodsPerNode[q] + Cardinality(L)
    BY DEF GrowsPastCapBy
  <2>1. H \in SUBSET Pod /\ H' \in SUBSET Pod /\ U \in SUBSET Pod /\ L \in SUBSET Pod
    BY DEF Holders
  <2>2. /\ Cardinality(H) \in Nat /\ Cardinality(H') \in Nat
        /\ Cardinality(U) \in Nat /\ Cardinality(L) \in Nat
    BY <2>1, PodsAreFinite, FS_Subset, FS_CardinalityType
  <2>3. PICK u \in Pod, domain \in Domains : Admitted(u, n, domain)
    BY <1>1, <2>2, HoldersStep
  <2>4. synced
    BY <1>1, <2>3 DEF OwnInv, OwnParts, Begun, Warm, Admitted, Reserve
  <2>5. U \subseteq L
    BY <1>1, <2>4, HoldersAreCounted
  <2>6. Cardinality(U) <= Cardinality(L)
    BY <2>1, <2>5, PodsAreFinite, FS_Subset
  <2>7. Cardinality(H') <= MaxPodsPerNode[q] + Cardinality(U)
    BY <1>1, GrowthIsBounded DEF GrowsPastCapBy
  <2>8. MaxPodsPerNode[q] \in Nat
    BY PolicyValues
  <2> HIDE DEF H, U, L
  <2> QED BY <2>2, <2>6, <2>7, <2>8
<1>2. OwnInv /\ [Next]_vars => OwnInv'
  BY OwnInvStep
<1>3. OwnInv /\ SeatInv /\ [Next]_vars =>
        [\A n \in Node, q \in QuotaKey : GrowsPastCapBy(n, q, Holders(n, q) \cap initial)]_vars
  BY <1>1
<1> QED BY OwnInvInit, SeatInvariant, <1>2, <1>3, PTL DEF Spec, CapUpToInitialList

-----------------------------------------------------------------------------
(* The cap, when scheduling also waits for the initial list.               *)

\* Reserve admits a pod only to a node that runs fewer pods of its service than
\* the cap: what it checks is at least what the node really runs.
LEMMA AdmittedBelowCap ==
  ASSUME WaitForHandlers, OwnInv, SeatInv, NEW u \in Pod, NEW domain \in Domains, NEW n \in Node,
         Admitted(u, n, domain)
  PROVE  Cardinality(Holders(n, quotaOf[u])) < MaxPodsPerNode[quotaOf[u]]
<1> DEFINE q == quotaOf[u]
           U == Holders(n, q) \ Seats(n, q)
<1>1. q \in QuotaKey /\ MaxPodsPerNode[q] \in Nat
  BY LifecycleConstants, PolicyValues
<1>2. synced /\ initial = {}
  BY DEF OwnInv, OwnParts, Begun, Warm, Admitted, Reserve
<1>3. U = {}
  BY <1>1, <1>2, HoldersAreCounted
<1>4. Cardinality(U) = 0
  BY <1>3, FS_EmptySet
<1>5. Cardinality(Holders(n, q)) < MaxPodsPerNode[q] + Cardinality(U)
  BY AdmittedNearCap, ZenonT(60)
<1> QED BY <1>1, <1>4, <1>5

\* No seat is taken in the initial state.
LEMMA NoSeatsInit == Init => \A u \in Pod : seatOf(u) = NoNode
BY DEF Init, seatOf

\* Every step keeps the cap.
LEMMA CapStep ==
  ASSUME WaitForHandlers, OwnInv, SeatInv, CapHolds, [Next]_vars
  PROVE  CapHolds'
<1> SUFFICES ASSUME NEW n \in Node, NEW q \in QuotaKey
             PROVE  Cardinality(Holders(n, q)') <= MaxPodsPerNode[q]
  BY DEF CapHolds
<1>1. Holders(n, q) \in SUBSET Pod /\ Holders(n, q)' \in SUBSET Pod
  BY DEF Holders
<1>2. Cardinality(Holders(n, q)) \in Nat /\ Cardinality(Holders(n, q)') \in Nat
  BY <1>1, PodsAreFinite, FS_Subset, FS_CardinalityType
<1>3. Cardinality(Holders(n, q)) <= MaxPodsPerNode[q] /\ MaxPodsPerNode[q] \in Nat
  BY PolicyValues DEF CapHolds
<1>4. ASSUME NEW u \in Pod, NEW domain \in Domains, Admitted(u, n, domain), quotaOf[u] = q
      PROVE  Cardinality(Holders(n, q)) < MaxPodsPerNode[q]
  BY <1>4, AdmittedBelowCap, ZenonT(60)
<1>5. CASE Cardinality(Holders(n, q)') <= Cardinality(Holders(n, q))
  BY <1>2, <1>3, <1>5
<1>6. ASSUME NEW u \in Pod, NEW domain \in Domains, Admitted(u, n, domain), quotaOf[u] = q,
             Cardinality(Holders(n, q)') = Cardinality(Holders(n, q)) + 1
      PROVE  Cardinality(Holders(n, q)') <= MaxPodsPerNode[q]
  <2> DEFINE before == Cardinality(Holders(n, q))
             after == Cardinality(Holders(n, q)')
  <2>1. before < MaxPodsPerNode[q]
    BY <1>4, <1>6, ZenonT(60)
  <2>2. before \in Nat /\ after = before + 1 /\ MaxPodsPerNode[q] \in Nat
    BY <1>2, <1>3, <1>6, ZenonT(60)
  <2> SUFFICES after <= MaxPodsPerNode[q]
    OBVIOUS
  <2> HIDE DEF before, after
  <2> QED BY <2>1, <2>2
<1> QED BY <1>5, <1>6, HoldersStep, ZenonT(60)

\* The cap holds of the cluster when the timing assumptions are met: no node
\* ever runs, or is about to run, more pods of a service than maxPodsPerNode,
\* across any number of scheduler restarts.
THEOREM CapIsHard == ASSUME Timely PROVE Spec => []CapHolds
<1>1. Init => CapHolds
  <2> SUFFICES ASSUME Init, NEW n \in Node, NEW q \in QuotaKey
               PROVE  Cardinality(Holders(n, q)) <= MaxPodsPerNode[q]
    BY DEF CapHolds
  <2>1. Holders(n, q) = {}
    BY NoSeatsInit, EmptyNames DEF Holders
  <2> QED BY <2>1, FS_EmptySet, PolicyValues
<1>2. OwnInv /\ [Next]_vars => OwnInv'
  BY OwnInvStep
<1>3. OwnInv /\ SeatInv /\ CapHolds /\ [Next]_vars => CapHolds'
  BY CapStep DEF Timely
<1>4. Spec => []SeatInv
  BY SeatInvariant DEF Timely
<1> QED BY OwnInvInit, <1>1, <1>2, <1>3, <1>4, PTL DEF Spec

\* The plugin implements the seat ledger when the timing assumptions are met: a
\* Reserve that admits takes a seat below the cap, every other step of the
\* process, the cluster or a crash leaves the ledger alone or gives seats up.
THEOREM LedgerIsImplemented == ASSUME Timely PROVE Spec => ImplementsLedger
<1> DEFINE seat == [u \in Pod |-> seatOf(u)]
<1>1. Init => Ledger!Init
  BY NoSeatsInit DEF Ledger!Init
<1>2. OwnInv /\ SeatInv /\ [Next]_vars => [Ledger!Next]_seat
  <2> SUFFICES ASSUME OwnInv, SeatInv, [Next]_vars PROVE Ledger!Next
    OBVIOUS
  <2>1. CASE \A v \in Pod : seatOf(v)' = seatOf(v) \/ seatOf(v)' = NoNode
    <3> DEFINE S == {v \in Pod : seatOf(v)' = NoNode}
    <3>1. seat' = [v \in Pod |-> IF v \in S THEN NoNode ELSE seatOf(v)]
      BY <2>1
    <3>2. Ledger!GiveSeats(S)
      BY <3>1 DEF Ledger!GiveSeats
    <3> QED BY <3>2 DEF Ledger!Next
  <2>2. ASSUME NEW u \in Pod, NEW domain \in Domains, NEW n \in Node, Admitted(u, n, domain),
               seatOf(u) = NoNode, seatOf(u)' = n, \A v \in Pod : v # u => seatOf(v)' = seatOf(v)
        PROVE  Ledger!Next
    <3>1. Ledger!SeatsTaken(n, quotaOf[u]) = Holders(n, quotaOf[u])
      BY DEF Ledger!SeatsTaken, Holders
    <3>2. Ledger!Cardinality(Ledger!SeatsTaken(n, quotaOf[u])) < MaxPodsPerNode[quotaOf[u]]
      <4>1. Ledger!Cardinality(Holders(n, quotaOf[u])) = Cardinality(Holders(n, quotaOf[u]))
        BY DEF Ledger!Cardinality, Cardinality
      <4> QED BY <2>2, <3>1, <4>1, AdmittedBelowCap DEF Timely
    <3>3. seat' = [seat EXCEPT ![u] = n] /\ seat[u] = NoNode
      BY <2>2, ZenonT(60)
    <3>4. Ledger!TakeSeat(u, n)
      BY <3>2, <3>3 DEF Ledger!TakeSeat
    <3> QED BY <3>4 DEF Ledger!Next
  <2> QED BY <2>1, <2>2, SeatMoves
<1>3. OwnInv /\ [Next]_vars => OwnInv'
  BY OwnInvStep
<1>4. Spec => []SeatInv
  BY SeatInvariant DEF Timely
<1> QED BY OwnInvInit, <1>1, <1>2, <1>3, <1>4, PTL DEF Spec, ImplementsLedger, Ledger!Spec

-----------------------------------------------------------------------------
(* Pods that are not the plugin's.                                         *)

\* Pods of other schedulers, or without the service label, are never counted in
\* a seat of a service, although callbacks bring them into the snapshot and
\* rebuilds, whatever they race with, take them out again.
THEOREM ForeignTakeNoSeat == Spec => []ForeignPodsTakeNoSeat
<1>1. ForeignInv /\ [Next]_vars => ForeignInv'
  BY ForeignStep, TypeStep DEF ForeignInv
<1>2. ForeignInv => ForeignPodsTakeNoSeat
  BY EmptyNames DEF ForeignInv, ForeignPodsTakeNoSeat, Seats, OnQuota, emptyRef
<1>3. Init => ForeignInv
  BY ForeignInit, InitType
<1> QED BY <1>1, <1>2, <1>3, PTL DEF Spec
=============================================================================
