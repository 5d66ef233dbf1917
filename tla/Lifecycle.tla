----------------------------- MODULE Lifecycle -----------------------------
(***************************************************************************)
(* The life of a seat: the spreadState of internal/spread/state.go driven  *)
(* by everything that runs concurrently in the scheduler process -- the    *)
(* Reserve/Bind/PostBind/Unreserve hooks of plugin.go, the pod informer's  *)
(* event handler, the TTL janitor and the reconciler of lifecycle.go --    *)
(* while pods are created, finish and are deleted in the API server, the   *)
(* informer cache lags behind it, the handler lags behind the cache, and   *)
(* the process restarts.                                                   *)
(*                                                                         *)
(* An action is one critical section of spreadState.mu, one cache          *)
(* operation, or one step of the API server.  Four constants name timing   *)
(* assumptions the code relies on but does not enforce; with all of them   *)
(* FALSE the model is the code as it runs.                                 *)
(***************************************************************************)
EXTENDS SpreadState

CONSTANTS
  Managed,            \* pods of the managed schedulerName that carry the service label
  quotaOf, schedOf,   \* Pod -> the keys PodRefFor derives from the pod
  Domains,            \* the stable domains the node cache may show to Reserve
  MaxRestarts,        \* bound: process restarts in a behaviour
  TTLCoversLag,       \* a TTL elapses only after the binding cycle is over and cached
  AtomicRebuild,      \* a list and its rebuild exclude callbacks and each other
  DefiniteBindErrors, \* a bind call that reports an error has not taken effect
  WaitForHandlers     \* scheduling waits for the handler of the initial list

ASSUME LifecycleConstants ==
  /\ Managed \subseteq Pod
  /\ quotaOf \in [Pod -> QuotaKey] /\ schedOf \in [Pod -> SchedKey]
  /\ Domains \subseteq SUBSET Node
  /\ MaxRestarts \in Nat
  /\ {TTLCoversLag, AtomicRebuild, DefiniteBindErrors, WaitForHandlers} \subseteq BOOLEAN

VARIABLES
  api,        \* API server: the revision of each pod
  boundTo,    \* API server: spec.nodeName of each pod
  synced,     \* podInformer.HasSynced
  lister,     \* informer cache: the revision of each pod
  pend,       \* revisions in the cache whose notification is still undelivered
  initial,    \* pods of the initial list whose Add is still undelivered
  handler,    \* the event handler's callback in progress
  cycle,      \* the pod's place in the scheduling and binding cycle
  target,     \* the node its bind call names
  janitor, reconciler, \* program counters and locals of the two loops
  restarts

clusterVars == <<api, boundTo>>
informerVars == <<synced, lister, pend, initial, handler>>
cycleVars == <<cycle, target>>
loopVars == <<janitor, reconciler>>
vars == <<stateVars, clusterVars, informerVars, cycleVars, loopVars, restarts>>

\* A pod's object only moves forward through these revisions.  Pending and
\* Running are one revision once the pod has a node: countablePod treats
\* them alike.
Absent == 0
Unbound == 1
Bound == 2
Finished == 3
Deleted == 4
Revision == Absent..Deleted

NoCallback == [pod |-> None, rev |-> Absent]
JanitorIdle == [pc |-> "idle", expired |-> {}, counts |-> {}, cur |-> None]
ReconcilerIdle == [pc |-> "idle", counts |-> {}]

TypeOK ==
  /\ snap \in snapshot
  /\ resv \in [Pod -> reservation \cup {None}]
  /\ api \in [Pod -> Revision] /\ boundTo \in [Pod -> NodeName]
  /\ synced \in BOOLEAN /\ lister \in [Pod -> Revision]
  /\ pend \in [Pod -> SUBSET Revision] /\ initial \in SUBSET Pod
  /\ handler \in [pod : Pod \cup {None}, rev : Revision]
  /\ cycle \in [Pod -> {"queued", "scheduling", "binding", "landed", "bound"}]
  /\ target \in [Pod -> NodeName]
  /\ janitor \in [pc : {"idle", "scanned", "loop", "release", "rebuild", "confirm"},
                  expired : SUBSET Pod, counts : SUBSET Pod, cur : Pod \cup {None}]
  /\ reconciler \in [pc : {"idle", "listed"}, counts : SUBSET Pod]
  /\ restarts \in Nat

-----------------------------------------------------------------------------
(* What the code derives from a pod object.                                *)

countablePod(rev) == rev = Bound

PodRefFor(u, n) == [quota |-> quotaOf[u], sched |-> schedOf[u], node |-> n]
emptyRef == [quota |-> NoKey, sched |-> NoKey, node |-> NoNode]

\* Mutant: the schedulerName and label checks left out.
eventRefUnchecked(u) == PodRefFor(u, boundTo[u])
\* onPodEvent: pods of other schedulers, or without the label, are routed
\* through the state machine with an empty ref.
eventRef(u) == IF u \in Managed THEN PodRefFor(u, boundTo[u]) ELSE emptyRef

\* Mutant: finished pods are listed.
ListCountableAll == {u \in Managed : lister[u] \in Bound..Finished}
\* listerPodSource.ListCountable: UID -> ref, as its set of UIDs; the refs
\* follow, since a bound pod never changes node.
ListCountable == {u \in Managed : countablePod(lister[u])}
RefsOf(counts) == [u \in Pod |-> IF u \in counts THEN PodRefFor(u, boundTo[u]) ELSE None]

Init ==
  /\ snap = emptySnapshot /\ resv = noReservations
  /\ api = [u \in Pod |-> Absent] /\ boundTo = [u \in Pod |-> NoNode]
  /\ synced = FALSE /\ lister = [u \in Pod |-> Absent]
  /\ pend = [u \in Pod |-> {}] /\ initial = {} /\ handler = NoCallback
  /\ cycle = [u \in Pod |-> "queued"] /\ target = [u \in Pod |-> NoNode]
  /\ janitor = JanitorIdle /\ reconciler = ReconcilerIdle
  /\ restarts = 0

-----------------------------------------------------------------------------
(* The API server.                                                         *)

CreatePod(u) ==
  /\ api[u] = Absent
  /\ api' = [api EXCEPT ![u] = Unbound]
  /\ UNCHANGED <<stateVars, boundTo, informerVars, cycleVars, loopVars, restarts>>

\* The pod reaches Succeeded or Failed.
FinishPod(u) ==
  /\ api[u] \in {Unbound, Bound}
  /\ api' = [api EXCEPT ![u] = Finished]
  /\ UNCHANGED <<stateVars, boundTo, informerVars, cycleVars, loopVars, restarts>>

DeletePod(u) ==
  /\ api[u] \in {Unbound, Bound, Finished}
  /\ api' = [api EXCEPT ![u] = Deleted]
  /\ UNCHANGED <<stateVars, boundTo, informerVars, cycleVars, loopVars, restarts>>

\* Another scheduler binds one of its own pods.
ForeignBind(u, n) ==
  /\ u \notin Managed /\ api[u] = Unbound
  /\ api' = [api EXCEPT ![u] = Bound]
  /\ boundTo' = [boundTo EXCEPT ![u] = n]
  /\ UNCHANGED <<stateVars, informerVars, cycleVars, loopVars, restarts>>

-----------------------------------------------------------------------------
(* The shared pod informer: the cache is updated first, the notification   *)
(* is queued for the handler goroutine.                                    *)

InformerSync ==
  /\ ~synced
  /\ synced' = TRUE
  /\ lister' = api
  /\ initial' = {u \in Pod : api[u] \in Unbound..Finished}
  /\ pend' = [u \in Pod |-> IF u \in initial' THEN {api[u]} ELSE {}]
  /\ UNCHANGED <<stateVars, clusterVars, handler, cycleVars, loopVars, restarts>>

\* The cache moves to a later revision of u; a relist may skip some.
WatchEvent(u, r) ==
  /\ synced
  /\ lister[u] < r /\ r <= api[u]
  /\ r = Bound => boundTo[u] # NoNode
  /\ r = Finished => api[u] = Finished
  /\ r = Deleted => lister[u] # Absent
  /\ lister' = [lister EXCEPT ![u] = r]
  /\ pend' = [pend EXCEPT ![u] = @ \cup {r}]
  /\ UNCHANGED <<stateVars, clusterVars, synced, initial, handler, cycleVars, loopVars, restarts>>

\* A status update that changes nothing the plugin looks at.
StatusUpdate(u) ==
  /\ synced
  /\ lister[u] \in {Unbound, Bound}
  /\ pend' = [pend EXCEPT ![u] = @ \cup {lister[u]}]
  /\ UNCHANGED <<stateVars, clusterVars, synced, lister, initial, handler, cycleVars, loopVars, restarts>>

-----------------------------------------------------------------------------
(* The event handler: one goroutine, two critical sections per callback.   *)

\* A list taken by the janitor or the reconciler is still to be used.
ListHeld == janitor.pc \in {"loop", "release", "rebuild", "confirm"} \/ reconciler.pc = "listed"

\* First critical section of OnPodAddOrUpdate and of OnPodDelete.
OnPodEvent(u, r) ==
  /\ handler = NoCallback
  /\ AtomicRebuild => ~ListHeld
  /\ r \in pend[u] /\ \A s \in pend[u] : r <= s
  /\ IF countablePod(r) THEN upsertCount(u, eventRef(u)) ELSE removeCount(u)
  /\ handler' = [pod |-> u, rev |-> r]
  /\ pend' = [pend EXCEPT ![u] = @ \ {r}]
  /\ initial' = initial \ {u}
  /\ UNCHANGED <<clusterVars, synced, lister, cycleVars, loopVars, restarts>>

\* Second critical section.
OnPodEventEnd ==
  /\ handler # NoCallback
  /\ IF handler.rev = Deleted THEN releaseUnverified(handler.pod)
                              ELSE releaseIfObserved(handler.pod)
  /\ handler' = NoCallback
  /\ UNCHANGED <<clusterVars, synced, lister, pend, initial, cycleVars, loopVars, restarts>>

-----------------------------------------------------------------------------
(* The scheduling and binding cycles of a pod.                             *)

\* PreFilter's gate on the informer caches.
Warm == synced /\ (WaitForHandlers => initial = {})

\* The scheduler pops a pending pod; one scheduling cycle runs at a time.
PreFilter(u) ==
  /\ u \in Managed /\ cycle[u] = "queued" /\ lister[u] = Unbound
  /\ \A v \in Pod : cycle[v] # "scheduling"
  /\ Warm
  /\ cycle' = [cycle EXCEPT ![u] = "scheduling"]
  /\ UNCHANGED <<stateVars, clusterVars, informerVars, target, loopVars, restarts>>

\* No node passes Filter.
Unschedulable(u) ==
  /\ cycle[u] = "scheduling"
  /\ cycle' = [cycle EXCEPT ![u] = "queued"]
  /\ UNCHANGED <<stateVars, clusterVars, informerVars, target, loopVars, restarts>>

\* Reserve, with the domain as the node cache shows it now.  When it refuses,
\* the framework calls Unreserve and requeues.
Reserve(u, n, domain) ==
  /\ cycle[u] = "scheduling"
  /\ IF n \in domain /\ CanReserve(u, PodRefFor(u, n), domain)
     THEN /\ TryReserveChecked(u, PodRefFor(u, n), domain)
          /\ cycle' = [cycle EXCEPT ![u] = "binding"]
          /\ target' = [target EXCEPT ![u] = n]
     ELSE /\ Unreserve(u)
          /\ cycle' = [cycle EXCEPT ![u] = "queued"]
          /\ UNCHANGED target
  /\ UNCHANGED <<clusterVars, informerVars, loopVars, restarts>>

\* The API server executes the bind call.
BindLands(u) ==
  /\ cycle[u] = "binding" /\ api[u] = Unbound
  /\ api' = [api EXCEPT ![u] = Bound]
  /\ boundTo' = [boundTo EXCEPT ![u] = target[u]]
  /\ cycle' = [cycle EXCEPT ![u] = "landed"]
  /\ UNCHANGED <<stateVars, informerVars, target, loopVars, restarts>>

\* The bind call returned nil.
PostBind(u) ==
  /\ cycle[u] = "landed"
  /\ MarkBound(u)
  /\ cycle' = [cycle EXCEPT ![u] = "bound"]
  /\ target' = [target EXCEPT ![u] = NoNode]
  /\ UNCHANGED <<clusterVars, informerVars, loopVars, restarts>>

\* Mutant: Unreserve is not called.
BindFailsKeepsSeat(u) ==
  /\ \/ cycle[u] = "binding"
     \/ cycle[u] = "landed" /\ ~DefiniteBindErrors
  /\ cycle' = [cycle EXCEPT ![u] = "queued"]
  /\ target' = [target EXCEPT ![u] = NoNode]
  /\ UNCHANGED <<stateVars, clusterVars, informerVars, loopVars, restarts>>
\* The binding cycle failed: the framework calls Unreserve and requeues.
BindFails(u) ==
  /\ \/ cycle[u] = "binding"
     \/ cycle[u] = "landed" /\ ~DefiniteBindErrors
  /\ Unreserve(u)
  /\ cycle' = [cycle EXCEPT ![u] = "queued"]
  /\ target' = [target EXCEPT ![u] = NoNode]
  /\ UNCHANGED <<clusterVars, informerVars, loopVars, restarts>>

\* The reservation of u turns older than ReservationTTL.
TTLElapses(u) ==
  /\ TTLCoversLag => /\ cycle[u] \notin {"binding", "landed"}
                     /\ lister[u] = api[u] /\ pend[u] \subseteq {api[u]}
  /\ Expire(u)
  /\ UNCHANGED <<clusterVars, informerVars, cycleVars, loopVars, restarts>>

-----------------------------------------------------------------------------
(* The TTL janitor (janitorOnce): the scan, the list outside the lock, and *)
(* per expired UID up to three more critical sections.                     *)

JanitorScan ==
  /\ janitor.pc = "idle"
  /\ \E expired \in {{u \in Pod : resv[u] # None /\ resv[u].old}} :
       /\ expired # {}
       /\ janitor' = [JanitorIdle EXCEPT !.pc = "scanned", !.expired = expired]
  /\ UNCHANGED <<stateVars, clusterVars, informerVars, cycleVars, reconciler, restarts>>

JanitorList ==
  /\ janitor.pc = "scanned"
  /\ AtomicRebuild => handler = NoCallback /\ ~ListHeld
  /\ janitor' = [janitor EXCEPT !.pc = "loop", !.counts = ListCountable]
  /\ UNCHANGED <<stateVars, clusterVars, informerVars, cycleVars, reconciler, restarts>>

\* The source failed: keep every reservation and alert.
JanitorListFails ==
  /\ janitor.pc = "scanned"
  /\ janitor' = JanitorIdle
  /\ UNCHANGED <<stateVars, clusterVars, informerVars, cycleVars, reconciler, restarts>>

\* Mutant: released without looking the UID up in the list.
JanitorPickBlind(u) ==
  /\ janitor.pc = "loop" /\ u \in janitor.expired
  /\ janitor' = [janitor EXCEPT !.expired = @ \ {u}, !.cur = u, !.pc = "release"]
  /\ UNCHANGED <<stateVars, clusterVars, informerVars, cycleVars, reconciler, restarts>>
\* Read the reservation of the next expired UID under mu and decide.
JanitorPick(u) ==
  /\ janitor.pc = "loop" /\ u \in janitor.expired
  /\ janitor' =
       [janitor EXCEPT
          !.expired = @ \ {u},
          !.cur = IF resv[u] = None THEN None ELSE u,
          !.pc = CASE resv[u] = None -> "loop"
                   [] resv[u] # None /\ u \in janitor.counts /\ boundTo[u] = resv[u].node -> "rebuild"
                   [] OTHER -> "release"]
  /\ UNCHANGED <<stateVars, clusterVars, informerVars, cycleVars, reconciler, restarts>>

\* Mutant: an unverifiable reservation is kept.
JanitorReleaseForgets ==
  /\ janitor.pc = "release"
  /\ janitor' = [janitor EXCEPT !.pc = "loop", !.cur = None]
  /\ UNCHANGED <<stateVars, clusterVars, informerVars, cycleVars, reconciler, restarts>>
JanitorRelease ==
  /\ janitor.pc = "release"
  /\ releaseUnverified(janitor.cur)
  /\ janitor' = [janitor EXCEPT !.pc = "loop", !.cur = None]
  /\ UNCHANGED <<clusterVars, informerVars, cycleVars, reconciler, restarts>>

JanitorRebuild ==
  /\ janitor.pc = "rebuild"
  /\ rebuild(RefsOf(janitor.counts))
  /\ janitor' = [janitor EXCEPT !.pc = "confirm"]
  /\ UNCHANGED <<clusterVars, informerVars, cycleVars, reconciler, restarts>>

JanitorConfirm ==
  /\ janitor.pc = "confirm"
  /\ releaseIfObserved(janitor.cur)
  /\ janitor' = [janitor EXCEPT !.pc = "loop", !.cur = None]
  /\ UNCHANGED <<clusterVars, informerVars, cycleVars, reconciler, restarts>>

JanitorDone ==
  /\ janitor.pc = "loop" /\ janitor.expired = {}
  /\ janitor' = JanitorIdle
  /\ UNCHANGED <<stateVars, clusterVars, informerVars, cycleVars, reconciler, restarts>>

-----------------------------------------------------------------------------
(* The reconciler (RunReconciler): list, then rebuild.  A list error skips *)
(* the tick.                                                               *)

ReconcileList ==
  /\ reconciler.pc = "idle"
  /\ AtomicRebuild => handler = NoCallback /\ ~ListHeld
  /\ reconciler' = [pc |-> "listed", counts |-> ListCountable]
  /\ UNCHANGED <<stateVars, clusterVars, informerVars, cycleVars, janitor, restarts>>

ReconcileRebuild ==
  /\ reconciler.pc = "listed"
  /\ rebuild(RefsOf(reconciler.counts))
  /\ reconciler' = ReconcilerIdle
  /\ UNCHANGED <<clusterVars, informerVars, cycleVars, janitor, restarts>>

-----------------------------------------------------------------------------
\* The process crashes and a new one starts, or another replica takes the
\* lease: everything but the API server's state is lost.
Restart ==
  /\ restarts < MaxRestarts
  /\ snap' = emptySnapshot /\ resv' = noReservations
  /\ synced' = FALSE /\ lister' = [u \in Pod |-> Absent]
  /\ pend' = [u \in Pod |-> {}] /\ initial' = {} /\ handler' = NoCallback
  /\ cycle' = [u \in Pod |-> "queued"] /\ target' = [u \in Pod |-> NoNode]
  /\ janitor' = JanitorIdle /\ reconciler' = ReconcilerIdle
  /\ restarts' = restarts + 1
  /\ UNCHANGED clusterVars

Cluster(u) == CreatePod(u) \/ FinishPod(u) \/ DeletePod(u) \/ \E n \in Node : ForeignBind(u, n)

Informer(u) == (\E r \in Revision : WatchEvent(u, r) \/ OnPodEvent(u, r)) \/ StatusUpdate(u)

Scheduling(u) ==
  \/ PreFilter(u) \/ Unschedulable(u)
  \/ \E domain \in Domains, n \in Node : Reserve(u, n, domain)
  \/ BindLands(u) \/ PostBind(u) \/ BindFails(u)

Janitor == \/ JanitorScan \/ JanitorList \/ JanitorListFails
           \/ \E u \in Pod : JanitorPick(u)
           \/ JanitorRelease \/ JanitorRebuild \/ JanitorConfirm \/ JanitorDone

Next ==
  \/ \E u \in Pod : Cluster(u) \/ Informer(u) \/ Scheduling(u) \/ TTLElapses(u)
  \/ InformerSync \/ OnPodEventEnd
  \/ Janitor \/ ReconcileList \/ ReconcileRebuild
  \/ Restart

Spec == Init /\ [][Next]_vars

\* Every loop of the process keeps running and time passes; the lister is a
\* cache, so its list cannot fail forever.  Nothing is assumed of the pods.
Fairness ==
  /\ WF_vars(InformerSync) /\ WF_vars(OnPodEventEnd)
  /\ \A u \in Pod :
       /\ WF_vars(\E r \in Revision : WatchEvent(u, r))
       /\ WF_vars(\E r \in Revision : OnPodEvent(u, r))
       /\ WF_vars(PostBind(u) \/ BindFails(u))
       /\ WF_vars(TTLElapses(u))
       /\ WF_vars(JanitorPick(u))
  /\ WF_vars(JanitorScan) /\ SF_vars(JanitorList)
  /\ WF_vars(JanitorRelease \/ JanitorRebuild \/ JanitorConfirm \/ JanitorDone)
  /\ WF_vars(ReconcileList) /\ WF_vars(ReconcileRebuild)

FairSpec == Spec /\ Fairness

-----------------------------------------------------------------------------
(* Safety.                                                                 *)

\* The node on which a managed pod takes up a seat in the cluster: where the
\* API server has bound it, while it runs, or where a bind call in flight will.
seatOf(u) == CASE u \in Managed /\ api[u] = Bound -> boundTo[u]
               [] u \in Managed /\ api[u] = Unbound /\ cycle[u] = "binding" -> target[u]
               [] OTHER -> NoNode
Holders(n, q) == {u \in Pod : quotaOf[u] = q /\ seatOf(u) = n}

\* The pods the state machine counts on node n for service q, in the snapshot,
\* in the overlay or in both.
Seats(n, q) == OnQuota(snap.pods, n, q) \cup OnQuota(resv, n, q)

\* incMap and decMap keep the two counter maps of the snapshot equal to what
\* a recount of its pods gives, across updates, removals and rebuilds.
CountersExact == snap = SnapshotOf(snap.pods)

\* The cap Reserve enforces holds of the cluster itself: a node never runs, or
\* is about to run, more pods of a service than its policy's maxPodsPerNode.
CapHolds == \A n \in Node, q \in QuotaKey : Cardinality(Holders(n, q)) <= MaxPodsPerNode[q]

\* Never undercount: once the handler has seen the initial list, each pod that
\* takes up a seat is in the snapshot or in the overlay, on the right node.
NeverUndercounts ==
  Warm => \A n \in Node, q \in QuotaKey : Holders(n, q) \ initial \subseteq Seats(n, q)

\* Pods of other schedulers, or without the service label, go through the same
\* callbacks and the same rebuilds, and never take up a seat of a service.
ForeignPodsTakeNoSeat == \A n \in Node, q \in QuotaKey : Seats(n, q) \subseteq Managed

\* A reservation belongs to a pod in its binding cycle or bound by it, names the
\* pod's own keys and the node the bind call names, and is in the phase that
\* goes with the cycle; a pod back in the queue, for whatever reason, has none.
ReservationsOwned == \A u \in Pod : resv[u] # None =>
  /\ u \in Managed /\ resv[u].quota = quotaOf[u] /\ resv[u].sched = schedOf[u]
  /\ \/ cycle[u] \in {"binding", "landed"} /\ resv[u].phase = "Reserved" /\ resv[u].node = target[u]
     \/ cycle[u] = "bound" /\ resv[u].phase = "BoundObs" /\ resv[u].node = boundTo[u]

\* The plugin implements the seat ledger: pods take seats below the cap, keep
\* their node, and crashes, failed binds and lagging caches only free seats.
Ledger == INSTANCE SeatLedger WITH seat <- [u \in Pod |-> seatOf(u)]
ImplementsLedger == Ledger!Spec

\* The pods counted on node n under scheduling key k, and those counted twice,
\* in the snapshot and in the overlay.
SchedSeats(n, k) == OnSched(snap.pods, n, k) \cup OnSched(resv, n, k)
CountedTwice(n, k) == OnSched(snap.pods, n, k) \cap OnSched(resv, n, k)

\* What a successful Reserve step may do to the spread of a service, as the
\* number of pods it counts on the chosen node and on node m.
Admitted(u, n, domain) == Reserve(u, n, domain) /\ cycle'[u] = "binding"
NewSkew(u, n, m) == Cardinality(SchedSeats(n, schedOf[u])) + 1 - Cardinality(SchedSeats(m, schedOf[u]))

\* Reserve never lets a node run ahead of another node of the domain by more
\* than maxSkew, counting each pod once.
ReserveKeepsSkew ==
  [][\A u \in Pod, domain \in Domains, n \in Node :
       Admitted(u, n, domain) =>
         \A m \in domain : NewSkew(u, n, m) <= MaxSkew[quotaOf[u]]]_vars

\* Reserve lets a node run ahead of another by more than maxSkew only by as
\* many pods as that other node counts twice at that moment.
ReserveKeepsSkewUpToOvercount ==
  [][\A u \in Pod, domain \in Domains, n \in Node :
       Admitted(u, n, domain) =>
         \A m \in domain : NewSkew(u, n, m)
           <= MaxSkew[quotaOf[u]] + Cardinality(CountedTwice(m, schedOf[u]))]_vars

\* The janitor never releases the reservation of a pod that the API server has
\* bound to the reserved node and that still runs there.
JanitorSparesBound ==
  [][JanitorRelease => LET u == janitor.cur IN
       resv[u] # None => ~(api[u] = Bound /\ boundTo[u] = resv[u].node)]_vars

-----------------------------------------------------------------------------
(* Liveness.                                                               *)

\* Every reservation is eventually released: by Unreserve, by the event that
\* shows the binding or the deletion, or by the janitor.
ReservationsDrain == \A u \in Pod : resv[u] # None ~> resv[u] = None

\* Whatever races left in the snapshot, it ends up counting exactly the pods
\* that run, each on its node: events and the reconciler repair any drift.
SnapshotConverges ==
  <>[](\A u \in Managed : snap.pods[u] = IF api[u] = Bound THEN PodRefFor(u, boundTo[u]) ELSE None)
=============================================================================
