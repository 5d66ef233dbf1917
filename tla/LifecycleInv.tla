---------------------------- MODULE LifecycleInv ----------------------------
(***************************************************************************)
(* Why the cap holds: the inductive invariant behind NeverUndercounts and  *)
(* CapHolds, for a process that meets the timing assumptions while it      *)
(* runs, and the smaller invariants that need one of them or none.         *)
(*                                                                         *)
(* The argument in one sentence: from the moment Reserve admits a pod      *)
(* until the pod stops running, the overlay or the snapshot counts it on   *)
(* its node, because a path that drops its reservation has first seen it   *)
(* in the snapshot (or gone), and a path that drops it from the snapshot   *)
(* works from an observation so old that the reservation is still there.   *)
(***************************************************************************)
EXTENDS Lifecycle

\* The timing assumptions on a running process; with the one on its start.
Prompt == TTLCoversLag /\ AtomicRebuild /\ DefiniteBindErrors
Timely == Prompt /\ WaitForHandlers

\* The cache lags behind the API server, the notifications behind the cache.
Lag == \A u \in Pod :
  /\ lister[u] <= api[u]
  /\ \A r \in pend[u] : Unbound <= r /\ r <= lister[u]
  /\ handler.pod = u => Unbound <= handler.rev /\ handler.rev <= lister[u]
  /\ handler.pod = None => handler = NoCallback

\* A pod has a node exactly from the revision on that shows it bound, and
\* whatever was derived from a bound object knows that node.
Nodes == \A u \in Pod :
  /\ boundTo[u] # NoNode => api[u] >= Bound
  /\ api[u] = Bound => boundTo[u] # NoNode
  /\ (\/ Bound \in pend[u]
      \/ lister[u] = Bound
      \/ snap.pods[u] # None
      \/ u \in janitor.counts
      \/ u \in reconciler.counts) => boundTo[u] # NoNode /\ lister[u] >= Bound

\* Every entry of the snapshot and of the overlay carries the pod's own keys
\* and the node it was bound to, or is being bound to.
Refs == \A u \in Pod :
  /\ snap.pods[u] # None => snap.pods[u] = eventRef(u)
  /\ resv[u] # None => /\ u \in Managed
                       /\ resv[u].quota = quotaOf[u] /\ resv[u].sched = schedOf[u]
                       /\ boundTo[u] # NoNode => resv[u].node = boundTo[u]
  /\ u \in janitor.counts \cup reconciler.counts => u \in Managed

\* Where a pod is in its cycle tells what the API server and the overlay hold.
Cycles == \A u \in Pod :
  /\ cycle[u] # "queued" => u \in Managed /\ api[u] >= Unbound /\ synced
  /\ cycle[u] \in {"scheduling", "binding"} => boundTo[u] = NoNode
  /\ cycle[u] = "queued" /\ u \in Managed /\ synced /\ lister[u] <= Unbound => boundTo[u] = NoNode
  /\ cycle[u] \in {"landed", "bound"} => boundTo[u] # NoNode
  /\ cycle[u] \in {"queued", "scheduling"} => resv[u] = None
  /\ cycle[u] = "landed" => boundTo[u] = target[u]
  /\ cycle[u] = "binding" => target[u] \in Node
  /\ cycle[u] = "binding" /\ api[u] = Unbound => resv[u] # None /\ resv[u].node = target[u]
  /\ resv[u] # None /\ cycle[u] \in {"binding", "landed"} => resv[u].phase = "Reserved" /\ ~resv[u].old

\* A pod that this process found bound in its initial list has only its Bound
\* revision to deliver.
Initial == \A u \in initial \cap Managed :
  api[u] = Bound /\ cycle[u] = "queued" => lister[u] = Bound /\ pend[u] = {Bound}

\* The pods that must be counted: managed, running, and not found bound in an
\* initial list that is still being delivered.  A pod of that list that this
\* process has bound itself has a reservation, and counts.
MustCount(u) ==
  u \in Managed /\ synced /\ (u \in initial => cycle[u] # "queued") /\ api[u] = Bound

\* Coverage: each of them is counted, and by its reservation if the handler
\* has yet to see, or is yet to be shown once more, the pod without its node.
Coverage == \A u \in Pod : MustCount(u) =>
  /\ snap.pods[u] # None \/ resv[u] # None
  /\ lister[u] < Bound \/ Unbound \in pend[u] => resv[u] # None

\* A list in use excludes callbacks and the other list, and a running pod it
\* lacks still has its reservation.
Lists ==
  /\ ListHeld => handler = NoCallback
  /\ ~(janitor.pc \in {"loop", "release", "rebuild", "confirm"} /\ reconciler.pc = "listed")
  /\ \A u \in Pod : MustCount(u) =>
       /\ janitor.pc \in {"loop", "release", "rebuild", "confirm"} /\ u \notin janitor.counts => resv[u] # None
       /\ reconciler.pc = "listed" /\ u \notin reconciler.counts => resv[u] # None

\* A callback in progress has either just shown the pod without its node, or
\* leaves no such notification behind.
Callback == \A u \in Managed : handler.pod = u /\ api[u] = Bound =>
  \/ handler.rev = Unbound /\ snap.pods[u] = None
  \/ handler.rev = Bound /\ Unbound \notin pend[u]

\* What the TTL gives the janitor: an expired pod is out of its binding cycle
\* and, if it still runs, every later list contains it.
Expired == \A u \in Pod :
  (resv[u] # None /\ resv[u].old) \/ u \in janitor.expired \/ u = janitor.cur =>
     /\ cycle[u] = "bound"
     /\ api[u] = Bound => lister[u] = Bound /\ Unbound \notin pend[u]
     /\ api[u] = Bound /\ janitor.pc \in {"loop", "release", "rebuild", "confirm"}
          /\ (u \in janitor.expired \/ u = janitor.cur) => u \in janitor.counts
     /\ u = janitor.cur /\ janitor.pc = "release" => api[u] # Bound

\* The cursor of the janitor's loop is a pod in its three inner states only.
Cursor == /\ janitor.cur # None <=> janitor.pc \in {"release", "rebuild", "confirm"}
          /\ janitor.pc = "idle" => janitor.expired = {}

SeatParts == /\ Lag /\ Nodes /\ Refs /\ Cycles /\ Initial /\ Coverage /\ Lists
             /\ Callback /\ Expired /\ Cursor

SeatInv == TypeOK /\ CountersExact /\ SeatParts

-----------------------------------------------------------------------------
(* What holds without the timing assumptions, or with one of them.         *)

\* A cycle that has begun passed PreFilter's gate, and the revision of its pod
\* tells how far it got.
Begun == \A u \in Pod :
  /\ lister[u] <= api[u]
  /\ cycle[u] # "queued" => u \in Managed /\ Warm /\ api[u] >= Unbound
  /\ cycle[u] = "binding" => target[u] \in Node
  /\ cycle[u] \in {"landed", "bound"} => api[u] >= Bound
  /\ cycle[u] = "landed" => boundTo[u] = target[u]

OwnParts == Begun /\ ReservationsOwned

OwnInv == TypeOK /\ CountersExact /\ OwnParts

\* An expired pod has been bound, the cache knows it, and if it still runs the
\* list the janitor works from contains it.
Aged == \A u \in Pod :
  (resv[u] # None /\ resv[u].old) \/ u \in janitor.expired \/ u = janitor.cur =>
     /\ cycle[u] = "bound" /\ lister[u] >= Bound
     /\ (u \in janitor.expired \/ u = janitor.cur) /\ janitor.pc # "scanned" /\ api[u] = Bound
          => u \in janitor.counts
     /\ u = janitor.cur /\ janitor.pc = "release" => api[u] # Bound

AgedInv == OwnInv /\ Aged /\ Cursor

\* Node n gains a pod of service q: the cap may be exceeded only by as many pods
\* as S holds.
GrowsPastCapBy(n, q, S) ==
  Cardinality(Holders(n, q)') > Cardinality(Holders(n, q)) =>
    Cardinality(Holders(n, q)') <= MaxPodsPerNode[q] + Cardinality(S)

\* A node ends up above its cap only by as many of the pods running there as
\* the state machine did not count when Reserve checked.
CapUpToUndercount ==
  [][\A n \in Node, q \in QuotaKey : GrowsPastCapBy(n, q, Holders(n, q) \ Seats(n, q))]_vars

\* Without WaitForHandlers the cap is exceeded only by pods of the initial list
\* whose Add callback is still to come.
CapUpToInitialList ==
  [][\A n \in Node, q \in QuotaKey : GrowsPastCapBy(n, q, Holders(n, q) \cap initial)]_vars
=============================================================================
