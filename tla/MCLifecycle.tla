---------------------------- MODULE MCLifecycle ----------------------------
(* Small instances of Lifecycle: one service, one or two nodes.            *)
EXTENDS LifecycleInv

CONSTANTS p1, p2, p3, p4, n1, n2, q1, k1

OneServiceQuota == [u \in Pod |-> q1]
OneServiceSched == [u \in Pod |-> k1]
WholeCluster == {Node}
CapOne == [q \in QuotaKey |-> 1]
CapTwo == [q \in QuotaKey |-> 2]
CapThree == [q \in QuotaKey |-> 3]
SkewOne == [q \in QuotaKey |-> 1]

\* A quiet moment of a service with three running pods, one on n1 and two on
\* n2: p2 and p3 have been scheduled, bound and observed, p1's binding is in
\* the informer cache and its notification is on its way, p4 is pending.
SkewInit ==
  LET place == [u \in Pod |-> CASE u = p1 -> n1 [] u \in {p2, p3} -> n2 [] OTHER -> NoNode]
      revision == [u \in Pod |-> IF u = p4 THEN Unbound ELSE Bound] IN
  /\ snap = SnapshotOf([u \in Pod |-> IF u \in {p2, p3} THEN PodRefFor(u, n2) ELSE None])
  /\ resv = [u \in Pod |-> IF u # p1 THEN None
                           ELSE [quota |-> q1, sched |-> k1, node |-> n1,
                                 phase |-> "BoundObs", old |-> FALSE]]
  /\ api = revision /\ boundTo = place
  /\ synced = TRUE /\ lister = revision
  /\ pend = [u \in Pod |-> IF u = p1 THEN {Bound} ELSE {}]
  /\ initial = {} /\ handler = NoCallback
  /\ cycle = [u \in Pod |-> IF u = p4 THEN "queued" ELSE "bound"]
  /\ target = [u \in Pod |-> NoNode]
  /\ janitor = JanitorIdle /\ reconciler = ReconcilerIdle /\ restarts = 0

SkewSpec == SkewInit /\ [][Next]_vars
=============================================================================
