----------------------------- MODULE SeatLedger -----------------------------
(***************************************************************************)
(* What the plugin promises about maxPodsPerNode, with none of the         *)
(* machinery that achieves it: a ledger of seats.  A pod takes a seat on a *)
(* node only while its service has fewer pods there than the policy's cap, *)
(* it keeps that seat on that node until it gives it up, and seats are     *)
(* given up freely.                                                        *)
(***************************************************************************)
EXTENDS Integers, FiniteSets

CONSTANTS Pod, Node, NoNode, QuotaKey,
          quotaOf,         \* Pod -> QuotaKey
          MaxPodsPerNode   \* QuotaKey -> cap

VARIABLE seat              \* Pod -> the node it has a seat on, or NoNode

SeatsTaken(n, q) == {u \in Pod : quotaOf[u] = q /\ seat[u] = n}

Init == seat = [u \in Pod |-> NoNode]

TakeSeat(u, n) ==
  /\ seat[u] = NoNode
  /\ Cardinality(SeatsTaken(n, quotaOf[u])) < MaxPodsPerNode[quotaOf[u]]
  /\ seat' = [seat EXCEPT ![u] = n]

GiveSeats(S) == seat' = [u \in Pod |-> IF u \in S THEN NoNode ELSE seat[u]]

Next == \/ \E u \in Pod, n \in Node : TakeSeat(u, n)
        \/ \E S \in SUBSET Pod : GiveSeats(S)

Spec == Init /\ [][Next]_seat
=============================================================================
