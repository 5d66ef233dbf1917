------------------------- MODULE MCSchedulingCycle -------------------------
(* Instances of SchedulingCycle for TLC.                                    *)
EXTENDS SchedulingCycle

CONSTANTS u1, u2, n1, n2, tight, level, loose

OneNode == [u \in Peer |-> n1]
Cap == [l \in Limits |-> IF l = tight THEN 1 ELSE 2]
Skew == [l \in Limits |-> IF l = loose THEN 2 ELSE 1]
=============================================================================
