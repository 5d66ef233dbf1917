SPECIFICATION Spec
CONSTANTS
  u1 = u1
  u2 = u2
  n1 = n1
  n2 = n2
  tight = tight
  level = level
  loose = loose
  Peer = {u1, u2}
  Kin = {u1}
  Node = {n1, n2}
  At <- OneNode
  Policy = {"pol1", "pol2"}
  Limits = {level, loose}
  MaxPodsPerNode <- Cap
  MaxSkew <- Skew
  RequirePolicy = TRUE
  StartSynced = FALSE
  HintAfterCache = FALSE
  Retarget = TRUE
  MaxChanges = 1
  Absent = Absent
  Elsewhere = Elsewhere
  None = None
CHECK_DEADLOCK FALSE
INVARIANT CycleTypeOK
INVARIANT FilterAgreesWithReserve
INVARIANT ScoreOrdersNodes
INVARIANT NoPanic
 
