SPECIFICATION Spec
CONSTANTS
  u1 = u1
  u2 = u2
  n1 = n1
  n2 = n2
  tight = tight
  level = level
  loose = loose
  Peer = {u1, u2}
  Kin = {u1, u2}
  Node = {n1, n2}
  At <- OneNode
  Policy = {"pol1", "pol2"}
  Limits = {tight}
  MaxPodsPerNode <- Cap
  MaxSkew <- Skew
  RequirePolicy = FALSE
  StartSynced = TRUE
  HintAfterCache = TRUE
  Retarget = FALSE
  MaxChanges = 1
  Absent = Absent
  Elsewhere = Elsewhere
  None = None
CHECK_DEADLOCK FALSE
INVARIANT NoPanic
