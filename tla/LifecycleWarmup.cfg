SPECIFICATION Spec
CONSTANTS
  p1 = p1
  p2 = p2
  p3 = p3
  p4 = p4
  n1 = n1
  n2 = n2
  q1 = q1
  k1 = k1
  Pod = {p1, p2}
  Node = {n1}
  QuotaKey = {q1}
  SchedKey = {k1}
  NoNode = NoNode
  NoKey = NoKey
  None = None
  Managed = {p1, p2}
  quotaOf <- OneServiceQuota
  schedOf <- OneServiceSched
  Domains <- WholeCluster
  MaxPodsPerNode <- CapOne
  MaxSkew <- SkewOne
  MaxRestarts = 1
  TTLCoversLag = TRUE
  AtomicRebuild = TRUE
  DefiniteBindErrors = TRUE
  WaitForHandlers = FALSE
INVARIANTS CapHolds
