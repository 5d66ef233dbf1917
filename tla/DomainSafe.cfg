SPECIFICATION DomainSpec
CONSTANTS
  va = va
  v2 = v2
  v9 = v9
  v20 = v20
  n1 = n1
  n2 = n2
  svc = svc
  gpu = gpu
  zone = zone
  vEmpty = vEmpty
  Value = {va, v2, v9, v20, n1, n2, vEmpty}
  EmptyValue = vEmpty
  Decimal <- Decimals
  FieldName = FieldName
  NoAffinity = NoAffinity
  Half64 = 16
  Slot = {1, 2}
  PodState <- PodStates
  NodeState <- NodeStates
  Unlabelled = Unlabelled
  NoPod = NoPod
  NoRef = NoRef
  MaxNodes = 2
INVARIANTS DomainTypeOK KinShareDomain DomainIsNative
