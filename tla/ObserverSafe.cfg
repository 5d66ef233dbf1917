SPECIFICATION ObserverFairSpec
CONSTANTS
  d1 = d1
  d2 = d2
  d3 = d3
  svc = svc
  lone = lone
  p1 = p1
  p2 = p2
  p3 = p3
  n1 = n1
  n2 = n2
  zone = zone
  va = va
  vEmpty = vEmpty
  Value = {va, n1, n2, vEmpty}
  EmptyValue = vEmpty
  Decimal <- Decimals
  FieldName = FieldName
  NoAffinity = NoAffinity
  Half64 = 16
  Dep = {d1, d2, d3}
  Service = {svc, lone}
  Variants <- WorldVariants
  Start <- Starts
  KedaKnown = TRUE
  Half32 = 32
  Unlabelled = Unlabelled
  Unset = Unset
  None = None
  MaxEvents = 3
INVARIANTS ObserverTypeOK ObserverInv 
PROPERTIES OutageKeepsLastGood DeficitIsReal 
