SPECIFICATION AdmSpec
CONSTANTS
  c1 = c1
  c2 = c2
  w1 = w1
  w2 = w2
  k1 = k1
  k2 = k2
  sA = sA
  sB = sB
  va = va
  vb = vb
  vEmpty = vEmpty
  Client = {c1, c2}
  Server = {w1, w2}
  LabelKey = {k1, k2}
  SchedName = {sA, sB}
  DefaultSched = sA
  Value = {va, vb, vEmpty}
  EmptyValue = vEmpty
  Draft <- Drafts
  Rogue <- Rogues
  ConfigMap <- ConfigMaps
  NoConfigMap = NoConfigMap
  Unset = Unset
  NotUsable = NotUsable
  NoPolicy = NoPolicy
  MaxEdits = 2
INVARIANTS AdmTypeOK AdmittedIsEffective
PROPERTIES NoNewAmbiguity
