SPECIFICATION CertFairSpec
CONSTANTS
  a = a
  b = b
  Replica = {a, b}
  NoReplica = NoReplica
  Faults = {"write", "roll", "restart"}
  SerialColdStart = TRUE
  ReloadReliable = TRUE
  MaxEvents = 2
INVARIANTS CertTypeOK 
PROPERTIES FreshSecretKept 
