SPECIFICATION FairSpec
CONSTANTS
  MaxOutages = 1
  Foreign = FALSE
  MaxEvents = 2
  s1 = s1
  s2 = s2
  Sensors <- MCSensors
INVARIANT TypeOK
INVARIANT NoEarlyTelemetry
INVARIANT ReadyEvidenceStays
INVARIANT CertifiedIsClean
PROPERTY KeepsDelivery
PROPERTY RunEnds
CHECK_DEADLOCK FALSE
