SPECIFICATION Spec
CONSTANTS
  r1 = r1
  r2 = r2
  Runs <- MCRuns
  MaxAttempts = 2
SYMMETRY AnyOrder
INVARIANT TypeOK
INVARIANT EvidenceIsBound
INVARIANT WorkloadHasAuthority
PROPERTY KeepsPromise
PROPERTY NoTakeover
PROPERTY AcceptedIsClean
PROPERTY StartedGnbIsStopped
CHECK_DEADLOCK FALSE
