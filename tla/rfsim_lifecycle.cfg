SPECIFICATION MCSpec
CONSTANTS
  p1 = p1
  p2 = p2
  r1 = r1
  r2 = r2
  Procs <- MCProcs
  Runs <- MCRuns
SYMMETRY Interchangeable
INVARIANT TypeOK
INVARIANT OneWorker
INVARIANT StatusIsBacked
PROPERTY KeepsHistory
PROPERTY AcceptedIsClean
