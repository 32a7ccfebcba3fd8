SPECIFICATION Spec
CONSTANTS
  r1 = r1
  r2 = r2
  Runs <- MCRuns
  MaxAttempts = 3
INVARIANT ReopensTheFailedAttempt
CHECK_DEADLOCK FALSE
