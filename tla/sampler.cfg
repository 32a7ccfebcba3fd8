SPECIFICATION Spec
CONSTANTS
  Interval = 2
  MinWindow = 10
  Window = 4
  Grace = 4
  MaxTime = 16
INVARIANT TypeOK
INVARIANT KeptIsCovered
INVARIANT PromptIsKept
CHECK_DEADLOCK FALSE
