SPECIFICATION Spec
CONSTANTS
  p1 = p1
  p2 = p2
  r1 = r1
  r2 = r2
  Procs = {p1}
  Runs = {r1}
INVARIANT ClosedIsReady
