SPECIFICATION Spec
CONSTANTS
  MaxLocks = 2
  MaxEdits = 1
  MaxKills = 2
  c1 = c1
  c2 = c2
  deploy = deploy
  plan = plan
  Commits <- MCCommits
  Tip <- MCTip
  Isolated <- MCIsolated
  Direct <- MCDirect
INVARIANT TypeOK
INVARIANT ReadsItsCommit
CHECK_DEADLOCK FALSE
