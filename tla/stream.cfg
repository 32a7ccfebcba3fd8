SPECIFICATION FairSpec
CONSTANT MaxLines = 3
INVARIANT TypeOK
INVARIANT AnnouncedRan
INVARIANT FailuresStand
INVARIANT OutputIsRead
PROPERTY CallEnds
CHECK_DEADLOCK FALSE
