SPECIFICATION Spec
CONSTANTS
  r1 = r1
  r2 = r2
  r3 = r3
  NoId = NoId
  Ids <- TwoIds
  Menu <- TwoJobs
INVARIANT NoOrphans
CHECK_DEADLOCK FALSE
