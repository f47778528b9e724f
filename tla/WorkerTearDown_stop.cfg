SPECIFICATION FairSpec
CONSTANTS
  NumWorkers = 3
  Blocks = 2
  MaxTries = 2
INVARIANTS NothingLeftBehind OnlyWholeSubmissionsComplete
PROPERTIES DestructorReturns AcceptedBlocksRun
CHECK_DEADLOCK FALSE
