CONSTANTS
  NumThreads = 2
  Groups = {g1, g2}
  MaxJobs = 3
  MayShutDown = FALSE
  None = None
SPECIFICATION FairSpec
CHECK_DEADLOCK FALSE
INVARIANTS NoUseAfterFree WaitedCopiesAreMade
PROPERTIES JobsComplete WaitReturns
