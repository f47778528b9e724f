CONSTANTS
  NumThreads = 2
  Groups = {g1}
  MaxJobs = 2
  MayShutDown = TRUE
  None = None
SPECIFICATION FairSpec
CHECK_DEADLOCK FALSE
PROPERTY AllThreadsTerminate
