CONSTANTS
  Threads = {t1, t2}
  Creator = t1
  MaxRefs = 2
SPECIFICATION Spec
CHECK_DEADLOCK FALSE
INVARIANT LastReleaseDeletes
