CONSTANTS
  Queues = {q1}
  Hosts = {h1, h2}
  Threads = {t1, t2}
  FirstThread = t1
  UserEvents = {}
  Shapes <- ReadAndBadKernel
  MaxCmds = 3
  MaxWaits = 0
  None = None
SYMMETRY HostSymmetry
SPECIFICATION Spec
INVARIANTS TypeOK InOrderExecution CompletionIsExact NoUseAfterFree
PROPERTIES StatusAdvances FinishWaitsForAll BlockingCallsWait
