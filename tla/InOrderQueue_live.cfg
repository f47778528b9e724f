CONSTANTS
  Queues = {q1}
  Hosts = {h1}
  Threads = {t1, t2}
  FirstThread = t1
  UserEvents = {}
  Shapes <- CopyAndKernel
  MaxCmds = 3
  MaxWaits = 1
  None = None
SPECIFICATION FairSpec
PROPERTIES CommandsComplete FinishReturns
