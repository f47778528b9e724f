CONSTANTS
  Queues = {q1}
  Hosts = {h1, h2}
  Threads = {t1}
  FirstThread = t1
  UserEvents = {u1}
  Shapes <- Copy
  MaxCmds = 2
  MaxWaits = 1
  None = None
SPECIFICATION FairSpec
PROPERTY FinishRunsWaitingCommands
CHECK_DEADLOCK FALSE
