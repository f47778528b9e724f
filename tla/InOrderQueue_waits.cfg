CONSTANTS
  Queues = {q1, q2}
  Hosts = {h1}
  Threads = {t1}
  FirstThread = t1
  UserEvents = {u1}
  Shapes <- Copy
  MaxCmds = 3
  MaxWaits = 2
  None = None
SPECIFICATION Spec
INVARIANTS WaitListsRespected
PROPERTY ImplementsCommandOrder
CHECK_DEADLOCK FALSE
