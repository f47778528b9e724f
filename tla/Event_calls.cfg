CONSTANTS
  e1 = e1
  u1 = u1
  Internal = {e1}
  User = {u1}
  Hosts = {h1, h2}
  Callbacks = {c1, c2}
  WaitArgs <- Lists
  None = None
SPECIFICATION FairSpec
INVARIANTS TypeOK CalledOnceReached CallbacksBeforeWait
PROPERTIES WaitersReturn CallbacksRun
