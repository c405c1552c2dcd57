CONSTANTS
  p1 = p1
  t1 = t1
  t2 = t2
  NSockets = 3
  Backlog = 1
  Peers = {p1}
  Threads = {t1, t2}
  Accepters = {t1}
  Worker = Worker
  None = None
SPECIFICATION FairSpec
INVARIANTS NoUseOfDeleted QueuedAreOpen AcceptWoken
PROPERTY AllRemoved
CHECK_DEADLOCK FALSE
