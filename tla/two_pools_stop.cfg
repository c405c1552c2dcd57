CONSTANTS
  adoPool = adoPool
  udtPool = udtPool
  w1 = w1
  w2 = w2
  w3 = w3
  Pool = {adoPool, udtPool}
  LastBuilt = udtPool
  Stoppable = {adoPool}
  Worker = {w1, w2, w3}
  Home <- TwoHome
  Slot <- TwoSlot
  Threads <- TwoThreads
  Submitter = {s1}
  Task = {t1, t2}
  EventUse = {FALSE}
  None = None
SPECIFICATION FairSpec
PROPERTIES StopReturns
CHECK_DEADLOCK FALSE
