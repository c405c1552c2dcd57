CONSTANTS
  adoPool = adoPool
  udtPool = udtPool
  w1 = w1
  w2 = w2
  w3 = w3
  Pool = {adoPool}
  LastBuilt = adoPool
  Stoppable = {adoPool}
  Worker = {w1, w2}
  Home <- OneHome
  Slot <- OneSlot
  Threads <- OneThreads
  Submitter = {s1, s2}
  Task = {t1, t2, t3, t4}
  EventUse = {FALSE}
  None = None
SPECIFICATION Spec
INVARIANTS TypeOK AtMostOnce OnOneList IdleThreadsRest NoTaskLost StoppedIsQuiet
PROPERTIES QueueOrder QueueSpec
