SPECIFICATION FairSpec
CONSTANTS
  Threads = {t1, t2, t3}
  MaxLoads = 2
INVARIANTS FreesLoadedNetwork ExecutingHasMemory MemoryHasUser
PROPERTY MutexReleased
CHECK_DEADLOCK FALSE
