CONSTANTS
  Tasks = {t1, t2, t3, t4, t5}
  NoTask = NoTask
  Threads = 3
SPECIFICATION FairSpec
INVARIANTS MutualExclusion AssertsHold NoLostWakeup
PROPERTIES ImplementsCriticalSection EventuallyLeft
