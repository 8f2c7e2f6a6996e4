CONSTANTS
  Threads = {t1, t2}
  NoThread = NoThread
  Loops = 1
  Runs = 1
SPECIFICATION Spec
PROPERTY EveryRunEnds
CHECK_DEADLOCK FALSE
