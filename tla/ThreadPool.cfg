CONSTANTS
  PoolThreads = {t1, t2}
  capacity = 3
  loop_size = 3
  modulo = 2
SPECIFICATION Spec
INVARIANT QueueProcessed
CHECK_DEADLOCK FALSE
