CONSTANTS
  MaxLoops = 3
  number = 4
  FibTasks <- AllFibTasks
  PoolThreads = 2
  capacity = 2
  JobThreads = 2
  YieldCodes <- AllYieldCodes
SPECIFICATION TaskPrograms
INVARIANTS NoLostBump ValuesRight SomeoneWillSignal JobsInOrder HandlersAgree
PROPERTY AllFinish
