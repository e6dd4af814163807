SPECIFICATION FairSpec
CONSTANTS
  c1 = c1  w1 = w1  w2 = w2
  Owner = Owner  STOP = STOP
  None = None
  Callers <- OneCaller
  Workers <- TwoWorkers
  PerThread = 1
  Capacity = 2
  MaxJobs = 2
  MaxNested = 1
  MaxSlots = 2
CHECK_DEADLOCK FALSE
INVARIANTS EachJobOnce WaitMeansDone
PROPERTIES ImplementsJobFifo EveryCallReturns
