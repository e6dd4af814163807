SPECIFICATION FairSpec
CONSTANTS
  w1 = w1  w2 = w2
  j1 = j1  j2 = j2  j3 = j3  j4 = j4  j5 = j5  j6 = j6
  Consumer = Consumer
  None = None
  Workers <- TwoWorkers
  Jobs <- SixJobs
  NumFrames = 3
  Ahead = 4
  Room = 12
  Strides <- ByOneOrTwo
  MaxCalls = 2
  MaxFaults = 1
CHECK_DEADLOCK FALSE
INVARIANTS JobsAccounted ReservedIsOnItsWay NobodyLeft
PROPERTIES EveryCallReturns
