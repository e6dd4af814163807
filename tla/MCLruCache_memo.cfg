SPECIFICATION FairSpec
CONSTANTS
  t1 = t1  t2 = t2  t3 = t3
  k1 = k1  k2 = k2  k3 = k3
  e1 = e1  e2 = e2  e3 = e3  e4 = e4
  None = None
  Threads <- ThreeThreads
  Keys <- TwoKeys
  Entries <- ThreeEntries
  InitCapacity = 1
  SizeMax = 2
  GhostsMin = 1
  Limits <- NoLimits
  MaxFaults = 1
CHECK_DEADLOCK FALSE
PROPERTIES ImplementsFrameMemo EveryCallReturns
