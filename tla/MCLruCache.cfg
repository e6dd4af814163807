SPECIFICATION Spec
CONSTANTS
  t1 = t1  t2 = t2  t3 = t3
  k1 = k1  k2 = k2  k3 = k3
  e1 = e1  e2 = e2  e3 = e3  e4 = e4
  None = None
  Threads <- TwoThreads
  Keys <- ThreeKeys
  Entries <- FourEntries
  InitCapacity = 1
  SizeMax = 2
  GhostsMin = 1
  Limits <- TightLimits
  MaxFaults = 1
SYMMETRY Symmetric
CHECK_DEADLOCK FALSE
INVARIANTS IInv SingleFlight NeverAnotherFrame NothingGrows
PROPERTIES EvictsOldestFirst ListsAgree
