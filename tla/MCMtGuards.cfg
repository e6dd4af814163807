SPECIFICATION Spec
CONSTANTS
  g1 = g1  g2 = g2  p1 = p1  p2 = p2
  None = None
  Guards <- TwoGuards
  Prefetchers <- TwoPrefetchers
  ThreadCounts <- OneAndTwo
  Again = TRUE
  MaxCalls = 3
SYMMETRY Symmetric
INVARIANTS EachItsInstance SinglePrefetcher ParametersSuffice
CHECK_DEADLOCK FALSE
