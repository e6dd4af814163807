SPECIFICATION Spec
CONSTANTS
  t1 = t1  t2 = t2
  None = None
  Threads <- TwoThreads
  Top = 1
  NumFrames = 2
  Serialized <- Source
  Runtime <- Second
  Inquiring <- Second
  MaxAsks = 2
SYMMETRY Symmetric
CHECK_DEADLOCK FALSE
INVARIANTS NoCircularWait AwaitedAreAll LocksExclude
