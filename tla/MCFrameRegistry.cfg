SPECIFICATION Spec
CONSTANTS
  t1 = t1  t2 = t2  c1 = c1
  f1 = f1  f2 = f2  f3 = f3 
  b1 = b1  b2 = b2 
  None = None
  Threads <- TwoThreads
  Locals = 2
  Cached <- OneCached
  Frames <- ThreeFrames
  Buffers <- TwoBuffers
  Sizes <- TwoSizes
SYMMETRY Symmetric
INVARIANTS CountsSound WriterIsAlone MemorySound
