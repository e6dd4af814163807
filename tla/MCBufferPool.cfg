SPECIFICATION PoolSpec
CONSTANTS
  core = core  worker = worker  b1 = b1  b2 = b2  b3 = b3
  Null = Null
  Envs <- BothEnvs
  Blocks <- ThreeBlocks
  Requests <- SomeRequests
  Alignments <- SomeAlignments
  Origins <- SomeOrigins
  WordSize = 2
SYMMETRY Symmetric
CHECK_DEADLOCK FALSE
INVARIANTS BuffersFit BuffersAccounted
