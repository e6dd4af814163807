SPECIFICATION Spec
CONSTANTS
  t1 = t1  t2 = t2  c1 = c1  c2 = c2  c3 = c3
  None = None
  Threads <- TwoThreads
  Caches <- ThreeCaches
  Asked <- FirstTwo
  MaxCapacity <- TwoOneNone
  NoLimit = 9
SYMMETRY Symmetric
INVARIANTS RegistrySound
PROPERTIES CachingReduced AskerGrows
