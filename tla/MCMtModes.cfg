SPECIFICATION ModeSpec
CONSTANTS
  f = f  s = s  a1 = a1  a2 = a2
  Nothing = Nothing
  Functions <- TwoFunctions
  ScriptFunctions <- Scripts
  Reports <- TwoReports
  Addresses <- TwoAddresses
  MaxDepth = 3
  MaxSettings = 1
SYMMETRY Symmetric
CHECK_DEADLOCK FALSE
INVARIANTS StackSound ChainedAreCovered
