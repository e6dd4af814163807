SPECIFICATION PatternSpec
CONSTANTS
  Frames = {0, 1, 2, 3, 4, 5}
  LockLength = 3
  MaxMisses = 4
  MaxStreak = 1
INVARIANTS PatternInv LockedIsRecent
PROPERTIES LocksOnStreak NoDirectSwitch
