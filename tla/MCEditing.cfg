SPECIFICATION ESpec
CONSTANTS
  Lengths = {0,1,2,3,4,5,6,7,8,9,10,11,12,13,14,15,16,17,18,19,20,21,22,23,24}
  Starts <- SomeStarts
  Counts <- SomeCounts
  Rates <- SomeRates
  Sources <- SomeSources
  Numbers = {0, 1, 2}
  Repeats <- SomeRepeats
  MaxFilters = 4
  Lists <- SomeLists
  Later = {1}
  Forever = 5
  INT_MAX = 7
CHECK_DEADLOCK FALSE
INVARIANTS EverySampleOnce FramesAsEdited SoundAsEdited
PROPERTIES EveryCallReturns
