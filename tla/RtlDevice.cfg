SPECIFICATION LiveSpec
CONSTANTS
  MaxOpens = 3
  MaxBlocks = 4
  Capacity = 2
  Freqs = {1}
  OpenFreq = 0
CHECK_DEADLOCK FALSE
INVARIANTS
  Lifetimes
  InOrder
PROPERTIES
  CloseReturns
