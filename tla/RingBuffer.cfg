SPECIFICATION LiveSpec
CONSTANTS
  Slots = 3
  Parts = 2
  Sample = {s1, s2}
  Garbage = garbage
  Nothing = nothing
INVARIANTS
  NoRace
PROPERTIES
  ImplementsChannel
  Consumed
