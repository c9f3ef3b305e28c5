SPECIFICATION LiveSpec
CONSTANTS
  Producers = {p1, p2}
  Consumers = {c1, c2}
  Size = 3
  Buffer = {b1, b2}
  Nothing = nothing
CHECK_DEADLOCK FALSE
INVARIANTS
  NoLostWakeup
PROPERTIES
  ImplementsFifo
  Served
