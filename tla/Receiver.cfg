SPECIFICATION LiveSpec
\* A store of NULL's demodulator may end the process.
CHECK_DEADLOCK FALSE
CONSTANTS
  Clients = {c1, c2}
  Vfos = {v0, v1}
  FirstVfo = v0
  Modes = {"NULL", "AM", "FM"}
  WideBlocks = 2
  BlockUnits = 5
  DemodUnits = 5
  Unset <- MCUnset
  FrameUnits = 2
  PagePackets = 2
  Numbers = 4
INVARIANTS
  NeverTorn
  OneModePerBlock
  TunedAsAsked
  PageWhole
PROPERTIES
  PagesKeepComing
