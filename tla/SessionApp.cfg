SPECIFICATION LiveSpec
CONSTANTS
  Controllers = {app}
  Calls <- AppCalls
  Threads = {t1, t2}
  NoThread = none
  DeviceMayDrop = TRUE
CHECK_DEADLOCK FALSE
INVARIANTS
  ReaderHoldsHandle
  TunesHeldDevice
  StopFindsReader
PROPERTY StopReturnsOnceClosed
