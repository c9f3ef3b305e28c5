SPECIFICATION LiveSpec
CONSTANTS
  Controllers = {c1, c2}
  Calls <- StoppingCalls
  Threads = {t1, t2}
  NoThread = none
  DeviceMayDrop = FALSE
CHECK_DEADLOCK FALSE
PROPERTY ReaderFollowsDevice
