SPECIFICATION LiveSpec
CONSTANTS
  Controllers = {app}
  Calls <- AppCalls
  Threads = {t1, t2}
  NoThread = none
  DeviceMayDrop = FALSE
CHECK_DEADLOCK FALSE
PROPERTY StopReturns
