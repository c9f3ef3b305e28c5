SPECIFICATION Spec
CHECK_DEADLOCK FALSE
CONSTANTS
  Rate = 16
  StartFreq = 2
  Tunable <- MCTunable
  DdcPb = 1
  Digits = 2
  Base = 2
  Width = 8
  Xs = {3, 5}
  Near = 1
  Reach = 2
  Half = 1
  MaxZoom = 1
  Shift <- MCShift
  EdgeNum = 1
  EdgeDen = 4
  WaterfallPb = 2
  Offsets = {0, 1}
  Unset <- MCUnset
  Bound = 4
INVARIANTS
  VfoAgrees
  InView
  DialShowsDevice
