SPECIFICATION Spec
CHECK_DEADLOCK FALSE
SYMMETRY Symmetry
CONSTANTS
  JsonVal = {v1, v2, v3, v4}
  Name = {x, y}
  NULL = null
  MaxDepth = 2
  Buckets = 2
  Bucket <- MCBucket
  MaxStr = 4
  BufLen = 65537
  XorByte <- MCXorByte
  Opcodes = {2}
  Data <- MCData
  Masks <- MCMasks
  MaxFrames = 2
  MaxWire = 65600
  Chunk = 5
  N = 3
  Threshold = 2
  Reads = {1, 2, 3, 4, 9}
  Most = 22
  Rate = 16
  StartFreq = 2
  Tunable <- MCTunable
  DdcPb = 1
  Lines <- MCLines
  MostLines = 4
  Alphabet <- MCAlphabet
  Longest <- MCLongest
  Largest = 140
INVARIANTS
  TreesKept
  JsonText
  FramesInStep
  Traffic
  PureParts
  SpectraFollow
  SettingsKept
