SPECIFICATION LiveSpec
CONSTANTS
  Kinds = {"fir", "decimator", "ddc", "resampler", "resamplerC"}
  AskedSize = 2
  BufSize = 2
  One = 6
  Rates = {2, 3}
  Freqs = {0, 3}
  Turn = 8
  MaxSamples = 4
  MaxCall = 2
  MaxOut = 20
CHECK_DEADLOCK FALSE
INVARIANTS
  Bounded
  NoDrift
  Continuous
  Settled
  LinearPhase
PROPERTIES
  UpdateReturns
