CONSTANTS
  SCOUNT = 3
  PhCount = 4
  PhTrim = 1
  Samples = {1, 2, 3}
  PhSamples = {1, 2}
SPECIFICATION Spec
INVARIANT SpikesTrimmed
PROPERTY MedianOfRecent
