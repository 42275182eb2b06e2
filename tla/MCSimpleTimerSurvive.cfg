CONSTANTS
  MaxTimers = 2
  Callbacks = {f}
  NoCallback = null
  Wrap = 3
  Delays <- MCDelays
  RunCounts <- MCRunCounts
  DeletesItself = TRUE
SPECIFICATION Spec
PROPERTY IntervalTimersSurvive
