CONSTANTS
  MaxTimers = 2
  Callbacks = {f}
  NoCallback = null
  Wrap = 3
  Delays <- MCOneDelay
  RunCounts <- MCRunCounts
  DeletesItself = FALSE
SPECIFICATION FairSpec
INVARIANTS TypeOK SlotCount NoNullCall NeverEarly RunBudget
PROPERTIES PromiseKept IntervalTimersServed
