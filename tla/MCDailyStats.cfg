CONSTANTS
  NSums = 2
  LastDay = 1
  MaxPasses = 2
  MaxResets = 1
SPECIFICATION DaySpec
INVARIANTS DayConsistent PublishedIsCounted
PROPERTY WritesAddOne
