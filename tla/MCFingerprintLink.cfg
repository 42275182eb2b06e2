CONSTANTS
  DataSize = 28
  Codes <- MCCodes
  Matches <- MCMatches
  MaxCommands = 3
  MaxLost = 1
  MaxDropped = 1
  MaxResets = 1
SPECIFICATION FairSpec
INVARIANTS TypeOK SlipBounded
PROPERTIES QueueKept CommandReturns
CHECK_DEADLOCK FALSE
