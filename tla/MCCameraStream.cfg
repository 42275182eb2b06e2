CONSTANTS
  MaxId = 4
  MaxClients = 1
SPECIFICATION FairSpec
INVARIANTS TypeOK NoGhostViewer NoPictureDropped
PROPERTIES LoopReturns ViewerServed ViewersLimited
