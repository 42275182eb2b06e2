CONSTANTS
  MaxId = 4
  MaxClients = 2
  Levels <- MCLevels
SPECIFICATION Spec
INVARIANTS DrivesForPresentDriver DriverlessIsSafe
