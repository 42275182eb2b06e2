CONSTANTS
  Window = 3
  Hold = 2
  Readings <- MCReadings
  Remembered = 6
SPECIFICATION Spec
INVARIANT AlarmNeedsImpact
