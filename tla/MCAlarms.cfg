CONSTANTS
  Window = 3
  Hold = 3
  Readings <- MCReadings
  Remembered = 7
  MaxHoles = 3
  Axis <- MCAxis
SPECIFICATION AlarmsSpec
INVARIANTS TypeOK AlarmIsFall FallIsNoticed RoadTypeOK AlarmsEnd
PROPERTY HolesKept
