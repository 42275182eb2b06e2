CONSTANTS
  Ids <- TwoIds
  Fingers = {a, b}
  None = none
SPECIFICATION Spec
INVARIANTS TypeOK ModeTimersCoupled AttendanceIsQuiet RegisteredHasTemplate OrphansAccounted
PROPERTIES RegisteredTemplateStable ToggledByOwner LedgerKept
SYMMETRY FingerSymmetry
