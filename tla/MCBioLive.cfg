CONSTANTS
  Ids <- OneId
  Fingers = {a}
  None = none
SPECIFICATION SteadySpec
PROPERTIES ModeFollowed RequestsServed
