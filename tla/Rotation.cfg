CONSTANTS
  Agents = {a, b}
  Rotators = {a, b}
  Workers = {w}
  MaxKey = 3
  MaxVersion = 7
  MaxRows = 2
  MaxCrash = 1
  Forcible = {b}
  GatewayFails = TRUE
SPECIFICATION LiveSpec
INVARIANTS AppliedKeyLive  CompletedIsClean
PROPERTIES RotationsComplete
