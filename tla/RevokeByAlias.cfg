SPECIFICATION Spec
CONSTANTS
  Consoles = {c}
  Enrollers = {e}
  MaxKey = 6
  MaxRot = 2
  MaxRequests = 3
  MintInRotation = TRUE
INVARIANT ModelKeyLive
CHECK_DEADLOCK FALSE
