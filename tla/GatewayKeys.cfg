SPECIFICATION Spec
CONSTANTS
  Consoles = {c}
  Enrollers = {e}
  MaxKey = 6
  MaxRot = 2
  MaxRequests = 4
  MintInRotation = FALSE
INVARIANTS ModelKeyLive
PROPERTIES OwnerKeyKept CallersAnswered
CHECK_DEADLOCK FALSE
