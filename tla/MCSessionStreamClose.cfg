CONSTANTS
  MaxEvents = 4
  MaxBytes = 9
  UpdateBytes = 2
  MaxHeld = 2
  Closes = TRUE
  MaxLog = 4
  MaxBreaks = 1
  MaxQueue = 3
SPECIFICATION Spec
INVARIANT NoFreshDiscard
CHECK_DEADLOCK FALSE
