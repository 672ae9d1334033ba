CONSTANTS
  MaxEvents = 2
  MaxBytes = 3
  UpdateBytes = 2
  MaxHeld = 2
  Closes = TRUE
  MaxLog = 5
  MaxBreaks = 2
  MaxQueue = 2
SPECIFICATION Spec
INVARIANTS TypeOK RingContiguous ReplayComplete FanOutOrdered CursorExact StreamNoFreshDiscard
PROPERTY NothingErased
CHECK_DEADLOCK FALSE
