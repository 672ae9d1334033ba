CONSTANTS
  MaxEvents = 4
  MaxBytes = 9
  UpdateBytes = 2
  MaxHeld = 2
  Closes = FALSE
  MaxLog = 3
  MaxBreaks = 1
  MaxQueue = 3
SPECIFICATION FairSpec
PROPERTY CaughtUp
CHECK_DEADLOCK FALSE
