CONSTANTS
  MaxEvents = 1
  MaxBytes = 3
  UpdateBytes = 2
  MaxHeld = 2
  Closes = FALSE
  MaxLog = 5
  MaxBreaks = 1
  MaxQueue = 2
SPECIFICATION FairSpec
PROPERTIES ToldCaughtUp GapHealed
CHECK_DEADLOCK FALSE
