SPECIFICATION FairSpec
CONSTANTS
  Pages = 2
  Retries = 1
  MaxStored = 1
  MaxQueue = 1
  MaxEvents = 4
  MaxFrames = 2
  MaxRedials = 1
INVARIANTS TypeOK PagesInOrder StoreBounded WaitsForSomething
PROPERTIES Ordered Settles
CHECK_DEADLOCK FALSE
