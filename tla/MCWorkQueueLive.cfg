CONSTANTS
  Node = {n1}
  Item = {i1}
  NoNode = NoNode
  MaxAttempts = 2
  MaxConcurrent = 1
  Decisions = {TRUE}
  MaxLate = 1
  Timely = TRUE
SPECIFICATION FairSpec
PROPERTIES RunSettles OutboxDrains
CHECK_DEADLOCK FALSE
