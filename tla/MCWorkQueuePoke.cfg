CONSTANTS
  Node = {n1}
  Item = {i1}
  NoNode = NoNode
  MaxAttempts = 2
  MaxConcurrent = 1
  Decisions = {TRUE}
  MaxLate = 0
  Timely = TRUE
SPECIFICATION Spec
INVARIANTS RefusalIsReal
CHECK_DEADLOCK FALSE
