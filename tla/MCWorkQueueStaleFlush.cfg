CONSTANTS
  Node = {n1}
  Item = {i1, i2}
  NoNode = NoNode
  MaxAttempts = 2
  MaxConcurrent = 2
  Decisions = {TRUE}
  MaxLate = 0
  Timely = TRUE
SPECIFICATION Spec
CONSTRAINT OutboxOnly
INVARIANTS ResultKept
CHECK_DEADLOCK FALSE
