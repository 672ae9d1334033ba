CONSTANTS
  Node = {n1, n2}
  Item = {i1}
  NoNode = NoNode
  MaxAttempts = 2
  MaxConcurrent = 1
  Decisions = {TRUE, FALSE}
  MaxLate = 1
  Timely = FALSE
SPECIFICATION Spec
SYMMETRY NodeSymmetry
INVARIANTS TypeOK SavedBeforeSent OutcomeFenced ResultKept AttemptExecutedOnce SoleExecution
PROPERTIES OutcomeFinal Lifecycle
CHECK_DEADLOCK FALSE
