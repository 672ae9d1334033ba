CONSTANTS
  Node = {a, b}
  First = a
  NoNode = NoNode
  MaxTurns = 3
  MaxEpoch = 1
  MaxFaults = 0
  MaxShips = 1
  WorktreeSync = {FALSE}
SPECIFICATION Spec
INVARIANTS OwnerKeepsTurns
CHECK_DEADLOCK FALSE
