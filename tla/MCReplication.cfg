CONSTANTS
  Node = {a, b}
  First = a
  NoNode = NoNode
  MaxTurns = 2
  MaxEpoch = 1
  MaxFaults = 2
  MaxShips = 2
  WorktreeSync = {TRUE, FALSE}
SPECIFICATION FairSpec
INVARIANTS TypeOK ReplicaIsSnapshot CheckpointBeforeTranscript OnePromotionPerEpoch
PROPERTY UndisturbedTurnHeals
CHECK_DEADLOCK FALSE
