CONSTANTS
  NodeSock = {w1, w2, w3}
  ClientSock = {c1, c2, f}
  Foreign = {f}
  NoSock = NoSock
  MaxWaiting = 2
  MaxRooms = 4
  Holds = TRUE
SPECIFICATION Spec
SYMMETRY SocketSymmetry
INVARIANTS TypeOK NoticesAgree NoEmptyRoom OwnAccountOnly NobodyHeldInVain NodeReachable ClosedLeaves
CHECK_DEADLOCK FALSE
