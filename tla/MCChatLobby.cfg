SPECIFICATION Spec
CONSTANTS
  Clients = {c1, c2, c3}
  NoClient = none
  Sockets = {h1, h2, h3}
  NumRooms = 1
  Scripts <- JoinTalk
  MaxBatch = 1
  AuthMayFail = FALSE
  FdSetSize = 64
SYMMETRY Symmetry
INVARIANTS RoomsHoldLiveSockets ScanNeverBlocks
PROPERTIES TextReachesRoom ImplementsHall
