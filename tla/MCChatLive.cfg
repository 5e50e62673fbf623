SPECIFICATION FairSpec
CONSTANTS
  Clients = {c1, c2}
  NoClient = none
  Sockets = {h1, h2}
  NumRooms = 2
  Scripts <- Leavers
  MaxBatch = 2
  AuthMayFail = TRUE
  FdSetSize = 3
INVARIANTS RoomsHoldLiveSockets ScanNeverBlocks
PROPERTIES PacketsConsumed MainLoopTurns
