SPECIFICATION FairSpec
CONSTANTS
  Clients = {c1}
  NoClient = none
  Sockets = {h1}
  NumRooms = 1
  Scripts <- LoginOnly
  MaxBatch = 1
  AuthMayFail = FALSE
  FdSetSize = 64
CHECK_DEADLOCK FALSE
PROPERTY LoginAnswered
