SPECIFICATION Spec
CONSTANTS
  Clients = {c1, c2}
  NoClient = none
  Sockets = {h1, h2}
  NumRooms = 1
  Scripts <- Talker
  MaxBatch = 2
  AuthMayFail = FALSE
  FdSetSize = 64
CHECK_DEADLOCK FALSE
PROPERTY TextReachesRoom
