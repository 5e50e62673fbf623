SPECIFICATION Spec
CONSTANTS
  Clients = {c1, c2}
  NoClient = none
  Sockets = {h1, h2}
  NumRooms = 1
  Scripts <- LoginOnly
  MaxBatch = 1
  AuthMayFail = FALSE
  FdSetSize = 64
CHECK_DEADLOCK FALSE
PROPERTY DisconnectTellsRoom
