SPECIFICATION Spec
CONSTANTS
  Clients = {c1}
  NoClient = none
  Sockets = {h1}
  NumRooms = 2
  Scripts <- ClientProgram
  MaxBatch = 1
  AuthMayFail = FALSE
  FdSetSize = 64
CHECK_DEADLOCK FALSE
INVARIANT JoinTakesEffect
