SPECIFICATION Spec
CONSTANTS
  Clients = {c1, c2}
  NoClient = none
  Sockets = {h1, h2}
  NumRooms = 2
  Scripts <- Visitors
  MaxBatch = 2
  AuthMayFail = FALSE
  FdSetSize = 64
SYMMETRY Symmetry
INVARIANTS TypeOK TextsInOrder AnswersToAsker RoomsHoldLiveSockets ScanNeverBlocks
PROPERTIES ImplementsHall
