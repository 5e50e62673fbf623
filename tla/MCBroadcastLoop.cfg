SPECIFICATION Spec
CONSTANTS
  Sockets = {s1, s2, s3}
  NumRooms = 2
  MaxMembers = 3
  Tables <- MCTables
INVARIANTS TypeOK NoDuplicateSend ExactDelivery DeliversReached
CHECK_DEADLOCK FALSE
