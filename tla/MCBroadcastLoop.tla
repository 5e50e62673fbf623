--------------------------- MODULE MCBroadcastLoop ---------------------------
EXTENDS BroadcastLoop

CONSTANT MaxMembers   \* longest clients vector of a room

MCTables == [RoomIds -> UNION {[1..n -> Sockets] : n \in 0..MaxMembers}]
=============================================================================
