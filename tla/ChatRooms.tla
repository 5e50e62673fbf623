------------------------------ MODULE ChatRooms ------------------------------
(***************************************************************************)
(* The room table of the chat server (ChatServer::rooms) and the           *)
(* operations on it.  std::map visits its keys in order, so a room is its  *)
(* position in that order; the room with the empty name, where a login or  *)
(* a registration puts a connection, sorts first.  A room that does not    *)
(* exist yet behaves in every operation like one without clients.          *)
(***************************************************************************)
EXTENDS Integers, Sequences

CONSTANTS Sockets,   \* socket handles of client connections
          NumRooms   \* room names in use, in the order of the map

ASSUME RoomsAssumption == NumRooms \in Nat \ {0}

RoomIds == 1..NumRooms
Lobby == 1                              \* rooms[""]
RoomTable == [RoomIds -> Seq(Sockets)]  \* ChatRoom::clients, by room

(* std::find(clients.begin(), clients.end(), s) != clients.end() *)
Contains(clients, s) == \E i \in 1..Len(clients) : clients[i] = s

(* clients.erase(std::find(...)), when the socket was found *)
EraseFirst(clients, s) ==
  IF Contains(clients, s)
  THEN LET k == CHOOSE i \in 1..Len(clients) :
                  clients[i] = s /\ \A j \in 1..(i - 1) : clients[j] # s
       IN  [j \in 1..(Len(clients) - 1) |->
              IF j < k THEN clients[j] ELSE clients[j + 1]]
  ELSE clients

(* Places of the table that a broadcast from `sender` looks at. *)
Slots(rooms, sender) ==
  UNION {{r} \X (1..Len(rooms[r])) : r \in {q \in RoomIds : Contains(rooms[q], sender)}}

Before(p, q) == p[1] < q[1] \/ (p[1] = q[1] /\ p[2] < q[2])

(* The connections that share a room with `sender`. *)
Roommates(rooms, sender) ==
  {c \in Sockets \ {sender} :
     \E r \in RoomIds : Contains(rooms[r], sender) /\ Contains(rooms[r], c)}

(* What a broadcast achieves: the roommates of `sender` that the table     *)
(* lists before the first one on which send() fails.                       *)
Reached(rooms, sender, dead) ==
  {c \in Roommates(rooms, sender) :
     \E p \in Slots(rooms, sender) :
       /\ rooms[p[1]][p[2]] = c
       /\ \A q \in Slots(rooms, sender) :
            rooms[q[1]][q[2]] \in dead \ {sender} => Before(p, q)}
=============================================================================
