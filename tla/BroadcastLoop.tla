---------------------------- MODULE BroadcastLoop ----------------------------
(***************************************************************************)
(* ChatServer::BroadcastMessage, one step per turn of its inner loop.      *)
(* The arguments of the call, and the sockets on which send() returns      *)
(* SOCKET_ERROR, are chosen in Init: the loop sends at most once to each   *)
(* socket, so whether that send fails can be fixed beforehand.             *)
(***************************************************************************)
EXTENDS ChatRooms

CONSTANT Tables   \* the room tables a call may find

ASSUME TablesAssumption == Tables \subseteq RoomTable

VARIABLES rooms, sender, dead,   \* the call and its environment
          room, idx,             \* where the two loops stand
          sentSockets,           \* the local set of that name
          sends,                 \* every successful send(), in order
          status                 \* "run", "done", or "failed" after a return

args == <<rooms, sender, dead>>
vars == <<rooms, sender, dead, room, idx, sentSockets, sends, status>>

Init == /\ rooms \in Tables
        /\ sender \in Sockets
        /\ dead \in SUBSET Sockets
        /\ room = 1 /\ idx = 1
        /\ sentSockets = {}
        /\ sends = <<>>
        /\ status = "run"

Client == rooms[room][idx]
AtClient == status = "run" /\ room \in RoomIds /\ idx \in 1..Len(rooms[room])

EligibleTwice(c) == Contains(rooms[room], sender) /\ c # sender
EligibleAnyRoom(c) == c \notin sentSockets /\ c # sender
(* The three tests of the inner loop. *)
Eligible(c) == /\ Contains(rooms[room], sender)
               /\ c \notin sentSockets
               /\ c # sender

Skip == /\ AtClient /\ ~Eligible(Client)
        /\ idx' = idx + 1
        /\ UNCHANGED <<args, room, sentSockets, sends, status>>

Send == /\ AtClient /\ Eligible(Client) /\ Client \notin dead
        /\ sends' = Append(sends, Client)
        /\ sentSockets' = sentSockets \cup {Client}
        /\ idx' = idx + 1
        /\ UNCHANGED <<args, room, status>>

SendFailsSkip == /\ AtClient /\ Eligible(Client) /\ Client \in dead
                 /\ idx' = idx + 1
                 /\ UNCHANGED <<args, room, sentSockets, sends, status>>
(* A failed send ends the whole call. *)
SendFails == /\ AtClient /\ Eligible(Client) /\ Client \in dead
             /\ status' = "failed"
             /\ UNCHANGED <<args, room, idx, sentSockets, sends>>

NextRoomZero == /\ status = "run" /\ room \in RoomIds /\ idx > Len(rooms[room])
                /\ room' = room + 1 /\ idx' = 0
                /\ UNCHANGED <<args, sentSockets, sends, status>>
NextRoom == /\ status = "run" /\ room \in RoomIds /\ idx > Len(rooms[room])
            /\ room' = room + 1 /\ idx' = 1
            /\ UNCHANGED <<args, sentSockets, sends, status>>

Return == /\ status = "run" /\ room > NumRooms
          /\ status' = "done"
          /\ UNCHANGED <<args, room, idx, sentSockets, sends>>

Next == Skip \/ Send \/ SendFails \/ NextRoom \/ Return

Spec == Init /\ [][Next]_vars
-----------------------------------------------------------------------------
TypeOK == /\ rooms \in RoomTable
          /\ sender \in Sockets
          /\ dead \in SUBSET Sockets
          /\ room \in 1..(NumRooms + 1)
          /\ idx \in Nat \ {0}
          /\ sentSockets \in SUBSET Sockets
          /\ sends \in Seq(Sockets)
          /\ status \in {"run", "done", "failed"}

(* No client is sent the same message twice, however many rooms it shares  *)
(* with the sender and however often a room lists it (the role of          *)
(* sentSockets).                                                           *)
NoDuplicateSend ==
  \A j, k \in 1..Len(sends) : sends[j] = sends[k] => j = k

(* A call that runs to its end has reached exactly the other members of    *)
(* the sender's rooms: nobody outside them, nobody forgotten.              *)
ExactDelivery == status = "done" => sentSockets = Roommates(rooms, sender)

(* Also when a send fails, the call has reached exactly the clients that   *)
(* Reached computes: the atomic form of a broadcast used in ChatServer.    *)
DeliversReached ==
  status # "run" => {sends[j] : j \in 1..Len(sends)} = Reached(rooms, sender, dead)
=============================================================================
