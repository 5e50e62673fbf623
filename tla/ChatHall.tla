------------------------------- MODULE ChatHall -------------------------------
(***************************************************************************)
(* What the chat server promises, said of people and rooms, without        *)
(* handles, tables or threads: what everybody says is taken in order, one  *)
(* thing at a time; who enters by a JOIN_ROOM or leaves by a LEAVE_ROOM is *)
(* announced to the others; a text is heard by all the others in the       *)
(* speaker's rooms; a login seats the person in the lobby, silently; and   *)
(* nobody is removed unasked who has not hung up.  ChatServer implements   *)
(* it with the exceptions that ImplementsHall names there.                 *)
(***************************************************************************)
EXTENDS Naturals, Sequences

CONSTANTS People,
          Rooms, Lobby,
          Words,   \* what can be said: [type, arg]
          Most,    \* how much may be taken in at once
          Answers  \* to logins and registrations

VARIABLES
  members,  \* who is in each room
  waiting,  \* people whose first request was taken and who get a seat
  gone,     \* people who have hung up
  cut,      \* those of them whose connection is broken
  wishes,   \* what each person has said and has not been taken
  spoken,   \* how much each person has said
  heard     \* what each person has been told

hallVars == <<members, waiting, gone, cut, wishes, spoken, heard>>

Init == /\ members = [r \in Rooms |-> {}] /\ waiting = {}
        /\ gone = {} /\ cut = {}
        /\ wishes = [p \in People |-> <<>>] /\ spoken = [p \in People |-> 0]
        /\ heard = [p \in People |-> <<>>]

Requests == {"LOGIN", "REGISTER"}
Present(p) == \E r \in Rooms : p \in members[r]
(* The number of the first wish of p among all that p has said. *)
Turn(p) == spoken[p] - Len(wishes[p]) + 1
Notice(p) == [type |-> "NOTIFICATION", from |-> p, n |-> 0]
Text(p) == [type |-> "TEXT", from |-> p, n |-> Turn(p)]

(* The first wish is attended to; of what is taken in with it nobody takes *)
(* any notice.                                                             *)
Take(p, types) ==
  /\ wishes[p] # <<>> /\ Head(wishes[p]).type \in types
  /\ \E n \in 1..Most : /\ n <= Len(wishes[p])
                        /\ wishes' = [wishes EXCEPT ![p] = SubSeq(@, n + 1, Len(@))]
  /\ UNCHANGED spoken

(* The others in the rooms of p. *)
Around(m, p) == {q \in People \ {p} : \E r \in Rooms : p \in m[r] /\ q \in m[r]}

(* All around p are told.  While the connection of one of them is broken,  *)
(* any of the others may miss it.                                          *)
Tell(m, p, message) ==
  \E to \in SUBSET (Around(m, p) \ cut) :
    /\ Around(m, p) \cap cut = {} => to = Around(m, p)
    /\ heard' = [q \in People |-> IF q \in to THEN Append(heard[q], message) ELSE heard[q]]

Say(p) ==
  /\ Present(p) /\ Take(p, {"TEXT"})
  /\ Tell(members, p, Text(p))
  /\ UNCHANGED <<members, waiting, gone, cut>>

Join(p) ==
  /\ ~Present(p) /\ Take(p, {"JOIN_ROOM"})
  /\ LET named == Head(wishes[p]).arg IN
     members' = [r \in Rooms |->
                   IF \E i \in 1..Len(named) : named[i] = r THEN members[r] \cup {p} ELSE members[r]]
  /\ Tell(members', p, Notice(p))
  /\ UNCHANGED <<waiting, gone, cut>>

(* p is in the room that is named, the first one if there are several. *)
Leave(p) ==
  /\ Take(p, {"LEAVE_ROOM"})
  /\ LET room == Head(Head(wishes[p]).arg) IN
     p \in members[room] /\ members' = [members EXCEPT ![room] = @ \ {p}]
  /\ Tell(members, p, Notice(p))
  /\ UNCHANGED <<waiting, gone, cut>>

(* A request is passed on; that of someone new is followed by a seat. *)
Call(p) ==
  /\ Take(p, Requests)
  /\ waiting' = IF Present(p) THEN waiting ELSE waiting \cup {p}
  /\ UNCHANGED <<members, gone, cut, heard>>

Seat(p) ==
  /\ p \in waiting /\ waiting' = waiting \ {p}
  /\ members' = [members EXCEPT ![Lobby] = @ \cup {p}]
  /\ UNCHANGED <<gone, cut, wishes, spoken, heard>>

(* Nothing comes of joining twice, or of anything else said at the door. *)
Ignore(p) ==
  /\ Take(p, IF Present(p) THEN {"NOTIFICATION", "JOIN_ROOM"}
             ELSE {"NOTIFICATION", "TEXT", "LEAVE_ROOM"})
  /\ UNCHANGED <<members, waiting, gone, cut, heard>>

(* Who has hung up is removed when all that was said before is taken:      *)
(* nobody is told.                                                         *)
Vanish(p) ==
  /\ Present(p) /\ p \in gone /\ wishes[p] = <<>>
  /\ members' = [r \in Rooms |-> members[r] \ {p}]
  /\ cut' = cut \ {p}
  /\ UNCHANGED <<waiting, gone, wishes, spoken, heard>>

Answered(p) ==
  /\ Len(heard[p]) <= Len(heard'[p])
  /\ heard' = [heard EXCEPT ![p] = heard'[p]]
  /\ \A i \in 1..Len(heard[p]) : heard'[p][i] = heard[p][i]
  /\ \A i \in (Len(heard[p]) + 1)..Len(heard'[p]) : heard'[p][i] \in Answers
  /\ UNCHANGED <<members, waiting, gone, cut, wishes, spoken>>
-----------------------------------------------------------------------------
(* What people do. *)

Wish(p) ==
  /\ p \notin gone
  /\ \E w \in Words : wishes' = [wishes EXCEPT ![p] = Append(@, w)]
  /\ spoken' = [spoken EXCEPT ![p] = @ + 1]
  /\ UNCHANGED <<members, waiting, gone, cut, heard>>

HangUp(p) == gone' = gone \cup {p} /\ UNCHANGED <<members, waiting, cut, wishes, spoken, heard>>

Break(p) ==
  /\ gone' = gone \cup {p} /\ cut' = cut \cup {p}
  /\ wishes' = [wishes EXCEPT ![p] = <<>>]
  /\ UNCHANGED <<members, waiting, spoken, heard>>

Next == \E p \in People :
          \/ Say(p) \/ Join(p) \/ Leave(p) \/ Call(p) \/ Seat(p) \/ Ignore(p) \/ Vanish(p)
          \/ Answered(p) \/ Wish(p) \/ HangUp(p) \/ Break(p)

Spec == Init /\ [][Next]_hallVars
=============================================================================
