------------------------- MODULE BroadcastLoopProofs -------------------------
(***************************************************************************)
(* For every room table, sender and set of broken sockets, a broadcast     *)
(* sends to exactly the clients that Reached names, once each.             *)
(***************************************************************************)
EXTENDS BroadcastLoop, TLAPS

(* The clients listed at a place the loops have left behind. *)
Passed ==
  {c \in Sockets \ {sender} :
     \E r \in RoomIds : \E i \in 1..Len(rooms[r]) :
       /\ Contains(rooms[r], sender)
       /\ rooms[r][i] = c
       /\ Before(<<r, i>>, <<room, idx>>)}

(* The inductive invariant: besides the log agreeing with the set, the set *)
(* is a function of where the loops stand, and nothing broken is in it.    *)
LoopInv ==
  /\ TypeOK
  /\ sentSockets = {sends[j] : j \in 1..Len(sends)}
  /\ NoDuplicateSend
  /\ sentSockets = Passed
  /\ sentSockets \cap dead = {}
  /\ status = "done" => room = NumRooms + 1
  /\ status = "failed" => /\ room \in RoomIds /\ idx \in 1..Len(rooms[room])
                          /\ Contains(rooms[room], sender)
                          /\ Client \in dead \ {sender}

LEMMA TableTyped ==
  ASSUME NEW t \in RoomTable, NEW r \in RoomIds
  PROVE  /\ t[r] \in Seq(Sockets)
         /\ Len(t[r]) \in Nat
         /\ \A i \in 1..Len(t[r]) : t[r][i] \in Sockets
  BY DEF RoomTable

(* A slot is a place of a room that holds the sender. *)
LEMMA SlotPlaces ==
  ASSUME NEW t, NEW s, NEW p
  PROVE  p \in Slots(t, s) <=>
           \E r \in RoomIds : \E i \in 1..Len(t[r]) :
             Contains(t[r], s) /\ p = <<r, i>>
  BY DEF Slots

THEOREM BroadcastInvariant == Spec => []LoopInv
<1>1. Init => LoopInv
  <2> SUFFICES ASSUME Init PROVE LoopInv
    OBVIOUS
  <2>1. TypeOK
    BY RoomsAssumption, TablesAssumption DEF Init, TypeOK
  <2>2. Passed = {}
    BY <2>1 DEF Init, Passed, Before, RoomIds, RoomTable
  <2> QED
    BY <2>1, <2>2 DEF Init, LoopInv, NoDuplicateSend
<1>2. LoopInv /\ [Next]_vars => LoopInv'
  <2> SUFFICES ASSUME LoopInv, [Next]_vars PROVE LoopInv'
    OBVIOUS
  <2> USE DEF LoopInv
  <2> USE RoomsAssumption
  <2>1. CASE Skip
    <3>1. TypeOK' /\ NoDuplicateSend'
      BY <2>1 DEF Skip, TypeOK, args, NoDuplicateSend
    <3>2. Passed' = Passed
      BY <2>1, TableTyped DEF Skip, AtClient, TypeOK, args, Eligible, Client, Passed, Before, RoomIds
    <3> QED
      BY <2>1, <3>1, <3>2 DEF Skip, AtClient, args
  <2>2. CASE Send
    <3>1. TypeOK'
      BY <2>2, TableTyped DEF Send, AtClient, TypeOK, args, Client
    <3>2. Client \in Sockets
      BY <2>2, TableTyped DEF Send, AtClient, TypeOK, Client
    <3>3. Passed' = Passed \cup {Client}
      BY <2>2, <3>2, TableTyped DEF Send, AtClient, TypeOK, args, Eligible, Client, Passed, Before, RoomIds
    <3>4. sentSockets' = {sends'[j] : j \in 1..Len(sends')}
      BY <2>2, <3>2 DEF Send, TypeOK
    <3>5. NoDuplicateSend'
      BY <2>2, <3>2 DEF Send, TypeOK, NoDuplicateSend, Eligible
    <3> QED
      BY <2>2, <3>1, <3>3, <3>4, <3>5 DEF Send, AtClient, args
  <2>3. CASE SendFails
    <3>1. TypeOK' /\ NoDuplicateSend' /\ Passed' = Passed
      BY <2>3 DEF SendFails, TypeOK, args, NoDuplicateSend, Passed
    <3> QED
      BY <2>3, <3>1 DEF SendFails, AtClient, Eligible, args, Client
  <2>4. CASE NextRoom
    <3>1. TypeOK' /\ NoDuplicateSend'
      BY <2>4 DEF NextRoom, TypeOK, args, NoDuplicateSend, RoomIds
    <3>2. ASSUME NEW r \in RoomIds, NEW i \in 1..Len(rooms[r])
          PROVE  Before(<<r, i>>, <<room, idx>>) <=> Before(<<r, i>>, <<room', idx'>>)
      BY <2>4, TableTyped DEF NextRoom, TypeOK, Before, RoomIds
    <3>3. Passed' = Passed
      BY <2>4, <3>2 DEF NextRoom, args, Passed
    <3> QED
      BY <2>4, <3>1, <3>3 DEF NextRoom, args
  <2>5. CASE Return
    <3>1. TypeOK' /\ NoDuplicateSend' /\ Passed' = Passed
      BY <2>5 DEF Return, TypeOK, args, NoDuplicateSend, Passed
    <3>2. room' = NumRooms + 1
      BY <2>5 DEF Return, TypeOK, args
    <3> QED
      BY <2>5, <3>1, <3>2 DEF Return, args
  <2>6. CASE UNCHANGED vars
    <3>1. TypeOK' /\ NoDuplicateSend' /\ Passed' = Passed
      BY <2>6 DEF vars, TypeOK, NoDuplicateSend, Passed
    <3> QED
      BY <2>6, <3>1 DEF vars, Client
  <2> QED
    BY <2>1, <2>2, <2>3, <2>4, <2>5, <2>6 DEF Next
<1> QED
  BY <1>1, <1>2, PTL DEF Spec

(* Types: the loop stays within the table it was called with. *)
THEOREM LoopTyped == Spec => []TypeOK
<1>1. LoopInv => TypeOK
  BY DEF LoopInv
<1> QED
  BY <1>1, BroadcastInvariant, PTL

(* NoDuplicateSend for any rooms and members: a broadcast sends to no      *)
(* client twice, whichever rooms it shares with the sender                 *)
(* (BroadcastMessage, lines 393-446).                                      *)
THEOREM NobodyTwice == Spec => []NoDuplicateSend
<1>1. LoopInv => NoDuplicateSend
  BY DEF LoopInv
<1> QED
  BY <1>1, BroadcastInvariant, PTL

(* ExactDelivery: a broadcast that runs to its end has sent to exactly the *)
(* members of the sender's rooms other than the sender.                    *)
THEOREM BroadcastExact == Spec => []ExactDelivery
<1>1. LoopInv => ExactDelivery
  <2> SUFFICES ASSUME LoopInv, status = "done" PROVE Passed = Roommates(rooms, sender)
    BY DEF LoopInv, ExactDelivery
  <2>1. ASSUME NEW r \in RoomIds, NEW i \in 1..Len(rooms[r])
        PROVE  Before(<<r, i>>, <<room, idx>>)
    BY RoomsAssumption DEF LoopInv, TypeOK, Before, RoomIds
  <2> QED
    BY <2>1 DEF Passed, Roommates, Contains
<1> QED
  BY <1>1, BroadcastInvariant, PTL

(* DeliversReached: whether or not a send fails, a broadcast that has      *)
(* returned has reached the clients that Reached computes.                 *)
THEOREM BroadcastReaches == Spec => []DeliversReached
<1>1. LoopInv => DeliversReached
  <2> SUFFICES ASSUME LoopInv, status # "run"
               PROVE  Passed = Reached(rooms, sender, dead)
    BY DEF LoopInv, DeliversReached
  <2> USE DEF LoopInv
  <2> DEFINE Hit(r, i) == r \in RoomIds /\ i \in 1..Len(rooms[r])
                            /\ Contains(rooms[r], sender)
             Early(r, i) == \A q \in Slots(rooms, sender) :
                              rooms[q[1]][q[2]] \in dead \ {sender} => Before(<<r, i>>, q)
             Cursor == <<room, idx>>
  <2>1. \A r, i : Hit(r, i) => /\ r \in Int /\ i \in Int
                               /\ rooms[r][i] \in Sockets
    BY RoomsAssumption, TableTyped DEF TypeOK, RoomIds
  <2>2. \A r, i : Hit(r, i) => <<r, i>> \in Slots(rooms, sender)
    BY SlotPlaces
  <2>3. ASSUME NEW q \in Slots(rooms, sender), rooms[q[1]][q[2]] \in dead \ {sender}
        PROVE  /\ q[1] \in Int /\ q[2] \in Int
               /\ ~Before(q, Cursor)
    <3>1. PICK r, i : Hit(r, i) /\ q = <<r, i>>
      BY SlotPlaces
    <3> QED
      BY <2>1, <2>3, <3>1 DEF Passed
  <2>4. room \in Int /\ idx \in Int
    BY RoomsAssumption DEF TypeOK
  <2>5. ASSUME NEW r, NEW i, Hit(r, i), Before(<<r, i>>, Cursor)
        PROVE  Early(r, i)
    BY <2>1, <2>3, <2>4, <2>5 DEF Before
  <2>6. ASSUME NEW r, NEW i, Hit(r, i), Early(r, i)
        PROVE  Before(<<r, i>>, Cursor)
    <3>1. CASE status = "done"
      BY <2>1, <2>6, <3>1, RoomsAssumption DEF Before, RoomIds
    <3>2. CASE status = "failed"
      <4>1. Cursor \in Slots(rooms, sender)
        BY <2>2, <3>2
      <4> QED
        BY <2>6, <3>2, <4>1 DEF Client
    <3> QED
      BY <3>1, <3>2 DEF TypeOK
  <2>7. ASSUME NEW c \in Passed PROVE c \in Reached(rooms, sender, dead)
    <3>1. PICK r, i : Hit(r, i) /\ rooms[r][i] = c /\ Before(<<r, i>>, Cursor)
      BY DEF Passed
    <3>2. <<r, i>> \in Slots(rooms, sender) /\ Early(r, i)
      BY <2>2, <2>5, <3>1
    <3>3. c \in Roommates(rooms, sender)
      BY <3>1 DEF Passed, Roommates, Contains
    <3> QED
      BY <3>1, <3>2, <3>3 DEF Reached
  <2>8. ASSUME NEW c \in Reached(rooms, sender, dead) PROVE c \in Passed
    <3>1. PICK p \in Slots(rooms, sender) :
            /\ rooms[p[1]][p[2]] = c
            /\ \A q \in Slots(rooms, sender) :
                 rooms[q[1]][q[2]] \in dead \ {sender} => Before(p, q)
      BY DEF Reached
    <3>2. PICK r, i : Hit(r, i) /\ p = <<r, i>>
      BY SlotPlaces
    <3>3. Before(<<r, i>>, Cursor)
      BY <2>6, <3>1, <3>2
    <3> QED
      BY <3>1, <3>2, <3>3 DEF Reached, Roommates, Passed
  <2> QED
    BY <2>7, <2>8
<1> QED
  BY <1>1, BroadcastInvariant, PTL
=============================================================================
