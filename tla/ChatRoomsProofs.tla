-------------------------- MODULE ChatRoomsProofs ---------------------------
(***************************************************************************)
(* The chat server is the hall of ChatHall, for every number of clients    *)
(* and handles and whatever the clients send, until a handle may be left   *)
(* behind in the room table or is entered in a room twice.                 *)
(***************************************************************************)
EXTENDS ChatScanProofs

(* A handle stands once in each room. *)
Distinct(u) == \A i, j \in 1..Len(u) : u[i] = u[j] => i = j
Single(t) == \A r \in RoomIds : Distinct(t[r])

HallInv ==
  /\ HeldInv /\ SentInv
  /\ \A c \in Clients : link[c] = "rst" => inq[c] = <<>>
  /\ Stray \/ NamedTwice \/ Single(rooms)

-----------------------------------------------------------------------------
(* What erasing and appending do to a table. *)
LEMMA ErasedContains ==
  ASSUME NEW t \in RoomTable, Single(t), NEW r \in RoomIds, NEW s, Contains(t[r], s),
         NEW t2, t2 = [t EXCEPT ![r] = EraseFirst(@, s)]
  PROVE  /\ Single(t2)
         /\ \A q \in RoomIds, g \in Sockets :
              Contains(t2[q], g) <=> Contains(t[q], g) /\ ~(q = r /\ g = s)
<1>1. PICK k \in 1..Len(t[r]) : t[r][k] = s /\ MovedUp(t, t2, r, k) /\ Keeps(t, t2, r, k)
  BY ErasedPlaces
<1>2. k \in Nat
  BY DEF RoomTable
<1>3. ASSUME NEW q \in RoomIds, NEW i \in 1..Len(t2[q]), NEW j \in 1..Len(t2[q]), t2[q][i] = t2[q][j]
      PROVE  i = j
  <2>1. PICK a, b : a = OldIndex(r, k, q, i) /\ b = OldIndex(r, k, q, j)
    OBVIOUS
  <2>2. /\ a \in 1..Len(t[q]) /\ t2[q][i] = t[q][a] /\ b \in 1..Len(t[q]) /\ t2[q][j] = t[q][b]
        /\ i \in Nat /\ j \in Nat
    BY <1>1, <2>1 DEF MovedUp
  <2>3. a = b
    BY <1>3, <2>2 DEF Single, Distinct
  <2> QED
    BY <1>2, <2>1, <2>2, <2>3 DEF OldIndex
<1>4. ASSUME NEW q \in RoomIds, NEW g \in Sockets, Contains(t2[q], g)
      PROVE  Contains(t[q], g) /\ ~(q = r /\ g = s)
  <2>1. PICK j \in 1..Len(t2[q]) : t2[q][j] = g
    BY <1>4 DEF Contains
  <2>2. PICK a : a = OldIndex(r, k, q, j)
    OBVIOUS
  <2>3. a \in 1..Len(t[q]) /\ t[q][a] = g /\ ~(q = r /\ a = k)
    BY <1>1, <2>1, <2>2 DEF MovedUp
  <2> QED
    BY <1>1, <2>3 DEF Contains, Single, Distinct
<1>5. ASSUME NEW q \in RoomIds, NEW g \in Sockets, Contains(t[q], g), ~(q = r /\ g = s)
      PROVE  Contains(t2[q], g)
  <2>1. PICK i \in 1..Len(t[q]) : t[q][i] = g
    BY <1>5 DEF Contains
  <2>2. ~(q = r /\ i = k)
    BY <1>1, <1>5, <2>1
  <2>3. PICK j \in 1..Len(t2[q]) : t2[q][j] = t[q][i]
    BY <1>1, <2>2 DEF Keeps
  <2> QED
    BY <2>1, <2>3 DEF Contains
<1> QED
  BY <1>3, <1>4, <1>5 DEF Single, Distinct

LEMMA CopiedContains ==
  ASSUME NEW h \in Sockets, NEW u \in Seq(Sockets), NEW n \in Nat, NEW v, v = Copied(u, n, h)
  PROVE  /\ \A g \in Sockets : Contains(v, g) <=> Contains(u, g) \/ (g = h /\ n > 0)
         /\ Distinct(u) /\ ~Contains(u, h) /\ n <= 1 => Distinct(v)
<1>1. PICK w : w = [k \in 1..n |-> h]
  OBVIOUS
<1>2. \A k \in 1..n : w[k] = h
  BY <1>1
<1>3. w \in Seq(Sockets) /\ Len(w) = n /\ v = u \o w
  BY <1>1 DEF Copied
<1>4. PICK m \in Nat : m = Len(u)
  OBVIOUS
<1>5. Len(v) = m + n /\ \A i \in 1..(m + n) : v[i] = IF i <= m THEN u[i] ELSE w[i - m]
  <2>1. /\ Len(v) = Len(u) + Len(w)
        /\ \A i \in 1..(Len(u) + Len(w)) : v[i] = IF i <= Len(u) THEN u[i] ELSE w[i - Len(u)]
    BY <1>3
  <2> QED
    BY <1>3, <1>4, <2>1
<1>6. /\ \A i \in 1..m : i \in 1..Len(v) /\ v[i] = u[i]
      /\ \A i \in 1..Len(v) : ~(i \in 1..m) => v[i] = h /\ i \in (m + 1)..(m + n)
  <2>1. \A i \in 1..m : i \in 1..(m + n) /\ i <= m
    OBVIOUS
  <2>2. ASSUME NEW i \in 1..(m + n), ~(i \in 1..m) PROVE v[i] = h /\ i \in (m + 1)..(m + n)
    <3>1. ~(i <= m) /\ i - m \in 1..n /\ i \in (m + 1)..(m + n)
      BY <2>2
    <3> QED
      BY <1>2, <1>5, <3>1
  <2> QED
    BY <1>5, <2>1, <2>2
<1>7. n > 0 => m + 1 \in 1..Len(v) /\ ~(m + 1 \in 1..m) /\ n \in Nat
  BY <1>5
<1>8. \A g \in Sockets : Contains(v, g) <=> Contains(u, g) \/ (g = h /\ n > 0)
  <2>1. ASSUME NEW g \in Sockets, Contains(v, g) PROVE Contains(u, g) \/ (g = h /\ n > 0)
    <3>1. PICK i \in 1..Len(v) : v[i] = g
      BY <2>1 DEF Contains
    <3>2. CASE i \in 1..m
      BY <1>4, <1>6, <3>1, <3>2 DEF Contains
    <3>3. CASE ~(i \in 1..m)
      <4>1. g = h /\ i \in (m + 1)..(m + n)
        BY <1>6, <3>1, <3>3
      <4> QED
        BY <4>1
    <3> QED
      BY <3>2, <3>3
  <2>2. ASSUME NEW g \in Sockets, Contains(u, g) PROVE Contains(v, g)
    BY <1>4, <1>6, <2>2 DEF Contains
  <2>3. n > 0 => Contains(v, h)
    BY <1>6, <1>7 DEF Contains
  <2> QED
    BY <2>1, <2>2, <2>3
<1>9. ASSUME Distinct(u), ~Contains(u, h), n <= 1, NEW i \in 1..Len(v), NEW j \in 1..Len(v), v[i] = v[j]
      PROVE  i = j
  <2>1. \A k \in 1..m : v[k] # h
    BY <1>4, <1>6, <1>9 DEF Contains
  <2>2. CASE i \in 1..m
    <3>1. j \in 1..m
      BY <1>6, <1>9, <2>1, <2>2
    <3> QED
      BY <1>4, <1>6, <1>9, <2>2, <3>1 DEF Distinct
  <2>3. CASE ~(i \in 1..m)
    <3>1. ~(j \in 1..m)
      BY <1>6, <1>9, <2>1, <2>3
    <3>2. i \in (m + 1)..(m + n) /\ j \in (m + 1)..(m + n)
      BY <1>6, <2>3, <3>1
    <3> QED
      BY <1>9, <3>2
  <2> QED
    BY <2>2, <2>3
<1> QED
  BY <1>8, <1>9 DEF Distinct

(* n[r] copies of h are appended to room r. *)
Grows(t, t2, n, h) == \A r \in RoomIds : t2[r] = Copied(t[r], n[r], h)

LEMMA GrownContains ==
  ASSUME NEW t \in RoomTable, NEW h \in Sockets, NEW n \in [RoomIds -> Nat],
         NEW t2, Grows(t, t2, n, h)
  PROVE  /\ \A r \in RoomIds, g \in Sockets :
              Contains(t2[r], g) <=> Contains(t[r], g) \/ (g = h /\ n[r] > 0)
         /\ Single(t) /\ ~Holds(t, h) /\ (\A r \in RoomIds : n[r] <= 1) => Single(t2)
<1>1. ASSUME NEW r \in RoomIds
      PROVE  /\ \A g \in Sockets : Contains(t2[r], g) <=> Contains(t[r], g) \/ (g = h /\ n[r] > 0)
             /\ Distinct(t[r]) /\ ~Contains(t[r], h) /\ n[r] <= 1 => Distinct(t2[r])
  <2>1. PICK m, u, v : m = n[r] /\ u = t[r] /\ v = t2[r]
    OBVIOUS
  <2>2. m \in Nat /\ u \in Seq(Sockets) /\ v = Copied(u, m, h)
    BY <2>1 DEF Grows, RoomTable
  <2>3. /\ \A g \in Sockets : Contains(v, g) <=> Contains(u, g) \/ (g = h /\ m > 0)
        /\ Distinct(u) /\ ~Contains(u, h) /\ m <= 1 => Distinct(v)
    BY <2>2, CopiedContains
  <2> QED
    BY <2>1, <2>3
<1>2. \A r \in RoomIds, g \in Sockets :
        Contains(t2[r], g) <=> Contains(t[r], g) \/ (g = h /\ n[r] > 0)
  BY <1>1
<1>3. Single(t) /\ ~Holds(t, h) /\ (\A r \in RoomIds : n[r] <= 1) => Single(t2)
  BY <1>1 DEF Single, Holds
<1> QED
  BY <1>2, <1>3

(* How often each room is named. *)
Named(wanted) == [r \in RoomIds |-> Cardinality({j \in 1..Len(wanted) : wanted[j] = r})]

LEMMA NamedRooms ==
  ASSUME NEW wanted \in Seq(RoomIds)
  PROVE  /\ Named(wanted) \in [RoomIds -> Nat]
         /\ \A r \in RoomIds : Named(wanted)[r] > 0 <=> \E i \in 1..Len(wanted) : wanted[i] = r
         /\ Distinct(wanted) => \A r \in RoomIds : Named(wanted)[r] <= 1
<1>1. ASSUME NEW r \in RoomIds
      PROVE  LET S == {j \in 1..Len(wanted) : wanted[j] = r}
             IN  /\ Cardinality(S) \in Nat
                 /\ Cardinality(S) > 0 <=> S # {}
                 /\ Distinct(wanted) => Cardinality(S) <= 1
  <2> DEFINE S == {j \in 1..Len(wanted) : wanted[j] = r}
  <2>1. IsFiniteSet(S)
    <3>1. IsFiniteSet(1..Len(wanted))
      BY FS_Interval
    <3> QED
      BY <3>1, FS_Subset
  <2>2. Cardinality(S) \in Nat /\ (Cardinality(S) = 0 <=> S = {})
    BY <2>1, FS_CardinalityType, FS_EmptySet
  <2>3. ASSUME Distinct(wanted) PROVE Cardinality(S) <= 1
    <3>1. CASE S = {}
      BY <2>2, <3>1
    <3>2. CASE S # {}
      <4>1. PICK j : j \in S
        BY <3>2
      <4>2. PICK T : T = S
        OBVIOUS
      <4>3. T = {j}
        BY <2>3, <4>1, <4>2 DEF Distinct
      <4>4. Cardinality(T) = 1
        BY <4>3, FS_Singleton
      <4> QED
        BY <4>2, <4>4
    <3> QED
      BY <3>1, <3>2
  <2> HIDE DEF S
  <2>4. Cardinality(S) > 0 <=> S # {}
    BY <2>2
  <2> QED
    BY <2>2, <2>3, <2>4 DEF S
<1> QED
  BY <1>1 DEF Named
-----------------------------------------------------------------------------
(* Members, and who is told.                                               *)

MembersOf(t) ==
  [r \in RoomIds |-> {c \in Clients : \E h \in Sockets : owner[h] = c /\ Contains(t[r], h)}]

(* A broadcast tells the members around the sender. *)
LEMMA BroadcastTold ==
  ASSUME TypeInv, OwnersInv, NEW t \in RoomTable, \A g \in Sockets : Holds(t, g) => Open(g),
         NEW h \in Sockets, Open(h), NEW message, Broadcast(t, h, message)
  PROVE  Hall!Tell(MembersOf(t), owner[h], message)
<1> DEFINE c == owner[h]
           reached == Reached(t, h, Broken)
           to == {d \in Clients : \E g \in reached : owner[g] = d}
           around == Hall!Around(MembersOf(t), c)
<1>1. /\ \A f, g \in Sockets : Open(f) /\ owner[f] = owner[g] => f = g
      /\ owner \in [Sockets -> Clients \cup {NoClient}] /\ c \in Clients
  BY DEF OwnersInv, TypeInv, TypeOK, Open
<1>2. out' = [d \in Clients |-> IF d \in to THEN Append(out[d], message) ELSE out[d]]
  BY DEF Broadcast, SendTo
<1>3. ASSUME NEW d \in Clients
      PROVE  d \in around <=> \E g \in Roommates(t, h) : owner[g] = d
  <2>1. ASSUME NEW g \in Roommates(t, h), owner[g] = d PROVE d \in around
    <3>1. PICK r \in RoomIds : Contains(t[r], h) /\ Contains(t[r], g)
      BY DEF Roommates
    <3>2. g \in Sockets /\ g # h
      BY DEF Roommates
    <3>3. d # c
      BY <1>1, <2>1, <3>2
    <3>4. c \in MembersOf(t)[r] /\ d \in MembersOf(t)[r]
      BY <1>1, <2>1, <3>1, <3>2 DEF MembersOf
    <3> QED
      BY <1>1, <3>3, <3>4 DEF Hall!Around
  <2>2. ASSUME d \in around PROVE \E g \in Roommates(t, h) : owner[g] = d
    <3>1. PICK r \in RoomIds : c \in MembersOf(t)[r] /\ d \in MembersOf(t)[r]
      BY <2>2 DEF Hall!Around
    <3>2. d # c
      BY <2>2 DEF Hall!Around
    <3>3. PICK f \in Sockets : owner[f] = c /\ Contains(t[r], f)
      BY <3>1 DEF MembersOf
    <3>4. PICK g \in Sockets : owner[g] = d /\ Contains(t[r], g)
      BY <3>1 DEF MembersOf
    <3>5. f = h
      BY <1>1, <3>3
    <3>6. g # h
      BY <3>2, <3>4
    <3> QED
      BY <3>3, <3>4, <3>5, <3>6 DEF Roommates
  <2> QED
    BY <2>1, <2>2
<1>4. ASSUME NEW g \in reached PROVE g \in Roommates(t, h) /\ g \notin Broken
  <2>1. g \in Roommates(t, h)
    BY DEF Reached
  <2>2. PICK p \in Slots(t, h) : /\ t[p[1]][p[2]] = g
                                 /\ \A q \in Slots(t, h) :
                                      t[q[1]][q[2]] \in Broken \ {h} => Before(p, q)
    BY DEF Reached
  <2>3. p[1] \in Int /\ p[2] \in Int
    BY DEF Slots, RoomIds
  <2>4. ~Before(p, p)
    BY <2>3 DEF Before
  <2>5. g # h
    BY <2>1 DEF Roommates
  <2> QED
    BY <2>1, <2>2, <2>4, <2>5
<1>5. to \subseteq around \ Cut
  BY <1>1, <1>3, <1>4 DEF Cut, Broken, Roommates
<1>6. ASSUME around \cap Cut = {} PROVE to = around
  <2>1. ASSUME NEW g \in Roommates(t, h) PROVE g \in Sockets /\ g # h /\ g \notin Broken
    <3>1. g \in Sockets /\ g # h /\ Holds(t, g)
      BY DEF Roommates, Holds
    <3>2. Open(g) /\ owner[g] \in Clients
      BY <1>1, <3>1 DEF Open
    <3>3. owner[g] \in around
      BY <1>3, <3>2
    <3> QED
      BY <1>6, <3>1, <3>2, <3>3 DEF Broken, Cut
  <2>2. ASSUME NEW q \in Slots(t, h), t[q[1]][q[2]] # h PROVE t[q[1]][q[2]] \in Roommates(t, h)
    <3>1. q[1] \in RoomIds /\ q[2] \in 1..Len(t[q[1]]) /\ Contains(t[q[1]], h)
      BY DEF Slots
    <3>2. t[q[1]][q[2]] \in Sockets
      BY <3>1 DEF RoomTable
    <3> QED
      BY <2>2, <3>1, <3>2 DEF Roommates, Contains
  <2>3. \A q \in Slots(t, h) : t[q[1]][q[2]] \notin Broken \ {h}
    BY <2>1, <2>2
  <2>4. ASSUME NEW g \in Roommates(t, h) PROVE g \in reached
    <3>1. PICK r \in RoomIds : Contains(t[r], h) /\ Contains(t[r], g)
      BY DEF Roommates
    <3>2. PICK i \in 1..Len(t[r]) : t[r][i] = g
      BY <3>1 DEF Contains
    <3>3. <<r, i>> \in Slots(t, h)
      BY <3>1 DEF Slots
    <3> QED
      BY <2>3, <3>2, <3>3 DEF Reached
  <2> QED
    BY <1>1, <1>3, <1>5, <2>4 DEF Hall!Around
<1>7. Hall!Around(MembersOf(t), c) = around
  OBVIOUS
<1> HIDE DEF to, around, c
<1> QED
  BY <1>2, <1>5, <1>6 DEF Hall!Tell, around, c

-----------------------------------------------------------------------------
(* The steps of the server as steps of the hall.                           *)
HallStep == [Hall!Next]_(Hall!hallVars)

LEMMA NamedTwiceStays ==
  ASSUME TypeInv, [Next]_vars, NamedTwice
  PROVE  NamedTwice'
<1>1. script' = script
  BY InboxesOnlyEmptied
<1> QED
  BY <1>1, BlameStays DEF NamedTwice

LEMMA SameLinks ==
  ASSUME link' = link
  PROVE  Gone' = Gone /\ Cut' = Cut
  BY DEF Gone, Cut

LEMMA NobodyWaits ==
  /\ pc # "add" => Waiting = {}
  /\ pc' # "add" => Waiting' = {}
  BY DEF Waiting

LEMMA SameMembers ==
  ASSUME rooms' = rooms, \A h \in Sockets : Holds(rooms, h) => owner'[h] = owner[h]
  PROVE  Members' = Members
<1>1. \A r \in RoomIds : \A h \in Sockets :
        /\ Contains(rooms'[r], h) = Contains(rooms[r], h)
        /\ Contains(rooms[r], h) => owner'[h] = owner[h]
  BY DEF Contains, Holds
<1> QED
  BY <1>1 DEF Members

LEMMA HallStutters ==
  ASSUME UNCHANGED <<rooms, inq, sent, out, Waiting, Gone, Cut>>,
         \A h \in Sockets : Holds(rooms, h) => owner'[h] = owner[h]
  PROVE  HallStep
  BY SameMembers DEF HallStep, Hall!hallVars

LEMMA TakenOnHall ==
  ASSUME NEW h \in Sockets, HasData(h), Receive(h), sent' = sent,
         NEW types, Head(inq[owner[h]]).type \in types
  PROVE  Hall!Take(owner[h], types)
  BY DEF Hall!Take, Receive, HasData

LEMMA ListedPresent ==
  ASSUME TypeInv, NEW p \in Places, NEW h \in Sockets, h = At(p), Open(h)
  PROVE  owner[h] \in Clients /\ Hall!Present(owner[h])
<1>1. p[1] \in RoomIds /\ Contains(rooms[p[1]], h)
  BY PlaceTyped DEF TypeInv, Contains, At
<1>2. owner[h] \in Clients
  BY DEF TypeInv, TypeOK, Open
<1> QED
  BY <1>1, <1>2 DEF Hall!Present, Members

LEMMA FreshAbsent ==
  ASSUME TypeInv, OwnersInv, OpenInv, NEW h \in fresh
  PROVE  /\ h \in Sockets /\ Open(h) /\ owner[h] \in Clients /\ fresh = {h} /\ ~Holds(rooms, h)
         /\ ~Hall!Present(owner[h])
<1>1. h \in Sockets /\ Open(h) /\ fresh = {h} /\ ~Holds(rooms, h)
  BY DEF OpenInv, TypeInv, TypeOK
<1>2. owner[h] \in Clients
  BY <1>1 DEF TypeInv, TypeOK, Open
<1>3. ~Hall!Present(owner[h])
  <2> SUFFICES ASSUME NEW r \in RoomIds, owner[h] \in Members[r] PROVE FALSE
    BY DEF Hall!Present
  <2>1. PICK g \in Sockets : owner[g] = owner[h] /\ Contains(rooms[r], g)
    BY DEF Members
  <2>2. g = h
    BY <1>1, <2>1 DEF OwnersInv
  <2> QED
    BY <1>1, <2>1, <2>2 DEF Holds
<1> QED
  BY <1>1, <1>2, <1>3

LEMMA TextOnHall ==
  ASSUME TypeInv, OwnersInv, OpenInv, NEW p \in Places, Text(p), pc = "scan", pc' = pc, sent' = sent
  PROVE  HallStep
<1>1. PICK h \in Sockets : h = At(p)
  BY PlaceTyped DEF TypeInv
<1> DEFINE c == owner[h]
<1>2. /\ HasData(h) /\ Head(inq[c]).type = "TEXT" /\ Receive(h)
      /\ Open(h) /\ UNCHANGED <<rooms, owner, link>>
      /\ Broadcast(rooms, h, Message("TEXT", c, sent[c] - Len(inq[c]) + 1))
  BY <1>1 DEF Text, HasData
<1>3. c \in Clients /\ Hall!Present(c)
  BY <1>1, <1>2, ListedPresent
<1>4. Members' = Members /\ UNCHANGED <<Waiting, Gone, Cut>>
  BY <1>2, SameMembers, SameLinks, NobodyWaits
<1>5. Message("TEXT", c, sent[c] - Len(inq[c]) + 1) = Hall!Text(c)
  BY DEF Message, Hall!Text, Hall!Turn
<1>6. Hall!Tell(Members, c, Hall!Text(c))
  <2>1. rooms \in RoomTable /\ \A g \in Sockets : Holds(rooms, g) => Open(g)
    BY DEF OpenInv, TypeInv, TypeOK
  <2>2. Hall!Tell(MembersOf(rooms), c, Message("TEXT", c, sent[c] - Len(inq[c]) + 1))
    BY <1>2, <2>1, BroadcastTold
  <2> QED
    BY <1>5, <2>2 DEF MembersOf, Members
<1>7. Hall!Take(c, {"TEXT"})
  BY <1>2, TakenOnHall
<1> HIDE DEF c
<1>8. Hall!Say(c)
  BY <1>3, <1>4, <1>6, <1>7 DEF Hall!Say
<1> QED
  BY <1>3, <1>8 DEF HallStep, Hall!Next

(* Requests and what is ignored, at the door and in the rooms. *)
LEMMA RequestOnHall ==
  ASSUME TypeInv, NEW p \in Places, Request(p) \/ Ignore(p), pc = "scan", pc' = pc, sent' = sent
  PROVE  HallStep
<1>1. PICK h \in Sockets : h = At(p)
  BY PlaceTyped DEF TypeInv
<1> DEFINE c == owner[h]
<1>2. /\ HasData(h) /\ Receive(h) /\ Open(h) /\ UNCHANGED <<rooms, owner, link, out>>
      /\ Head(inq[c]).type \in Requests \/ Head(inq[c]).type \in {"NOTIFICATION", "JOIN_ROOM"}
  BY <1>1 DEF Request, Ignore, HasData
<1>3. c \in Clients /\ Hall!Present(c)
  BY <1>1, <1>2, ListedPresent
<1>4. Members' = Members /\ UNCHANGED <<Waiting, Gone, Cut>>
  BY <1>2, SameMembers, SameLinks, NobodyWaits
<1>5. Hall!Take(c, Hall!Requests) \/ Hall!Take(c, {"NOTIFICATION", "JOIN_ROOM"})
  BY <1>2, TakenOnHall DEF Requests, Hall!Requests
<1> HIDE DEF c
<1>6. Hall!Call(c) \/ Hall!Ignore(c)
  BY <1>2, <1>3, <1>4, <1>5 DEF Hall!Call, Hall!Ignore
<1> QED
  BY <1>3, <1>6 DEF HallStep, Hall!Next

LEMMA DoorOnHall ==
  ASSUME TypeInv, OwnersInv, OpenInv, NEW h \in fresh, FirstRequest(h) \/ FirstIgnored(h),
         pc = "first", UNCHANGED <<owner, link, sent>>
  PROVE  HallStep
<1> DEFINE c == owner[h]
<1>1. h \in Sockets /\ c \in Clients /\ fresh = {h} /\ ~Hall!Present(c)
  BY FreshAbsent
<1>2. Members' = Members /\ UNCHANGED <<Gone, Cut, out, rooms>> /\ Waiting = {}
  BY SameMembers, SameLinks, NobodyWaits DEF FirstRequest, FirstIgnored
<1>3. CASE FirstRequest(h)
  <2>1. /\ HasData(h) /\ Receive(h) /\ pc' = "add" /\ fresh' = fresh
        /\ Head(inq[c]).type \in Requests
    BY <1>3 DEF FirstRequest
  <2>2. Hall!Take(c, Hall!Requests)
    BY <1>1, <2>1, TakenOnHall DEF Requests, Hall!Requests
  <2>3. Waiting' = {c}
    BY <1>1, <2>1 DEF Waiting
  <2> HIDE DEF c
  <2>4. Hall!Call(c)
    BY <1>1, <1>2, <2>2, <2>3 DEF Hall!Call
  <2> QED
    BY <1>1, <2>4 DEF HallStep, Hall!Next
<1>4. CASE FirstIgnored(h) /\ inq' = inq
  <2>1. pc' # "add"
    BY <1>4 DEF FirstIgnored
  <2> QED
    BY <1>2, <1>4, <2>1, NobodyWaits, HallStutters
<1>5. CASE FirstIgnored(h) /\ inq' # inq
  <2>1. /\ HasData(h) /\ Receive(h) /\ pc' # "add" /\ h \in Sockets
        /\ Head(inq[c]).type \notin Requests \cup {"JOIN_ROOM"}
    BY <1>1, <1>5 DEF FirstIgnored
  <2>2. Head(inq[c]).type \in {"NOTIFICATION", "TEXT", "LEAVE_ROOM"}
    <3>1. Head(inq[c]) \in Packet
      BY <1>1, <2>1, FirstOfStream DEF HasData
    <3> QED
      BY <2>1, <3>1 DEF Packet
  <2>3. Hall!Take(c, {"NOTIFICATION", "TEXT", "LEAVE_ROOM"})
    BY <2>1, <2>2, TakenOnHall
  <2>4. Waiting' = {}
    BY <2>1, NobodyWaits
  <2> HIDE DEF c
  <2>5. Hall!Ignore(c)
    BY <1>1, <1>2, <2>3, <2>4 DEF Hall!Ignore
  <2> QED
    BY <1>1, <2>5 DEF HallStep, Hall!Next
<1> QED
  BY <1>3, <1>4, <1>5

(* The handle of one connection is taken out of room r. *)
LEMMA MembersErased ==
  ASSUME TypeInv, OwnersInv, Single(rooms), NEW r \in RoomIds, NEW h \in Sockets, Open(h),
         Contains(rooms[r], h), rooms' = [rooms EXCEPT ![r] = EraseFirst(@, h)],
         \A g \in Sockets : g # h => owner'[g] = owner[g],
         \/ owner'[h] = owner[h]
         \/ owner'[h] = NoClient /\ \A q \in RoomIds : Contains(rooms[q], h) => q = r
  PROVE  Members' = [Members EXCEPT ![r] = @ \ {owner[h]}]
<1> DEFINE c == owner[h]
<1>1. /\ rooms \in RoomTable /\ Single(rooms) /\ Contains(rooms[r], h)
      /\ rooms' = [rooms EXCEPT ![r] = EraseFirst(@, h)]
  BY DEF TypeInv, TypeOK
<1>4. \A q \in RoomIds, g \in Sockets :
        Contains(rooms'[q], g) <=> Contains(rooms[q], g) /\ ~(q = r /\ g = h)
  BY <1>1, ErasedContains
<1>5. \A g \in Sockets : owner[g] = c => g = h
  BY DEF OwnersInv
<1>6. NoClient \notin Clients /\ c \in Clients
  BY ServerAssumption DEF Open, TypeInv, TypeOK
<1> SUFFICES ASSUME NEW q \in RoomIds
             PROVE  Members'[q] = IF q = r THEN Members[q] \ {c} ELSE Members[q]
  BY DEF Members
<1>7. /\ Members'[q] = {d \in Clients : \E g \in Sockets : owner'[g] = d /\ Contains(rooms'[q], g)}
      /\ Members[q] = {d \in Clients : \E g \in Sockets : owner[g] = d /\ Contains(rooms[q], g)}
  BY DEF Members
<1> HIDE DEF c
<1>8. ASSUME NEW d \in Clients, NEW g \in Sockets
      PROVE  owner'[g] = d /\ Contains(rooms'[q], g)
             <=> owner[g] = d /\ Contains(rooms[q], g) /\ ~(q = r /\ d = c)
  <2>1. CASE g # h
    <3>1. owner'[g] = owner[g] /\ (owner[g] = d => d # c)
      BY <1>5, <2>1
    <3> QED
      BY <1>4, <2>1, <3>1
  <2>2. CASE g = h
    <3>1. owner[h] = c
      BY DEF c
    <3> QED
      BY <1>4, <1>6, <2>2, <3>1
  <2> QED
    BY <2>1, <2>2
<1> QED
  BY <1>7, <1>8

LEMMA DisconnectOnHall ==
  ASSUME HallInv, TidyInv, ~Stray', ~NamedTwice, ~Stray, NEW p \in Places, Disconnect(p),
         [Next]_vars, pc = "scan", pc' = pc, sent' = sent
  PROVE  HallStep
<1>1. PICK h \in Sockets : h = At(p)
  BY PlaceTyped DEF HallInv, HeldInv, TypeInv
<1> DEFINE c == owner[h]
<1>2. PICK r \in RoomIds : r = p[1]
  BY PlaceTyped DEF HallInv, HeldInv, TypeInv
<1>3. /\ TypeInv /\ OwnersInv /\ OpenInv /\ Single(rooms) /\ rooms \in RoomTable
      /\ owner \in [Sockets -> Clients \cup {NoClient}] /\ out \in [Clients -> Streams]
      /\ link \in [Clients -> {"idle", "up", "fin", "rst", "shut"}] /\ inq \in [Clients -> Seq(Packet)]
  BY DEF HallInv, HeldInv, TypeInv, TypeOK, TidyInv, Streams
<1>4. Contains(rooms[r], h)
  BY <1>1, <1>2, <1>3, PlaceTyped DEF TypeInv, Contains, At
<1>5. Open(h)
  BY <1>3, <1>4 DEF OpenInv, Holds
<1>6. c \in Clients /\ Hall!Present(c)
  BY <1>1, <1>3, <1>5, ListedPresent
<1>7. /\ rooms' = [rooms EXCEPT ![r] = EraseFirst(@, h)] /\ Lost(h)
      /\ owner' = [owner EXCEPT ![h] = NoClient] /\ link' = [link EXCEPT ![c] = "shut"]
      /\ Broadcast(Removed(p), h, Message("NOTIFICATION", NoClient, 0)) /\ Removed(p) = rooms'
      /\ inq' = [inq EXCEPT ![c] = <<>>]
  BY <1>1, <1>2, <1>5 DEF Disconnect, ChangeRooms, Removed, Close
<1>8. ~JoinedSeveral(c)
  <2>1. PICK d \in Clients : d = c
    BY <1>6
  <2>2. link'[d] = "shut"
    BY <1>3, <1>7, <2>1
  <2>3. JoinedSeveral(d) => JoinedSeveral(d)'
    BY <1>3, BlameStays
  <2> QED
    BY <2>1, <2>2, <2>3 DEF Stray
<1>9. \A q \in RoomIds : Contains(rooms[q], h) => q = r
  BY <1>4, <1>8 DEF TidyInv, Once, Contains, Spread
<1>10. Members' = [q \in RoomIds |-> Members[q] \ {c}]
  <2>1. Members' = [Members EXCEPT ![r] = @ \ {c}]
    BY <1>3, <1>4, <1>5, <1>7, <1>9, MembersErased
  <2>2. \A q \in RoomIds : c \in Members[q] => q = r
    BY <1>3, <1>5, <1>9 DEF Members, OwnersInv
  <2>3. PICK m, x : m = Members /\ x = c
    OBVIOUS
  <2>4. [m EXCEPT ![r] = @ \ {x}] = [q \in RoomIds |-> m[q] \ {x}]
    <3>1. m = [q \in RoomIds |-> m[q]]
      BY <2>3 DEF Members
    <3>2. \A q \in RoomIds : q # r => m[q] \ {x} = m[q]
      BY <2>2, <2>3
    <3> QED
      BY <3>1, <3>2
  <2> QED
    BY <2>1, <2>3, <2>4, Zenon
<1>11. out' = out
  <2>1. \A q \in RoomIds, g \in Sockets :
          Contains(rooms'[q], g) <=> Contains(rooms[q], g) /\ ~(q = r /\ g = h)
    BY <1>3, <1>4, <1>7, ErasedContains
  <2>2. \A q \in RoomIds : ~Contains(rooms'[q], h)
    BY <1>9, <2>1
  <2>3. Reached(Removed(p), h, Broken) = {}
    BY <1>7, <2>2 DEF Reached, Roommates
  <2> QED
    BY <1>3, <1>7, <2>3 DEF Broadcast, SendTo
<1>12. inq[c] = <<>> /\ inq' = inq /\ c \in Gone
  <2>1. inq[c] = <<>> /\ link[c] \in {"fin", "rst"}
    BY <1>5, <1>6, <1>7 DEF Lost, HallInv
  <2> QED
    BY <1>3, <1>6, <1>7, <2>1 DEF Gone
<1>13. Gone' = Gone /\ Cut' = Cut \ {c}
  <2>1. \A d \in Clients : d # c => link'[d] = link[d]
    BY <1>3, <1>7
  <2>2. link'[c] = "shut"
    BY <1>3, <1>6, <1>7
  <2> HIDE DEF c
  <2> QED
    BY <1>6, <1>12, <2>1, <2>2 DEF Gone, Cut
<1>14. Waiting' = Waiting
  BY NobodyWaits
<1> HIDE DEF c
<1>15. Hall!Vanish(c)
  BY <1>6, <1>10, <1>11, <1>12, <1>13, <1>14 DEF Hall!Vanish
<1> QED
  BY <1>6, <1>15 DEF HallStep, Hall!Next

LEMMA LeaveOnHall ==
  ASSUME HallInv, TidyInv, ~Stray', ~NamedTwice, ~Stray, NEW p \in Places, Leave(p),
         [Next]_vars, pc = "scan", pc' = pc, sent' = sent
  PROVE  HallStep
<1>1. PICK h \in Sockets : h = At(p)
  BY PlaceTyped DEF HallInv, HeldInv, TypeInv
<1> DEFINE c == owner[h]
           room == Head(Head(inq[c]).arg)
<1>2. /\ TypeInv /\ OwnersInv /\ UnreadInv /\ SentInv /\ OpenInv /\ Single(rooms) /\ rooms \in RoomTable
  BY DEF HallInv, HeldInv, TypeInv, TypeOK, TidyInv
<1>3. Contains(rooms[room], h)
  BY <1>1, <1>2, LeavingElsewhere
<1>4. /\ HasData(h) /\ Open(h) /\ Head(inq[c]).type = "LEAVE_ROOM" /\ Receive(h) /\ UNCHANGED <<owner, link>>
      /\ rooms' = [rooms EXCEPT ![room] = EraseFirst(@, h)]
      /\ Broadcast(rooms, h, Message("NOTIFICATION", c, 0))
  BY <1>1, <1>3 DEF Leave, HasData, ChangeRooms, AfterLeaving, ToldOfLeaving, Notice
<1>5. c \in Clients
  BY <1>1, <1>2, <1>4, ListedPresent
<1>6. room \in RoomIds
  <2>1. PICK d \in Clients : \E i \in 1..sent[d] :
          /\ d = c /\ script[d][i] = Head(inq[d]) /\ i \in 1..Len(script[d])
          /\ script[d] \in Scripts /\ script[d] \in Seq(Packet)
    BY <1>2, <1>4, ReadPacket
  <2>2. PICK packet : packet = Head(inq[c])
    OBVIOUS
  <2>3. packet \in Packet /\ packet.arg # <<>>
    BY <1>4, <2>1, <2>2, ServerAssumption
  <2>4. packet.arg \in Seq(RoomIds)
    BY <2>3 DEF Packet
  <2> QED
    BY <2>2, <2>3, <2>4
<1>7. Hall!Take(c, {"LEAVE_ROOM"})
  BY <1>4, TakenOnHall
<1>8. PICK r \in RoomIds : r = room
  BY <1>6
<1>9. Members' = [Members EXCEPT ![r] = @ \ {c}] /\ c \in Members[r]
  <2>1. Contains(rooms[r], h) /\ rooms' = [rooms EXCEPT ![r] = EraseFirst(@, h)]
    BY <1>3, <1>4, <1>8
  <2>2. Members' = [Members EXCEPT ![r] = @ \ {owner[h]}]
    BY <1>2, <1>4, <2>1, MembersErased
  <2> QED
    BY <1>5, <2>1, <2>2 DEF Members
<1>10. Hall!Tell(Members, c, Hall!Notice(c))
  <2>1. Hall!Tell(MembersOf(rooms), c, Message("NOTIFICATION", c, 0))
    BY <1>2, <1>4, BroadcastTold DEF OpenInv
  <2>2. Message("NOTIFICATION", c, 0) = Hall!Notice(c)
    BY DEF Message, Hall!Notice
  <2> QED
    BY <2>1, <2>2 DEF MembersOf, Members
<1>11. UNCHANGED <<Waiting, Gone, Cut>>
  BY <1>4, SameLinks, NobodyWaits
<1>12. Hall!Leave(c)
  <2>1. c \in Members[room] /\ Members' = [Members EXCEPT ![room] = @ \ {c}]
    BY <1>8, <1>9
  <2> HIDE DEF c
  <2> QED
    BY <1>7, <1>10, <1>11, <2>1 DEF Hall!Leave
<1> HIDE DEF c
<1> QED
  BY <1>5, <1>12 DEF HallStep, Hall!Next

(* The rooms in which a new handle is listed get its connection. *)
LEMMA GrownMembers ==
  ASSUME TypeInv, OwnersInv, OpenInv, NEW h \in fresh, owner' = owner,
         NEW n \in [RoomIds -> Nat], Grows(rooms, rooms', n, h)
  PROVE  /\ Members' = [r \in RoomIds |-> IF n[r] > 0 THEN Members[r] \cup {owner[h]} ELSE Members[r]]
         /\ \A g \in Sockets : Holds(rooms', g) => Open(g)
         /\ Single(rooms) /\ (\A r \in RoomIds : n[r] <= 1) => Single(rooms')
<1>1. h \in Sockets /\ Open(h) /\ owner[h] \in Clients /\ ~Holds(rooms, h) /\ rooms \in RoomTable
  BY FreshAbsent DEF TypeInv, TypeOK
<1>2. PICK t, t2 : t = rooms /\ t2 = rooms'
  OBVIOUS
<1>3. t \in RoomTable /\ Grows(t, t2, n, h) /\ ~Holds(t, h)
  BY <1>1, <1>2 DEF Grows, Holds
<1>4. /\ \A r \in RoomIds, g \in Sockets :
            Contains(t2[r], g) <=> Contains(t[r], g) \/ (g = h /\ n[r] > 0)
      /\ Single(t) /\ ~Holds(t, h) /\ (\A r \in RoomIds : n[r] <= 1) => Single(t2)
  BY <1>1, <1>3, GrownContains
<1>5. \A r \in RoomIds, g \in Sockets :
        Contains(rooms'[r], g) <=> Contains(rooms[r], g) \/ (g = h /\ n[r] > 0)
  BY <1>2, <1>4 DEF Contains
<1>6. ASSUME NEW r \in RoomIds
      PROVE  Members'[r] = IF n[r] > 0 THEN Members[r] \cup {owner[h]} ELSE Members[r]
  <2>1. /\ Members'[r] = {d \in Clients : \E g \in Sockets : owner[g] = d /\ Contains(rooms'[r], g)}
        /\ Members[r] = {d \in Clients : \E g \in Sockets : owner[g] = d /\ Contains(rooms[r], g)}
    BY DEF Members
  <2>2. CASE n[r] > 0
    BY <1>1, <1>5, <2>1, <2>2
  <2>3. CASE ~(n[r] > 0)
    BY <1>1, <1>5, <2>1, <2>3
  <2> QED
    BY <2>2, <2>3
<1>7. Members' = [r \in RoomIds |-> IF n[r] > 0 THEN Members[r] \cup {owner[h]} ELSE Members[r]]
  BY <1>6 DEF Members
<1>8. \A g \in Sockets : Holds(rooms', g) => Open(g)
  BY <1>1, <1>5 DEF Holds, OpenInv
<1>9. Single(rooms) /\ (\A r \in RoomIds : n[r] <= 1) => Single(rooms')
  BY <1>2, <1>3, <1>4 DEF Single
<1> QED
  BY <1>7, <1>8, <1>9

LEMMA JoinGrows ==
  ASSUME TypeInv, NEW h \in Sockets, Open(h), JoinRoom(h)
  PROVE  \E wanted \in Seq(RoomIds) :
           /\ wanted = Head(inq[owner[h]]).arg
           /\ Grows(rooms, rooms', Named(wanted), h)
           /\ Broadcast(rooms', h, Message("NOTIFICATION", owner[h], 0))
<1> DEFINE wanted == Head(inq[owner[h]]).arg
           table == [r \in RoomIds |->
             rooms[r] \o [i \in 1..Cardinality({j \in 1..Len(wanted) : wanted[j] = r}) |-> h]]
<1>1. /\ HasData(h) /\ rooms' = table /\ Broadcast(table, h, Message("NOTIFICATION", owner[h], 0))
  BY DEF JoinRoom, ChangeRooms, Notice
<1>2. wanted \in Seq(RoomIds)
  BY <1>1, FirstOfStream DEF HasData, Packet
<1>3. Grows(rooms, rooms', Named(wanted), h)
  BY <1>1 DEF Grows, Named, Copied
<1> HIDE DEF table
<1>4. Broadcast(rooms', h, Message("NOTIFICATION", owner[h], 0))
  BY <1>1 DEF Broadcast
<1> QED
  BY <1>2, <1>3, <1>4

LEMMA JoinOnHall ==
  ASSUME TypeInv, TypeInv', OwnersInv, OpenInv, NEW h \in fresh, JoinRoom(h),
         pc = "first", UNCHANGED <<owner, link, sent>>
  PROVE  HallStep
<1> DEFINE c == owner[h]
           m == [r \in RoomIds |-> IF \E i \in 1..Len(Head(inq[c]).arg) : Head(inq[c]).arg[i] = r
                                   THEN Members[r] \cup {c} ELSE Members[r]]
<1>1. h \in Sockets /\ Open(h) /\ c \in Clients /\ ~Hall!Present(c)
  BY FreshAbsent
<1>2. PICK wanted \in Seq(RoomIds) :
        /\ wanted = Head(inq[c]).arg
        /\ Grows(rooms, rooms', Named(wanted), h)
        /\ Broadcast(rooms', h, Message("NOTIFICATION", c, 0))
  BY <1>1, JoinGrows
<1>3. /\ Members' = [r \in RoomIds |-> IF Named(wanted)[r] > 0 THEN Members[r] \cup {c} ELSE Members[r]]
      /\ \A g \in Sockets : Holds(rooms', g) => Open(g)
  BY <1>2, NamedRooms, GrownMembers
<1>4. Members' = m
  BY <1>2, <1>3, NamedRooms
<1>5. Hall!Tell(Members', c, Hall!Notice(c))
  <2>1. PICK t : t = rooms'
    OBVIOUS
  <2>2. t \in RoomTable /\ \A g \in Sockets : Holds(t, g) => Open(g)
    BY <1>3, <2>1 DEF TypeInv, TypeOK, Holds, Contains
  <2>3. Broadcast(t, h, Message("NOTIFICATION", c, 0))
    BY <1>2, <2>1 DEF Broadcast
  <2>4. Hall!Tell(MembersOf(t), c, Message("NOTIFICATION", c, 0))
    BY <1>1, <2>2, <2>3, BroadcastTold
  <2>5. Message("NOTIFICATION", c, 0) = Hall!Notice(c)
    BY DEF Message, Hall!Notice
  <2>6. MembersOf(t) = Members'
    BY <2>1 DEF MembersOf, Members, Contains
  <2> QED
    BY <2>4, <2>5, <2>6
<1>6. Hall!Take(c, {"JOIN_ROOM"})
  BY <1>1, TakenOnHall DEF JoinRoom
<1>7. UNCHANGED <<Waiting, Gone, Cut>>
  BY SameLinks, NobodyWaits DEF JoinRoom
<1> HIDE DEF c
<1>8. Hall!Join(c)
  BY <1>1, <1>4, <1>5, <1>6, <1>7 DEF Hall!Join
<1> QED
  BY <1>1, <1>8 DEF HallStep, Hall!Next

(* A new connection is listed once, in the lobby. *)
InLobby == [r \in RoomIds |-> IF r = Lobby THEN 1 ELSE 0]

LEMMA AddGrows ==
  ASSUME TypeInv, Add
  PROVE  \E h \in fresh : Grows(rooms, rooms', InLobby, h)
<1>1. PICK h \in fresh : rooms' = [rooms EXCEPT ![Lobby] = Append(@, h)]
  BY DEF Add, ChangeRooms
<1>2. h \in Sockets /\ rooms \in RoomTable
  BY DEF TypeInv, TypeOK
<1>3. ASSUME NEW r \in RoomIds
      PROVE  rooms'[r] = Copied(rooms[r], IF r = Lobby THEN 1 ELSE 0, h)
  <2>1. PICK u : u = rooms[r]
    OBVIOUS
  <2>2. u \in Seq(Sockets)
    BY <1>2, <2>1 DEF RoomTable
  <2>3. u \o [k \in 1..1 |-> h] = Append(u, h) /\ u \o [k \in 1..0 |-> h] = u
    BY <1>2, <2>2
  <2> QED
    BY <1>1, <1>2, <2>1, <2>3 DEF RoomTable, Copied
<1> QED
  BY <1>3 DEF Grows, InLobby

LEMMA AddOnHall ==
  ASSUME TypeInv, OwnersInv, OpenInv, Add
  PROVE  HallStep
<1> USE DEF netVars, clientVars
<1>1. PICK h \in fresh : Grows(rooms, rooms', InLobby, h)
  BY AddGrows
<1> DEFINE c == owner[h]
<1>2. UNCHANGED <<owner, link, inq, sent, out>> /\ pc = "add" /\ pc' # "add"
  BY DEF Add
<1>3. fresh = {h} /\ c \in Clients
  BY FreshAbsent
<1>4. InLobby \in [RoomIds -> Nat] /\ \A r \in RoomIds : InLobby[r] > 0 <=> r = Lobby
  BY DEF InLobby
<1>5. Members' = [Members EXCEPT ![Lobby] = @ \cup {c}]
  <2>1. Members' = [r \in RoomIds |-> IF InLobby[r] > 0 THEN Members[r] \cup {c} ELSE Members[r]]
    BY <1>1, <1>2, <1>4, GrownMembers
  <2> QED
    BY <1>4, <2>1 DEF Members
<1>6. Waiting = {c} /\ Waiting' = {}
  BY <1>2, <1>3 DEF Waiting
<1>7. UNCHANGED <<Gone, Cut>>
  BY <1>2, SameLinks
<1> HIDE DEF c
<1>8. Hall!Seat(c)
  BY <1>2, <1>5, <1>6, <1>7 DEF Hall!Seat
<1> QED
  BY <1>3, <1>8 DEF HallStep, Hall!Next

LEMMA ScanOnHall ==
  ASSUME HallInv, TidyInv, ~Stray', ~NamedTwice, ~Stray, Scan
  PROVE  HallStep
<1>1. PICK p \in Places : Disconnect(p) \/ Text(p) \/ Leave(p) \/ Request(p) \/ Ignore(p)
  BY DEF Scan
<1>2. TypeInv /\ OwnersInv /\ OpenInv
  BY DEF HallInv, HeldInv, TidyInv
<1>3. pc = "scan" /\ pc' = pc /\ sent' = sent /\ [Next]_vars
  BY DEF Scan, clientVars, Next, Main
<1> QED
  BY <1>1, <1>2, <1>3, DisconnectOnHall, TextOnHall, LeaveOnHall, RequestOnHall

LEMMA FirstOnHall ==
  ASSUME TypeInv, TypeInv', OwnersInv, OpenInv, First
  PROVE  HallStep
<1>1. PICK h \in fresh : FirstRequest(h) \/ JoinRoom(h) \/ FirstIgnored(h)
  BY DEF First
<1>2. pc = "first" /\ UNCHANGED <<owner, link, sent>>
  BY DEF First, clientVars
<1> QED
  BY <1>1, <1>2, DoorOnHall, JoinOnHall

LEMMA MainOnHall ==
  ASSUME HallInv, TypeInv', TidyInv, ~Stray', ~NamedTwice, ~Stray, Main
  PROVE  HallStep
<1> USE DEF netVars, mainVars, clientVars, authVars
<1>1. TypeInv /\ OwnersInv /\ OpenInv
  BY DEF HallInv, HeldInv, TidyInv
<1>2. CASE Select \/ SelectTimeout \/ ScanEnd
  <2>1. UNCHANGED <<rooms, owner, link, inq, sent, out>> /\ pc # "add" /\ pc' # "add"
    BY <1>2 DEF Select, SelectTimeout, ScanEnd, vars
  <2> QED
    BY <2>1, SameLinks, NobodyWaits, HallStutters
<1>3. CASE Accept
  <2>1. UNCHANGED <<rooms, link, inq, sent, out>> /\ pc # "add" /\ pc' # "add"
    BY <1>3 DEF Accept
  <2>2. owner' = owner \/ \E h \in Sockets : ~Open(h) /\ owner' = [owner EXCEPT ![h] = Head(backlog)]
    BY <1>3 DEF Accept
  <2>3. owner \in [Sockets -> Clients \cup {NoClient}]
    BY <1>1 DEF TypeInv, TypeOK
  <2>4. \A g \in Sockets : Holds(rooms, g) => owner'[g] = owner[g]
    BY <1>1, <2>2, <2>3 DEF OpenInv
  <2> QED
    BY <2>1, <2>4, SameLinks, NobodyWaits, HallStutters
<1> QED
  BY <1>1, <1>2, <1>3, ScanOnHall, FirstOnHall, AddOnHall DEF Main

(* An answer comes to the connection behind its handle, if there is one. *)
LEMMA RelayOnHall ==
  ASSUME TypeInv, NEW m \in Response, NEW n \in Nat, Relay(m, n),
         UNCHANGED <<rooms, owner, link, inq, sent, Waiting>>
  PROVE  HallStep
<1> DEFINE c == owner[m.id]
           heard == \E h \in Addressees(m) : owner[h] = c /\ link[c] # "rst"
<1>1. /\ m.id \in Sockets /\ owner \in [Sockets -> Clients \cup {NoClient}]
      /\ out \in [Clients -> Streams] /\ NoClient \notin Clients
  BY ServerAssumption DEF TypeInv, TypeOK, Streams, Response
<1>2. UNCHANGED <<Members, Gone, Cut>>
  BY SameMembers, SameLinks
<1>3. \A h \in Addressees(m) : h = m.id
  BY DEF Addressees
<1>4. CASE c \in Clients /\ heard
  <2>1. PICK s : s = [i \in 1..n |-> m]
    OBVIOUS
  <2>2. out' = [out EXCEPT ![c] = @ \o s]
    <3>1. \A d \in Clients : (\E h \in Addressees(m) : owner[h] = d /\ link[d] # "rst") <=> d = c
      BY <1>3, <1>4
    <3> QED
      BY <1>1, <2>1, <3>1 DEF Relay
  <2> HIDE DEF c
  <2>3. s \in Seq(Response) /\ Len(s) = n /\ \A i \in 1..n : s[i] = m
    BY <2>1
  <2>4. out[c] \in Seq(Chat \cup Response) /\ out'[c] = out[c] \o s
    BY <1>1, <1>4, <2>2 DEF Streams
  <2>5. PICK a, b : a = out[c] /\ b = out'[c]
    OBVIOUS
  <2>6. /\ Len(b) = Len(a) + n /\ Len(a) \in Nat
        /\ \A i \in 1..Len(a) : b[i] = a[i]
        /\ \A i \in (Len(a) + 1)..(Len(a) + n) : b[i] = s[i - Len(a)]
    <3>1. a \in Seq(Chat \cup Response) /\ s \in Seq(Chat \cup Response) /\ b = a \o s
      BY <2>3, <2>4, <2>5
    <3>2. Len(b) = Len(a) + Len(s) /\ Len(a) \in Nat
      BY <3>1
    <3>3. \A i \in 1..(Len(a) + Len(s)) : b[i] = IF i <= Len(a) THEN a[i] ELSE s[i - Len(a)]
      BY <3>1
    <3> QED
      BY <2>3, <3>2, <3>3
  <2>7. \A i \in (Len(a) + 1)..Len(b) : b[i] \in Response
    <3> SUFFICES ASSUME NEW i \in (Len(a) + 1)..Len(b) PROVE b[i] \in Response
      OBVIOUS
    <3>1. i - Len(a) \in 1..n /\ i \in (Len(a) + 1)..(Len(a) + n)
      BY <2>6
    <3> QED
      BY <2>3, <2>6, <3>1
  <2>8. Len(a) <= Len(b)
    BY <2>6
  <2>9. out' = [out EXCEPT ![c] = out'[c]]
    BY <1>1, <1>4, <2>2
  <2>10. Hall!Answered(c)
    BY <1>2, <2>5, <2>6, <2>7, <2>8, <2>9 DEF Hall!Answered
  <2> QED
    BY <1>4, <2>10 DEF HallStep, Hall!Next
<1>5. CASE ~(c \in Clients /\ heard)
  <2>1. \A d \in Clients : ~\E h \in Addressees(m) : owner[h] = d /\ link[d] # "rst"
    BY <1>3, <1>5
  <2>2. out' = out
    BY <1>1, <2>1 DEF Relay
  <2> QED
    BY <1>2, <2>2, HallStutters
<1> QED
  BY <1>4, <1>5

LEMMA AuthOnHall ==
  ASSUME TypeInv, Auth
  PROVE  HallStep
<1> USE DEF netVars, mainVars, clientVars, authVars
<1>1. UNCHANGED <<rooms, owner, link, inq, sent, pc, fresh>>
  BY DEF Auth, AuthReceive, AuthDeliver
<1>2. UNCHANGED <<Waiting, Gone, Cut>>
  BY <1>1, SameLinks DEF Waiting
<1>3. CASE out' = out
  BY <1>1, <1>2, <1>3, HallStutters
<1>4. CASE out' # out
  <2>1. AuthDeliver
    BY <1>4 DEF Auth, AuthReceive
  <2>2. amsg \in SUBSET Response /\ \A h : Listings(h) \in Nat
    BY CopiesNatural DEF TypeInv, TypeOK
  <2>3. PICK m \in amsg :
          IF ~raced
          THEN Relay(m, Listings(m.id)) /\ UNCHANGED alive
          ELSE \/ \E n \in 0..2 : Relay(m, n) /\ UNCHANGED alive
               \/ alive' = FALSE /\ UNCHANGED out
    BY <2>1 DEF AuthDeliver
  <2>4. \E n \in Nat : Relay(m, n)
    <3>1. \A n \in 0..2 : n \in Nat
      OBVIOUS
    <3> QED
      BY <1>4, <2>2, <2>3, <3>1
  <2> QED
    BY <1>1, <1>2, <2>2, <2>3, <2>4, RelayOnHall
<1> QED
  BY <1>3, <1>4

LEMMA WishOnHall ==
  ASSUME TypeInv, NEW c \in Clients, ClientSend(c)
  PROVE  HallStep
<1> USE DEF netVars, mainVars, clientVars, authVars
<1>1. /\ UNCHANGED <<rooms, owner, out, link, pc, fresh>> /\ link[c] = "up"
      /\ script \in [Clients -> Scripts] /\ sent \in [Clients -> Nat] /\ sent[c] < Len(script[c])
  BY DEF ClientSend, TypeInv, TypeOK
<1>2. PICK m : m = script[c][sent[c] + 1]
  OBVIOUS
<1>3. sent' = [sent EXCEPT ![c] = @ + 1] /\ inq' = [inq EXCEPT ![c] = Append(@, m)]
  BY <1>1, <1>2 DEF ClientSend
<1>4. m \in Words
  <2>1. script[c] \in Scripts /\ script[c] \in Seq(Packet) /\ sent[c] \in Nat
    BY <1>1, ServerAssumption
  <2>2. sent[c] + 1 \in 1..Len(script[c])
    BY <1>1, <2>1
  <2> QED
    BY <1>2, <2>1, <2>2 DEF Words
<1>5. UNCHANGED <<Members, Waiting, Gone, Cut>> /\ c \notin Gone
  BY <1>1, SameMembers, SameLinks DEF Waiting, Gone
<1>6. Hall!Wish(c)
  BY <1>1, <1>3, <1>4, <1>5 DEF Hall!Wish
<1> QED
  BY <1>6 DEF HallStep, Hall!Next

LEMMA ClientOnHall ==
  ASSUME TypeInv, NEW c \in Clients, Client(c)
  PROVE  HallStep
<1> USE DEF netVars, mainVars, clientVars, authVars
<1>1. CASE ClientConnect(c) \/ ClientClose(c)
  <2>1. /\ UNCHANGED <<rooms, owner, out, pc, fresh, sent>>
        /\ link \in [Clients -> {"idle", "up", "fin", "rst", "shut"}]
    BY <1>1 DEF ClientConnect, ClientClose, TypeInv, TypeOK
  <2>2. UNCHANGED <<Members, Waiting>>
    BY <2>1, SameMembers DEF Waiting
  <2>3. CASE link[c] = "idle" /\ link' = [link EXCEPT ![c] = "up"] /\ inq' = inq
    <3>1. Gone' = Gone /\ Cut' = Cut
      BY <2>1, <2>3 DEF Gone, Cut
    <3> QED
      BY <2>1, <2>2, <2>3, <3>1, HallStutters
  <2>4. CASE link[c] = "up" /\ link' = [link EXCEPT ![c] = "fin"] /\ inq' = inq
    <3>1. Gone' = Gone \cup {c} /\ Cut' = Cut
      BY <2>1, <2>4 DEF Gone, Cut
    <3>2. Hall!HangUp(c)
      BY <2>1, <2>2, <2>4, <3>1 DEF Hall!HangUp
    <3> QED
      BY <3>2 DEF HallStep, Hall!Next
  <2>5. CASE link' = [link EXCEPT ![c] = "rst"] /\ inq' = [inq EXCEPT ![c] = <<>>]
    <3>1. Gone' = Gone \cup {c} /\ Cut' = Cut \cup {c}
      BY <2>1, <2>5 DEF Gone, Cut
    <3>2. Hall!Break(c)
      BY <2>1, <2>2, <2>5, <3>1 DEF Hall!Break
    <3> QED
      BY <3>2 DEF HallStep, Hall!Next
  <2> QED
    BY <1>1, <2>3, <2>4, <2>5 DEF ClientConnect, ClientClose
<1> QED
  BY <1>1, WishOnHall DEF Client

LEMMA NextOnHall ==
  ASSUME HallInv, TypeInv', TidyInv, ~Stray', ~NamedTwice, ~Stray, [Next]_vars
  PROVE  HallStep
<1>1. CASE AuthReply \/ AuthLost \/ Ended \/ UNCHANGED vars
  <2>1. UNCHANGED <<rooms, owner, link, inq, sent, out, pc, fresh>>
    BY <1>1 DEF AuthReply, AuthLost, Ended, vars, netVars, clientVars, mainVars
  <2>2. UNCHANGED <<Waiting, Gone, Cut>>
    BY <2>1, SameLinks DEF Waiting
  <2> QED
    BY <2>1, <2>2, HallStutters
<1>2. TypeInv
  BY DEF HallInv, HeldInv
<1> QED
  BY <1>1, <1>2, MainOnHall, AuthOnHall, ClientOnHall DEF Next
-----------------------------------------------------------------------------
(* A reset connection has nothing left to read. *)
LEMMA ResetStaysEmpty ==
  ASSUME TypeInv, [Next]_vars, \A c \in Clients : link[c] = "rst" => inq[c] = <<>>
  PROVE  \A c \in Clients : link'[c] = "rst" => inq'[c] = <<>>
<1> USE DEF netVars, mainVars, clientVars, authVars
<1>1. /\ link \in [Clients -> {"idle", "up", "fin", "rst", "shut"}] /\ inq \in [Clients -> Seq(Packet)]
      /\ inq' \in [Clients -> Seq(Packet)]
  BY NextTyped DEF TypeInv, TypeOK
<1>2. ASSUME NEW d \in Clients, Client(d), NEW c \in Clients, link'[c] = "rst" PROVE inq'[c] = <<>>
  <2>1. CASE ClientConnect(d)
    <3>1. link' = [link EXCEPT ![d] = "up"] /\ inq' = inq
      BY <2>1 DEF ClientConnect
    <3> QED
      BY <1>1, <1>2, <3>1
  <2>2. CASE ClientSend(d)
    <3>1. link' = link /\ link[d] = "up" /\ \E m \in Packet : inq' = [inq EXCEPT ![d] = Append(@, m)]
      BY <2>2, SendingAppends DEF ClientSend
    <3> QED
      BY <1>1, <1>2, <3>1
  <2>3. CASE ClientClose(d)
    <3>1. \/ link' = [link EXCEPT ![d] = "fin"] /\ inq' = inq
          \/ link' = [link EXCEPT ![d] = "rst"] /\ inq' = [inq EXCEPT ![d] = <<>>]
      BY <2>3 DEF ClientClose
    <3> QED
      BY <1>1, <1>2, <3>1
  <2> QED
    BY <1>2, <2>1, <2>2, <2>3 DEF Client
<1>3. ASSUME NEW c \in Clients, link'[c] = "rst", ~\E d \in Clients : Client(d) PROVE inq'[c] = <<>>
  <2>1. link[c] = "rst"
    <3>1. CASE Scan
      <4>1. PICK p \in Places : Disconnect(p) \/ Text(p) \/ Leave(p) \/ Request(p) \/ Ignore(p)
        BY <3>1 DEF Scan
      <4>2. link' = link \/ \E d : link' = [link EXCEPT ![d] = "shut"]
        BY <4>1 DEF Disconnect, Text, Leave, Request, Ignore, Close
      <4> QED
        BY <1>1, <1>3, <4>2
    <3>2. CASE ~Scan
      <4>1. link' = link
        BY <1>3, <3>2 DEF Next, Main, Select, SelectTimeout, ScanEnd, Accept, First, Add, Auth, AuthReceive,
                          AuthDeliver, AuthReply, AuthLost, Ended, vars
      <4> QED
        BY <1>3, <4>1
    <3> QED
      BY <3>1, <3>2
  <2>2. PICK n \in 0..Len(inq[c]) : Len(inq'[c]) = Len(inq[c]) - n
    <3>1. Dropped
      BY <1>3, InboxesOnlyEmptied DEF Client
    <3> QED
      BY <3>1 DEF Dropped, Drops
  <2>3. Len(inq[c]) = 0 /\ inq'[c] \in Seq(Packet)
    BY <1>1, <2>1
  <2>4. Len(inq'[c]) = 0
    <3>1. n \in 0..0 /\ Len(inq'[c]) = 0 - n
      BY <2>2, <2>3
    <3>2. n = 0
      BY <3>1
    <3>3. 0 - n = 0
      BY <3>2
    <3> QED
      BY <3>1, <3>3
  <2> QED
    BY <2>3, <2>4
<1> QED
  BY <1>2, <1>3

(* A first JOIN_ROOM names each room once. *)
LEMMA NamedOnce ==
  ASSUME HallInv, ~NamedTwice, pc = "first", NEW h \in fresh, HasData(h),
         Head(inq[owner[h]]).type = "JOIN_ROOM",
         NEW wanted \in Seq(RoomIds), wanted = Head(inq[owner[h]]).arg
  PROVE  Distinct(wanted)
<1>1. PICK c \in Clients : c = owner[h] /\ sent[c] > 0 /\ Head(inq[c]) = script[c][1]
  BY FirstIsRead DEF HallInv, HeldInv
<1>2. script[c][1].type = "JOIN_ROOM" /\ script[c][1].arg = wanted
  BY <1>1
<1>3. CASE Len(wanted) > 1
  BY <1>1, <1>2, <1>3 DEF NamedTwice, JoinedSeveral, Distinct
<1>4. CASE ~(Len(wanted) > 1)
  <2>1. PICK n \in Nat : n = Len(wanted)
    OBVIOUS
  <2>2. \A i, j \in 1..n : i = j
    BY <1>4, <2>1
  <2> QED
    BY <2>1, <2>2 DEF Distinct
<1> QED
  BY <1>3, <1>4

LEMMA SingleStays ==
  ASSUME HallInv, TidyInv, ~Stray', ~NamedTwice, Single(rooms), [Next]_vars
  PROVE  Single(rooms')
<1> USE DEF netVars, mainVars, clientVars, authVars
<1>1. TypeInv /\ OwnersInv /\ UnreadInv /\ SentInv /\ OpenInv /\ rooms \in RoomTable
  BY DEF HallInv, HeldInv, TypeInv, TypeOK, TidyInv
<1>2. CASE rooms' = rooms
  BY <1>2 DEF Single, Distinct
<1>3. ASSUME NEW r \in RoomIds, NEW h \in Sockets, Contains(rooms[r], h),
             rooms' = [rooms EXCEPT ![r] = EraseFirst(@, h)]
      PROVE  Single(rooms')
  BY <1>1, <1>3, ErasedContains
<1>4. CASE Scan
  <2>1. PICK p \in Places : Disconnect(p) \/ Text(p) \/ Leave(p) \/ Request(p) \/ Ignore(p)
    BY <1>4 DEF Scan
  <2>2. PICK h \in Sockets : h = At(p)
    BY <1>1, PlaceTyped DEF TypeInv
  <2>3. CASE Disconnect(p)
    <3>1. PICK r \in RoomIds : r = p[1]
      BY <1>1, PlaceTyped DEF TypeInv
    <3>2. Contains(rooms[r], h)
      BY <1>1, <2>2, <3>1, PlaceTyped DEF TypeInv, Contains, At
    <3>3. rooms' = [rooms EXCEPT ![r] = EraseFirst(@, h)]
      BY <2>2, <2>3, <3>1 DEF Disconnect, ChangeRooms, Removed
    <3> QED
      BY <1>3, <3>2, <3>3
  <2>4. CASE Leave(p)
    <3>1. PICK room : room = Head(Head(inq[owner[h]]).arg)
      OBVIOUS
    <3>2. Contains(rooms[room], h)
      BY <1>1, <2>2, <2>4, <3>1, LeavingElsewhere
    <3>3. rooms' = [rooms EXCEPT ![room] = EraseFirst(@, h)]
      BY <2>2, <2>4, <3>1 DEF Leave, ChangeRooms, AfterLeaving
    <3>4. CASE room \in RoomIds
      BY <1>3, <3>2, <3>3, <3>4
    <3>5. CASE room \notin RoomIds
      <4>1. rooms' = rooms
        BY <1>1, <3>3, <3>5 DEF RoomTable
      <4> QED
        BY <1>2, <4>1
    <3> QED
      BY <3>4, <3>5
  <2>5. CASE Text(p) \/ Request(p) \/ Ignore(p)
    BY <1>2, <2>5 DEF Text, Request, Ignore
  <2> QED
    BY <2>1, <2>3, <2>4, <2>5
<1>5. CASE First
  <2>1. PICK h \in fresh : FirstRequest(h) \/ JoinRoom(h) \/ FirstIgnored(h)
    BY <1>5 DEF First
  <2>2. CASE JoinRoom(h)
    <3>1. h \in Sockets /\ Open(h) /\ pc = "first" /\ owner' = owner
      BY <1>1, <1>5, FreshAbsent DEF First
    <3>2. PICK wanted \in Seq(RoomIds) : /\ wanted = Head(inq[owner[h]]).arg
                                        /\ Grows(rooms, rooms', Named(wanted), h)
      BY <1>1, <2>2, <3>1, JoinGrows
    <3>3. HasData(h) /\ Head(inq[owner[h]]).type = "JOIN_ROOM"
      BY <2>2 DEF JoinRoom
    <3>4. Distinct(wanted)
      BY <3>1, <3>2, <3>3, NamedOnce
    <3>5. Named(wanted) \in [RoomIds -> Nat] /\ \A r \in RoomIds : Named(wanted)[r] <= 1
      BY <3>4, NamedRooms
    <3> QED
      BY <1>1, <3>1, <3>2, <3>5, GrownMembers
  <2>3. CASE FirstRequest(h) \/ FirstIgnored(h)
    BY <1>2, <2>3 DEF FirstRequest, FirstIgnored
  <2> QED
    BY <2>1, <2>2, <2>3
<1>6. CASE Add
  <2>1. PICK h \in fresh : Grows(rooms, rooms', InLobby, h)
    BY <1>1, <1>6, AddGrows
  <2>2. InLobby \in [RoomIds -> Nat] /\ \A r \in RoomIds : InLobby[r] <= 1
    BY DEF InLobby
  <2>3. owner' = owner
    BY <1>6 DEF Add
  <2> QED
    BY <1>1, <2>1, <2>2, <2>3, GrownMembers
<1>7. CASE ~Scan /\ ~First /\ ~Add
  <2>1. rooms' = rooms
    BY <1>7 DEF Next, Main, Select, SelectTimeout, ScanEnd, Accept, Auth, AuthReceive, AuthDeliver,
                AuthReply, AuthLost, Client, ClientConnect, ClientSend, ClientClose, Ended, vars
  <2> QED
    BY <1>2, <2>1
<1> QED
  BY <1>4, <1>5, <1>6, <1>7

LEMMA HallInvariant == Spec => [](HallInv /\ TypeInv)
<1>1. Init => \A c \in Clients : link[c] = "rst" => inq[c] = <<>>
  BY DEF Init
<1>2. Init => Stray \/ NamedTwice \/ Single(rooms)
  <2> SUFFICES ASSUME Init PROVE Single(rooms)
    OBVIOUS
  <2>1. \A r \in RoomIds : Len(rooms[r]) = 0
    BY DEF Init
  <2> QED
    BY <2>1 DEF Single, Distinct
<1>3. HeldInv /\ SentInv /\ HeldInv' /\ SentInv' /\ HallInv /\ [Next]_vars => HallInv'
  <2> SUFFICES ASSUME HeldInv', SentInv', HallInv, [Next]_vars PROVE HallInv'
    OBVIOUS
  <2>1. TypeInv /\ (Stray \/ TidyInv)
    BY DEF HallInv, HeldInv
  <2>2. \A c \in Clients : link'[c] = "rst" => inq'[c] = <<>>
    BY <2>1, ResetStaysEmpty DEF HallInv
  <2>3. Stray' \/ NamedTwice' \/ Single(rooms')
    <3>1. (Stray => Stray') /\ (NamedTwice => NamedTwice')
      BY <2>1, BlameStays, NamedTwiceStays
    <3> QED
      BY <2>1, <3>1, SingleStays DEF HallInv
  <2> QED
    BY <2>2, <2>3 DEF HallInv
<1>4. Init /\ HeldInv /\ SentInv => HallInv
  BY <1>1, <1>2 DEF HallInv
<1>5. HeldInv => TypeInv
  BY DEF HeldInv
<1> QED
  BY <1>3, <1>4, <1>5, HeldInvariant, PTL DEF Spec

LEMMA InitOnHall == Init => Hall!Init
<1> SUFFICES ASSUME Init PROVE Hall!Init
  OBVIOUS
<1>1. \A r \in RoomIds : Len(rooms[r]) = 0
  BY DEF Init
<1>2. Members = [r \in RoomIds |-> {}]
  BY <1>1 DEF Members, Contains
<1>3. Cut = {} /\ Gone = {} /\ Waiting = {}
  BY DEF Init, Cut, Gone, Waiting
<1> QED
  BY <1>2, <1>3 DEF Init, Hall!Init

(* ImplementsHall for every number of clients, handles and rooms, every    *)
(* script and every MaxBatch: until a handle may be left behind in the     *)
(* table (Stray), or a first JOIN_ROOM names a room twice, each step of    *)
(* the server is one of the hall or changes nothing in it.  What is said   *)
(* is taken in order; who joins or leaves is announced to all the others   *)
(* in the room and a text is heard by all of them, if no connection among  *)
(* them is broken; nobody is removed unasked who has not closed            *)
(* (RunSocket; JoinRoom; BroadcastMessage; ReceiveAthSocketMessages).      *)
THEOREM ServerImplementsHall == Spec => ImplementsHall
<1>1. ASSUME HallInv, TypeInv', [Next]_vars
      PROVE  [(Stray \/ NamedTwice)' \/ Hall!Next]_(Hall!hallVars)
  <2>1. TypeInv /\ (Stray \/ TidyInv)
    BY <1>1 DEF HallInv, HeldInv
  <2>2. (Stray => Stray') /\ (NamedTwice => NamedTwice')
    BY <1>1, <2>1, BlameStays, NamedTwiceStays
  <2>3. CASE ~Stray' /\ ~NamedTwice'
    <3>1. HallStep
      BY <1>1, <2>1, <2>2, <2>3, NextOnHall
    <3> QED
      BY <3>1 DEF HallStep
  <2> QED
    BY <2>3
<1>2. Spec => Hall!Init /\ [][(Stray \/ NamedTwice)' \/ Hall!Next]_(Hall!hallVars)
  BY <1>1, InitOnHall, HallInvariant, PTL DEF Spec
<1> QED
  BY <1>2 DEF ImplementsHall
=============================================================================
