---------------------------- MODULE ChatScanProofs ----------------------------
(***************************************************************************)
(* Proofs about the main thread of the chat server for every set of        *)
(* clients and handles and every script: which connection a handle is of,  *)
(* what lies unread, which packets of a client reach its room and who can  *)
(* hold up the scan over the rooms.                                        *)
(***************************************************************************)
EXTENDS ChatStreamsProofs, WellFoundedInduction

(* h stands somewhere in the table. *)
Holds(t, h) == \E r \in RoomIds : Contains(t[r], h)

(* A connection has one handle, and none before it is accepted. *)
OwnersInv ==
  /\ \A g, h \in Sockets : Open(g) /\ owner[g] = owner[h] => g = h
  /\ \A h \in Sockets : Open(h) => link[owner[h]] # "idle" /\ owner[h] \notin In(backlog)
  /\ \A i \in 1..Len(backlog) : link[backlog[i]] # "idle"
  /\ \A i, j \in 1..Len(backlog) : backlog[i] = backlog[j] => i = j

-----------------------------------------------------------------------------
(* What the steps do to the streams and connections of the others. *)
OnlyOf(c) == \A d \in Clients : d # c => inq'[d] = inq[d] /\ link'[d] = link[d]
NoneIdle == \A c \in Clients : link[c] # "idle" => link'[c] # "idle"

LEMMA ReceiveOnlyOf ==
  ASSUME TypeInv, NEW h \in Sockets, HasData(h), Receive(h), link' = link
  PROVE  OnlyOf(owner[h])
<1> DEFINE c == owner[h]
<1>1. c \in Clients
  BY FirstOfStream
<1>2. PICK n \in 1..MaxBatch : /\ n <= Len(inq[c])
                               /\ inq' = [inq EXCEPT ![c] = SubSeq(@, n + 1, Len(@))]
  BY DEF Receive
<1>3. n \in Nat /\ inq \in [Clients -> Seq(Packet)]
  BY ServerAssumption DEF TypeInv, TypeOK
<1> QED
  BY <1>2, <1>3 DEF OnlyOf

LEMMA CloseOnlyOf ==
  ASSUME TypeInv, NEW h \in Sockets, Open(h), Close(h), inq' = [inq EXCEPT ![owner[h]] = <<>>]
  PROVE  OnlyOf(owner[h])
  BY DEF OnlyOf, Close, Open, TypeInv, TypeOK

LEMMA OwnersStay ==
  ASSUME TypeInv, OwnersInv, UNCHANGED <<owner, backlog>>, NoneIdle
  PROVE  OwnersInv'
<1>1. backlog \in Seq(Clients) /\ owner \in [Sockets -> Clients \cup {NoClient}]
  BY DEF TypeInv, TypeOK
<1>2. \A i \in 1..Len(backlog) : backlog[i] \in Clients
  BY <1>1
<1> QED
  BY <1>1, <1>2 DEF OwnersInv, NoneIdle, Open

LEMMA OwnersAfterClose ==
  ASSUME TypeInv, OwnersInv, NEW h \in Sockets, Open(h), Close(h), backlog' = backlog
  PROVE  OwnersInv'
<1>1. backlog \in Seq(Clients) /\ owner \in [Sockets -> Clients \cup {NoClient}]
      /\ link \in [Clients -> {"idle", "up", "fin", "rst", "shut"}]
  BY DEF TypeInv, TypeOK
<1>2. \A i \in 1..Len(backlog) : backlog[i] \in Clients
  BY <1>1
<1>3. /\ link' = [link EXCEPT ![owner[h]] = "shut"] /\ owner[h] \in Clients
      /\ owner' = [owner EXCEPT ![h] = NoClient]
  BY <1>1 DEF Close, Open
<1>4. \A g \in Sockets : owner'[g] # NoClient => owner'[g] = owner[g] /\ owner[g] # NoClient
  BY <1>1, <1>3
<1>5. \A c \in Clients : link[c] # "idle" => link'[c] # "idle"
  BY <1>1, <1>3
<1>6. \A f, g \in Sockets : owner'[f] # NoClient /\ owner'[f] = owner'[g] => f = g
  BY <1>4 DEF OwnersInv, Open
<1>7. \A g \in Sockets : owner'[g] # NoClient =>
        link'[owner'[g]] # "idle" /\ owner'[g] \notin In(backlog)
  BY <1>1, <1>4, <1>5 DEF OwnersInv, Open
<1>8. \A i \in 1..Len(backlog) : link'[backlog[i]] # "idle"
  BY <1>2, <1>5 DEF OwnersInv
<1> QED
  BY <1>6, <1>7, <1>8 DEF OwnersInv, Open

(* A step on the connection of one handle leaves every other one served.   *)
LEMMA OthersServed ==
  ASSUME TypeInv, OwnersInv, NEW h \in Sockets, NEW g \in Sockets, g # h, Open(h), Open(g),
         OnlyOf(owner[h]), owner'[g] = owner[g], HasData(g) \/ Lost(g)
  PROVE  HasData(g)' \/ Lost(g)'
<1>1. owner[g] # owner[h] /\ owner[g] \in Clients
  BY DEF OwnersInv, TypeInv, TypeOK, Open
<1>2. inq'[owner[g]] = inq[owner[g]] /\ link'[owner[g]] = link[owner[g]]
  BY <1>1 DEF OnlyOf
<1> QED
  BY <1>2 DEF HasData, Lost, Open

(* Places not before one that is still ahead are still ahead themselves. *)
LEMMA StillAhead ==
  ASSUME TypeOK, NEW p \in Places, NextPlace(p), NEW q \in RoomIds \X Nat, ~Before(q, p)
  PROVE  ~Before(q, cur)
<1>1. ~Before(p, cur)
  BY DEF NextPlace, Ahead
<1>2. /\ p[1] \in Int /\ p[2] \in Int /\ q[1] \in Int /\ q[2] \in Int
      /\ cur[1] \in Int /\ cur[2] \in Int
  BY PlaceTyped DEF TypeOK, RoomIds
<1> DEFINE a == p[1]
           b == p[2]
           x == q[1]
           y == q[2]
           u == cur[1]
           v == cur[2]
<1>3. /\ a \in Int /\ b \in Int /\ x \in Int /\ y \in Int /\ u \in Int /\ v \in Int
      /\ ~(a < u \/ (a = u /\ b < v)) /\ ~(x < a \/ (x = a /\ y < b))
  BY <1>1, <1>2 DEF Before
<1>4. SUFFICES ~(x < u \/ (x = u /\ y < v))
  BY DEF Before
<1> HIDE DEF a, b, x, y, u, v
<1> QED
  BY <1>3
-----------------------------------------------------------------------------
LEMMA AcceptKeepsOwners ==
  ASSUME TypeInv, OwnersInv, Accept
  PROVE  OwnersInv'
<1>1. /\ TypeOK /\ backlog # <<>> /\ backlog' = Tail(backlog) /\ link' = link
      /\ backlog \in Seq(Clients) /\ owner \in [Sockets -> Clients \cup {NoClient}]
  BY DEF Accept, TypeInv, TypeOK
<1>4. /\ \A i \in 1..Len(backlog') : i + 1 \in 1..Len(backlog) /\ backlog'[i] = backlog[i + 1]
      /\ Head(backlog) = backlog[1] /\ 1 \in 1..Len(backlog) /\ Head(backlog) \in Clients
  BY <1>1
<1>5. /\ \A i \in 1..Len(backlog') : link[backlog'[i]] # "idle" /\ backlog'[i] # Head(backlog)
      /\ \A i, j \in 1..Len(backlog') : backlog'[i] = backlog'[j] => i = j
  <2>1. ASSUME NEW i \in 1..Len(backlog')
        PROVE  link[backlog'[i]] # "idle" /\ backlog'[i] # Head(backlog)
    <3>1. i + 1 # 1 /\ i \in Int
      OBVIOUS
    <3> QED
      BY <1>1, <1>4, <3>1 DEF OwnersInv
  <2>2. ASSUME NEW i \in 1..Len(backlog'), NEW j \in 1..Len(backlog'), backlog'[i] = backlog'[j]
        PROVE  i = j
    <3>1. i + 1 = j + 1
      BY <1>1, <1>4, <2>2 DEF OwnersInv
    <3> QED
      BY <3>1
  <2> QED
    BY <2>1, <2>2
<1>6. CASE \E h \in Sockets : ~Open(h) /\ owner' = [owner EXCEPT ![h] = Head(backlog)]
  <2>1. PICK h \in Sockets : owner[h] = NoClient /\ owner' = [owner EXCEPT ![h] = Head(backlog)]
    BY <1>6 DEF Open
  <2>3. /\ owner'[h] = Head(backlog) /\ owner'[h] # NoClient
        /\ \A g \in Sockets : g # h => owner'[g] = owner[g]
    BY <1>1, <1>4, <2>1, ServerAssumption
  <2>5. \A g \in Sockets : owner[g] # Head(backlog)
    <3>1. Head(backlog) \in In(backlog)
      BY <1>4 DEF In
    <3>2. Head(backlog) # NoClient
      BY <1>4, ServerAssumption
    <3> QED
      BY <3>1, <3>2 DEF OwnersInv, Open
  <2>6. \A f, g \in Sockets : owner'[f] # NoClient /\ owner'[f] = owner'[g] => f = g
    BY <2>3, <2>5 DEF OwnersInv, Open
  <2>7. \A g \in Sockets : owner'[g] # NoClient =>
          link[owner'[g]] # "idle" /\ owner'[g] \notin In(backlog')
    <3>1. In(backlog') \subseteq In(backlog) /\ Head(backlog) \notin In(backlog')
      BY <1>4, <1>5 DEF In
    <3>2. link[Head(backlog)] # "idle"
      BY <1>4 DEF OwnersInv
    <3> QED
      BY <2>3, <3>1, <3>2 DEF OwnersInv, Open
  <2> QED
    BY <1>1, <1>5, <2>6, <2>7 DEF OwnersInv, Open, In
<1>7. CASE owner' = owner
  <2>1. In(backlog') \subseteq In(backlog)
    BY <1>4 DEF In
  <2> QED
    BY <1>1, <1>5, <1>7, <2>1 DEF OwnersInv, Open
<1> QED
  BY <1>6, <1>7 DEF Accept

LEMMA ConnectKeepsOwners ==
  ASSUME TypeInv, OwnersInv, NEW c \in Clients, ClientConnect(c)
  PROVE  OwnersInv' /\ \A h \in Sockets : owner[h] # c
<1>1. /\ link[c] = "idle" /\ link' = [link EXCEPT ![c] = "up"]
      /\ backlog' = Append(backlog, c) /\ owner' = owner
      /\ link \in [Clients -> {"idle", "up", "fin", "rst", "shut"}]
      /\ backlog \in Seq(Clients) /\ owner \in [Sockets -> Clients \cup {NoClient}]
  BY DEF ClientConnect, TypeInv, TypeOK
<1>2. \A h \in Sockets : owner[h] # c
  BY <1>1, ServerAssumption DEF OwnersInv, Open
<1>3. c \notin In(backlog)
  BY <1>1 DEF OwnersInv, In
<1>4. /\ Len(backlog') = Len(backlog) + 1 /\ backlog'[Len(backlog) + 1] = c
      /\ \A i \in 1..Len(backlog) : backlog'[i] = backlog[i] /\ backlog[i] \in Clients
      /\ Len(backlog) \in Nat
  BY <1>1
<1>5. \A i \in 1..Len(backlog') : i \in 1..Len(backlog) \/ i = Len(backlog) + 1
  BY <1>4
<1>6. NoneIdle /\ link'[c] # "idle"
  BY <1>1 DEF NoneIdle
<1>7. \A i \in 1..Len(backlog') : link'[backlog'[i]] # "idle"
  BY <1>4, <1>5, <1>6 DEF OwnersInv, NoneIdle
<1>8. ASSUME NEW i \in 1..Len(backlog'), NEW j \in 1..Len(backlog'), backlog'[i] = backlog'[j]
      PROVE  i = j
  BY <1>3, <1>4, <1>5, <1>8 DEF OwnersInv, In
<1>9. In(backlog') \subseteq In(backlog) \cup {c}
  BY <1>4, <1>5 DEF In
<1>10. \A h \in Sockets : Open(h) => link'[owner[h]] # "idle" /\ owner[h] \notin In(backlog')
  BY <1>1, <1>2, <1>6, <1>9 DEF OwnersInv, NoneIdle, Open
<1> QED
  BY <1>1, <1>2, <1>7, <1>8, <1>10 DEF OwnersInv, Open

LEMMA ClosingKeepsOwners ==
  ASSUME TypeInv, OwnersInv, NEW h \in Sockets, Close(h), backlog' = backlog
  PROVE  OwnersInv'
<1>1. CASE ~Open(h)
  <2>1. owner \in [Sockets -> Clients \cup {NoClient}] /\ owner[h] = NoClient
    BY <1>1 DEF TypeInv, TypeOK, Open
  <2>2. owner' = owner /\ link' = link
    BY <1>1, <2>1 DEF Close
  <2> QED
    BY <2>2, OwnersStay DEF NoneIdle
<1> QED
  BY <1>1, OwnersAfterClose

(* A connection has one handle at most, whatever the clients do. *)
LEMMA NextKeepsOwners ==
  ASSUME TypeInv, OwnersInv, [Next]_vars
  PROVE  OwnersInv'
<1> USE DEF netVars, mainVars, clientVars, authVars
<1>1. CASE UNCHANGED <<owner, backlog, link>>
  BY <1>1, OwnersStay DEF NoneIdle
<1>2. CASE Scan
  <2>1. PICK p \in Places : Disconnect(p) \/ Text(p) \/ Leave(p) \/ Request(p) \/ Ignore(p)
    BY <1>2 DEF Scan
  <2>2. At(p) \in Sockets /\ backlog' = backlog
    BY <1>2, PlaceTyped DEF Scan, TypeInv
  <2>3. UNCHANGED <<owner, link>> \/ Close(At(p))
    BY <2>1 DEF Disconnect, Text, Leave, Request, Ignore
  <2>4. PICK h \in Sockets : h = At(p)
    BY <2>2
  <2> QED
    BY <1>1, <2>2, <2>3, <2>4, ClosingKeepsOwners
<1>3. ASSUME NEW c \in Clients, Client(c) PROVE OwnersInv'
  <2>1. CASE ClientSend(c)
    BY <1>1, <2>1 DEF ClientSend
  <2>2. CASE ClientClose(c)
    <3>1. /\ UNCHANGED <<owner, backlog>>
          /\ link' = [link EXCEPT ![c] = "fin"] \/ link' = [link EXCEPT ![c] = "rst"]
      BY <2>2 DEF ClientClose
    <3>2. NoneIdle
      BY <3>1 DEF NoneIdle, TypeInv, TypeOK
    <3> QED
      BY <3>1, <3>2, OwnersStay
  <2> QED
    BY <1>3, <2>1, <2>2, ConnectKeepsOwners DEF Client
<1>4. CASE \/ Select \/ SelectTimeout \/ ScanEnd \/ First \/ Add
           \/ Auth \/ AuthReply \/ AuthLost \/ Ended \/ UNCHANGED vars
  <2>1. UNCHANGED <<owner, backlog, link>>
    BY <1>4 DEF Select, SelectTimeout, ScanEnd, First, Add, Auth, AuthReceive, AuthDeliver,
                AuthReply, AuthLost, Ended, vars
  <2> QED
    BY <1>1, <2>1
<1> QED
  BY <1>2, <1>3, <1>4, AcceptKeepsOwners DEF Next, Main

LEMMA OneHandleEach == Spec => [](TypeInv /\ OwnersInv)
<1>1. Init => TypeInv /\ OwnersInv
  BY InitTyped DEF Init, OwnersInv, Open
<1>2. TypeInv /\ OwnersInv /\ [Next]_vars => (TypeInv /\ OwnersInv)'
  BY NextTyped, NextKeepsOwners
<1> QED
  BY <1>1, <1>2, PTL DEF Spec
-----------------------------------------------------------------------------
SentInv == \A c \in Clients : sent[c] <= Len(script[c])

LEMMA SentFromScript == Spec => []SentInv
<1>1. Init => SentInv
  <2> SUFFICES ASSUME Init, NEW c \in Clients PROVE sent[c] <= Len(script[c])
    BY DEF SentInv
  <2>1. sent[c] = 0 /\ script[c] \in Seq(Packet)
    BY ServerAssumption DEF Init
  <2> QED
    BY <2>1
<1>2. TypeOK /\ SentInv /\ [Next]_vars => SentInv'
  <2> SUFFICES ASSUME TypeOK, SentInv, [Next]_vars PROVE SentInv'
    OBVIOUS
  <2>1. (sent' = sent /\ script' = script) \/ \E c \in Clients : ClientSend(c)
    BY DEF Next, Main, Select, SelectTimeout, Scan, ScanEnd, Accept, First, Add, Auth, AuthReceive,
           AuthDeliver, AuthReply, AuthLost, Client, ClientConnect, ClientClose, Ended, vars, clientVars
  <2>2. ASSUME NEW c \in Clients, ClientSend(c), NEW d \in Clients PROVE sent'[d] <= Len(script'[d])
    <3>1. /\ sent[c] < Len(script[c]) /\ sent' = [sent EXCEPT ![c] = @ + 1] /\ script' = script
          /\ script[c] \in Seq(Packet) /\ sent[c] \in Nat /\ sent \in [Clients -> Nat]
      BY <2>2, ServerAssumption DEF ClientSend, TypeOK
    <3>2. CASE d = c
      <4>1. Len(script[c]) \in Nat /\ sent'[d] = sent[c] + 1
        BY <3>1, <3>2
      <4> DEFINE x == Len(script[c])
      <4>2. x \in Nat /\ sent[c] < x /\ sent[c] \in Nat
        BY <3>1, <4>1
      <4> HIDE DEF x
      <4>3. sent[c] + 1 <= x
        BY <4>2
      <4> QED
        BY <3>1, <3>2, <4>1, <4>3 DEF x
    <3>3. CASE d # c
      BY <3>1, <3>3 DEF SentInv
    <3> QED
      BY <3>2, <3>3
  <2> QED
    BY <2>1, <2>2 DEF SentInv
<1> QED
  BY <1>1, <1>2, Typed, PTL DEF Spec

(* What the server has not read is the end of what the client has sent.    *)
UnreadInv ==
  \A c \in Clients : \A j \in 1..Len(inq[c]) : inq[c][j] = script[c][sent[c] - Len(inq[c]) + j]

(* The first n packets are gone. *)
Drops(c, n) == Len(inq'[c]) = Len(inq[c]) - n
               /\ \A j \in 1..Len(inq'[c]) : inq'[c][j] = inq[c][j + n]
Dropped == \A c \in Clients : \E n \in 0..Len(inq[c]) : Drops(c, n)

LEMMA NothingDropped ==
  ASSUME TypeInv, inq' = inq
  PROVE  Dropped
<1> SUFFICES ASSUME NEW c \in Clients PROVE \E n \in 0..Len(inq[c]) : Drops(c, n)
  BY DEF Dropped
<1>1. Len(inq[c]) \in Nat
  BY DEF TypeInv, TypeOK
<1> QED
  BY <1>1 DEF Drops

LEMMA AllDropped ==
  ASSUME TypeInv, NEW c \in Clients, inq' = [inq EXCEPT ![c] = <<>>]
  PROVE  Dropped
<1> SUFFICES ASSUME NEW d \in Clients PROVE \E n \in 0..Len(inq[d]) : Drops(d, n)
  BY DEF Dropped
<1>1. Len(inq[d]) \in Nat /\ inq'[d] = IF d = c THEN <<>> ELSE inq[d]
  BY DEF TypeInv, TypeOK
<1>2. d = c => Drops(d, Len(inq[d]))
  BY <1>1 DEF Drops
<1>3. d # c => Drops(d, 0)
  BY <1>1 DEF Drops
<1> QED
  BY <1>1, <1>2, <1>3

LEMMA InboxTaken ==
  ASSUME TypeInv, NEW h \in Sockets, HasData(h), Receive(h)
  PROVE  Dropped
<1>1. owner[h] \in Clients
  BY FirstOfStream
<1>2. PICK n \in 1..MaxBatch : /\ n <= Len(inq[owner[h]])
                               /\ inq' = [inq EXCEPT ![owner[h]] = SubSeq(@, n + 1, Len(@))]
  BY DEF Receive
<1>3. n \in Nat /\ inq \in [Clients -> Seq(Packet)]
  BY ServerAssumption DEF TypeInv, TypeOK
<1> SUFFICES ASSUME NEW d \in Clients PROVE \E m \in 0..Len(inq[d]) : Drops(d, m)
  BY DEF Dropped
<1>4. Len(inq[d]) \in Nat /\ inq[d] \in Seq(Packet)
  BY <1>3
<1>5. CASE d = owner[h]
  <2>1. inq'[d] = SubSeq(inq[d], n + 1, Len(inq[d])) /\ n \in 0..Len(inq[d])
    BY <1>1, <1>2, <1>3, <1>4, <1>5
  <2>2. Drops(d, n)
    BY <1>3, <1>4, <2>1 DEF Drops
  <2> QED
    BY <2>1, <2>2
<1>6. CASE d # owner[h]
  <2>1. inq'[d] = inq[d]
    BY <1>1, <1>2, <1>3, <1>6
  <2>2. Drops(d, 0)
    BY <1>4, <2>1 DEF Drops
  <2> QED
    BY <1>4, <2>2
<1> QED
  BY <1>5, <1>6

LEMMA InboxesOnlyEmptied ==
  ASSUME TypeInv, [Next]_vars
  PROVE  /\ script' = script
         /\ (sent' = sent /\ Dropped) \/ \E c \in Clients : ClientSend(c)
<1> USE DEF netVars, mainVars, clientVars, authVars
<1>1. CASE UNCHANGED <<script, sent, inq>>
  BY <1>1, NothingDropped
<1>2. CASE Scan
  <2>1. PICK p \in Places : Disconnect(p) \/ Text(p) \/ Leave(p) \/ Request(p) \/ Ignore(p)
    BY <1>2 DEF Scan
  <2>2. PICK h \in Sockets : h = At(p)
    BY PlaceTyped DEF TypeInv
  <2>3. UNCHANGED <<script, sent>>
    BY <1>2 DEF Scan
  <2>4. \/ inq' = inq
        \/ Open(h) /\ inq' = [inq EXCEPT ![owner[h]] = <<>>]
        \/ HasData(h) /\ Receive(h)
    BY <2>1, <2>2 DEF Disconnect, Text, Leave, Request, Ignore, HasData
  <2>5. Dropped
    <3>1. Open(h) => owner[h] \in Clients
      BY DEF Open, TypeInv, TypeOK
    <3>2. CASE HasData(h) /\ Receive(h)
      BY <3>2, InboxTaken
    <3> QED
      BY <2>4, <3>1, <3>2, AllDropped, NothingDropped
  <2> QED
    BY <2>3, <2>5
<1>3. CASE First
  <2>1. PICK h \in fresh : FirstRequest(h) \/ JoinRoom(h) \/ FirstIgnored(h)
    BY <1>3 DEF First
  <2>2. h \in Sockets /\ UNCHANGED <<script, sent, link>>
    BY <1>3 DEF First, TypeInv, TypeOK
  <2>3. inq' = inq \/ (HasData(h) /\ Receive(h))
    BY <2>1 DEF FirstRequest, JoinRoom, FirstIgnored
  <2> QED
    BY <2>2, <2>3, InboxTaken, NothingDropped
<1>4. ASSUME NEW c \in Clients, Client(c)
      PROVE  script' = script /\ ((sent' = sent /\ Dropped) \/ ClientSend(c))
  BY <1>4, AllDropped, NothingDropped DEF Client, ClientConnect, ClientSend, ClientClose
<1>5. CASE \/ Select \/ SelectTimeout \/ ScanEnd \/ Accept \/ Add
           \/ Auth \/ AuthReply \/ AuthLost \/ Ended \/ UNCHANGED vars
  <2>1. UNCHANGED <<script, sent, inq>>
    BY <1>5 DEF Select, SelectTimeout, ScanEnd, Accept, Add, Auth, AuthReceive, AuthDeliver,
                AuthReply, AuthLost, Ended, vars
  <2> QED
    BY <1>1, <2>1
<1> QED
  BY <1>2, <1>3, <1>4, <1>5 DEF Next, Main

(* A packet on its way to an inbox is the next one of the script. *)
LEMMA SendingAppends ==
  ASSUME TypeInv, NEW c \in Clients, ClientSend(c)
  PROVE  \E m \in Packet :
           /\ sent' = [sent EXCEPT ![c] = @ + 1] /\ script' = script
           /\ m = script[c][sent[c] + 1] /\ sent[c] + 1 \in 1..Len(script[c])
           /\ inq' = [inq EXCEPT ![c] = Append(@, m)]
           /\ In(inq'[c]) = In(inq[c]) \cup {m} /\ inq'[c] # <<>>
<1>1. /\ link[c] = "up" /\ sent[c] < Len(script[c]) /\ script' = script
      /\ sent' = [sent EXCEPT ![c] = @ + 1]
      /\ inq' = [inq EXCEPT ![c] = Append(@, script[c][sent'[c]])]
      /\ script[c] \in Seq(Packet) /\ sent \in [Clients -> Nat] /\ inq \in [Clients -> Seq(Packet)]
  BY ServerAssumption DEF ClientSend, TypeInv, TypeOK
<1>2. PICK m : m = script[c][sent[c] + 1]
  OBVIOUS
<1>3. sent[c] + 1 \in 1..Len(script[c])
  BY <1>1
<1>4. m \in Packet /\ inq' = [inq EXCEPT ![c] = Append(@, m)]
  BY <1>1, <1>2, <1>3
<1>5. inq[c] \in Seq(Packet) /\ inq'[c] = Append(inq[c], m)
  BY <1>1, <1>4
<1>6. In(inq'[c]) = In(inq[c]) \cup {m} /\ inq'[c] # <<>>
  BY <1>4, <1>5, InOfSequences
<1> QED
  BY <1>1, <1>2, <1>3, <1>4, <1>6

(* A socket that has something to read, or is lost, stays so whatever the  *)
(* clients do.                                                             *)
LEMMA ClientKeepsServed ==
  ASSUME TypeInv, OwnersInv, NEW c \in Clients, Client(c), NEW h \in Sockets, HasData(h) \/ Lost(h)
  PROVE  HasData(h)' \/ Lost(h)'
<1>1. /\ link \in [Clients -> {"idle", "up", "fin", "rst", "shut"}]
      /\ inq \in [Clients -> Seq(Packet)] /\ owner \in [Sockets -> Clients \cup {NoClient}]
      /\ owner' = owner
  BY DEF TypeInv, TypeOK, Client, ClientConnect, ClientSend, ClientClose
<1>2. CASE ClientConnect(c)
  <2>1. inq' = inq /\ owner[h] # c /\ link' = [link EXCEPT ![c] = "up"]
    BY <1>2, ConnectKeepsOwners DEF ClientConnect
  <2> QED
    BY <1>1, <2>1 DEF HasData, Lost, Open
<1>3. CASE ClientSend(c)
  <2>1. PICK m \in Packet : inq' = [inq EXCEPT ![c] = Append(@, m)] /\ inq'[c] # <<>>
    BY <1>3, SendingAppends
  <2>2. link' = link /\ link[c] = "up"
    BY <1>3 DEF ClientSend
  <2> QED
    BY <1>1, <2>1, <2>2 DEF HasData, Lost, Open
<1>4. CASE ClientClose(c)
  <2>1. \/ link[c] = "up" /\ link' = [link EXCEPT ![c] = "fin"] /\ inq' = inq
        \/ link' = [link EXCEPT ![c] = "rst"] /\ inq' = [inq EXCEPT ![c] = <<>>]
    BY <1>4 DEF ClientClose
  <2> QED
    BY <1>1, <2>1 DEF HasData, Lost, Open
<1> QED
  BY <1>2, <1>3, <1>4 DEF Client

LEMMA NextKeepsUnread ==
  ASSUME TypeInv, UnreadInv, [Next]_vars
  PROVE  UnreadInv'
<1>1. sent \in [Clients -> Nat] /\ inq \in [Clients -> Seq(Packet)]
  BY DEF TypeInv, TypeOK
<1>2. CASE sent' = sent /\ script' = script /\ Dropped
  <2> SUFFICES ASSUME NEW c \in Clients, NEW j \in 1..Len(inq'[c])
               PROVE  inq'[c][j] = script[c][sent[c] - Len(inq'[c]) + j]
    BY <1>2 DEF UnreadInv
  <2>1. PICK n \in 0..Len(inq[c]) : /\ Len(inq'[c]) = Len(inq[c]) - n
                                    /\ inq'[c][j] = inq[c][j + n]
    BY <1>2 DEF Dropped, Drops
  <2>2. sent[c] \in Nat /\ Len(inq[c]) \in Nat /\ n \in Nat
    BY <1>1
  <2>3. j + n \in 1..Len(inq[c]) /\ sent[c] - Len(inq[c]) + (j + n) = sent[c] - Len(inq'[c]) + j
    BY <2>1, <2>2
  <2>4. inq[c][j + n] = script[c][sent[c] - Len(inq[c]) + (j + n)]
    BY <2>3 DEF UnreadInv
  <2> QED
    BY <2>1, <2>3, <2>4
<1>3. ASSUME NEW c \in Clients, ClientSend(c) PROVE UnreadInv'
  <2>1. PICK m \in Packet :
          /\ sent' = [sent EXCEPT ![c] = @ + 1] /\ script' = script
          /\ m = script[c][sent[c] + 1] /\ inq' = [inq EXCEPT ![c] = Append(@, m)]
    BY <1>3, SendingAppends
  <2> SUFFICES ASSUME NEW d \in Clients, NEW j \in 1..Len(inq'[d])
               PROVE  inq'[d][j] = script[d][sent'[d] - Len(inq'[d]) + j]
    BY <2>1 DEF UnreadInv
  <2>2. CASE d # c
    <3>1. inq'[d] = inq[d] /\ sent'[d] = sent[d]
      BY <1>1, <2>1, <2>2
    <3> QED
      BY <3>1 DEF UnreadInv
  <2>3. CASE d = c
    <3>1. /\ sent'[c] = sent[c] + 1 /\ sent[c] \in Nat /\ Len(inq[c]) \in Nat
          /\ inq'[c] = Append(inq[c], m) /\ Len(inq'[c]) = Len(inq[c]) + 1
      BY <1>1, <2>1
    <3>2. sent'[c] - Len(inq'[c]) + j = sent[c] - Len(inq[c]) + j
      BY <2>3, <3>1
    <3>3. CASE j = Len(inq[c]) + 1
      <4>1. inq'[c][j] = m /\ sent[c] - Len(inq[c]) + j = sent[c] + 1
        BY <1>1, <3>1, <3>3
      <4> QED
        BY <2>1, <2>3, <3>2, <4>1
    <3>4. CASE j # Len(inq[c]) + 1
      <4>1. j \in 1..Len(inq[c]) /\ inq'[c][j] = inq[c][j]
        BY <1>1, <2>3, <3>1, <3>4
      <4> QED
        BY <2>3, <3>2, <4>1 DEF UnreadInv
    <3> QED
      BY <3>3, <3>4
  <2> QED
    BY <2>2, <2>3
<1> QED
  BY <1>2, <1>3, InboxesOnlyEmptied

LEMMA UnreadInvariant == Spec => []UnreadInv
<1>1. Init => UnreadInv
  BY DEF Init, UnreadInv
<1> QED
  BY <1>1, NextKeepsUnread, OneHandleEach, PTL DEF Spec
-----------------------------------------------------------------------------
(* The first packets. *)

(* The server has read nothing of c. *)
Unserved(c) == \A h \in Sockets : owner[h] = c => pc = "first" /\ h \in fresh
FirstInv ==
  \A c \in Clients : Unserved(c) =>
    /\ inq[c] # <<>> => Head(inq[c]) = script[c][1]
    /\ inq[c] = <<>> /\ link[c] \in {"idle", "up"} => sent[c] = 0

LEMMA FirstStays ==
  ASSUME FirstInv, script' = script,
         \A c \in Clients : Unserved(c)' =>
           \/ /\ Unserved(c) /\ inq'[c] = inq[c] /\ sent'[c] = sent[c]
              /\ link'[c] \in {"idle", "up"} => link[c] \in {"idle", "up"}
           \/ inq'[c] = <<>> /\ link'[c] \notin {"idle", "up"}
  PROVE  FirstInv'
  BY DEF FirstInv

(* Outside the first recv() whoever has a handle has been served. *)
LEMMA ServedBehindHandles ==
  ASSUME pc' # "first", NEW c \in Clients, Unserved(c)'
  PROVE  /\ \A h \in Sockets : owner'[h] # c
         /\ owner' = owner => Unserved(c)
  BY DEF Unserved

(* Reading from one connection, or closing it. *)
LEMMA ReadingKeepsFirst ==
  ASSUME TypeInv, FirstInv, pc' # "first", NEW h \in Sockets, UNCHANGED <<script, sent>>,
         \/ HasData(h) /\ Receive(h) /\ UNCHANGED <<owner, link>>
         \/ Open(h) /\ Close(h) /\ inq' = [inq EXCEPT ![owner[h]] = <<>>]
         \/ UNCHANGED <<owner, link, inq>>
  PROVE  FirstInv'
<1>1. /\ owner \in [Sockets -> Clients \cup {NoClient}] /\ inq \in [Clients -> Seq(Packet)]
      /\ link \in [Clients -> {"idle", "up", "fin", "rst", "shut"}]
  BY DEF TypeInv, TypeOK
<1>2. CASE HasData(h) /\ Receive(h) /\ UNCHANGED <<owner, link>>
  <2>1. OnlyOf(owner[h])
    BY <1>2, ReceiveOnlyOf
  <2>2. ASSUME NEW d \in Clients, Unserved(d)' PROVE Unserved(d) /\ inq'[d] = inq[d]
    <3>1. d # owner[h] /\ Unserved(d)
      BY <1>2, <2>2, ServedBehindHandles
    <3> QED
      BY <2>1, <3>1 DEF OnlyOf
  <2> QED
    BY <1>2, <2>2, FirstStays
<1>3. CASE Open(h) /\ Close(h) /\ inq' = [inq EXCEPT ![owner[h]] = <<>>]
  <2>1. /\ owner[h] \in Clients /\ owner' = [owner EXCEPT ![h] = NoClient]
        /\ link' = [link EXCEPT ![owner[h]] = "shut"]
    BY <1>1, <1>3 DEF Close, Open
  <2>2. ASSUME NEW d \in Clients, Unserved(d)', d # owner[h]
        PROVE  Unserved(d) /\ inq'[d] = inq[d] /\ link'[d] = link[d]
    <3>1. \A g \in Sockets : owner'[g] # d
      BY <2>2, ServedBehindHandles
    <3>2. \A g \in Sockets : owner[g] # d
      BY <1>1, <2>1, <2>2, <3>1
    <3> QED
      BY <1>1, <1>3, <2>1, <2>2, <3>2 DEF Unserved
  <2>3. inq'[owner[h]] = <<>> /\ link'[owner[h]] = "shut"
    BY <1>1, <1>3, <2>1
  <2> QED
    BY <2>2, <2>3, FirstStays
<1>4. CASE UNCHANGED <<owner, link, inq>>
  BY <1>4, ServedBehindHandles, FirstStays
<1> QED
  BY <1>2, <1>3, <1>4

LEMMA AcceptKeepsFirst ==
  ASSUME TypeInv, OwnersInv, FirstInv, Accept
  PROVE  FirstInv'
<1> USE DEF netVars, mainVars, clientVars, authVars
<1>1. /\ backlog # <<>> /\ backlog \in Seq(Clients)
      /\ UNCHANGED <<script, inq, sent, link>>
      /\ owner \in [Sockets -> Clients \cup {NoClient}]
  BY DEF Accept, TypeInv, TypeOK
<1>2. CASE owner' = owner /\ pc' = "select"
  BY <1>1, <1>2, ServedBehindHandles, FirstStays
<1>3. CASE \E h \in Sockets : /\ ~Open(h) /\ owner' = [owner EXCEPT ![h] = Head(backlog)]
                              /\ fresh' = {h} /\ pc' = "first"
  <2>1. PICK h \in Sockets : /\ ~Open(h) /\ owner' = [owner EXCEPT ![h] = Head(backlog)]
                            /\ fresh' = {h} /\ pc' = "first"
    BY <1>3
  <2>2. Head(backlog) \in Clients /\ Head(backlog) \in In(backlog)
    BY <1>1, InOfSequences
  <2>3. ASSUME NEW g \in Sockets PROVE owner[g] # Head(backlog)
    <3>1. Open(g) => owner[g] \notin In(backlog)
      BY DEF OwnersInv
    <3>2. ~Open(g) => owner[g] \notin Clients
      BY ServerAssumption DEF Open
    <3> QED
      BY <2>2, <3>1, <3>2
  <2>4. ASSUME NEW d \in Clients, Unserved(d)' PROVE Unserved(d)
    <3>1. CASE d = Head(backlog)
      BY <2>3, <3>1 DEF Unserved
    <3>2. CASE d # Head(backlog)
      <4>1. ASSUME NEW g \in Sockets, owner[g] = d PROVE FALSE
        <5>1. g # h /\ owner'[g] = d
          BY <1>1, <2>1, <4>1, ServerAssumption DEF Open
        <5> QED
          BY <2>1, <2>4, <5>1 DEF Unserved
      <4> QED
        BY <4>1 DEF Unserved
    <3> QED
      BY <3>1, <3>2
  <2> QED
    BY <1>1, <2>4, FirstStays
<1> QED
  BY <1>2, <1>3 DEF Accept

LEMMA HeadAppended ==
  ASSUME NEW S, NEW s \in Seq(S), NEW x \in S
  PROVE  /\ Append(s, x) # <<>>
         /\ s # <<>> => Head(Append(s, x)) = Head(s)
         /\ s = <<>> => Head(Append(s, x)) = x
<1>1. /\ Append(s, x) \in Seq(S) /\ Len(Append(s, x)) = Len(s) + 1 /\ Len(s) \in Nat
      /\ \A i \in 1..Len(s) : Append(s, x)[i] = s[i]
      /\ Append(s, x)[Len(s) + 1] = x
  OBVIOUS
<1>2. Append(s, x) # <<>> /\ Head(Append(s, x)) = Append(s, x)[1]
  BY <1>1
<1>3. ASSUME s # <<>> PROVE Head(Append(s, x)) = Head(s)
  <2>1. 1 \in 1..Len(s) /\ Head(s) = s[1]
    BY <1>3
  <2> QED
    BY <1>1, <1>2, <2>1
<1>4. ASSUME s = <<>> PROVE Head(Append(s, x)) = x
  <2>1. Len(s) = 0
    BY <1>4
  <2> QED
    BY <1>1, <1>2, <2>1
<1> QED
  BY <1>2, <1>3, <1>4

LEMMA ClientKeepsFirst ==
  ASSUME TypeInv, FirstInv, NEW c \in Clients, Client(c)
  PROVE  FirstInv'
<1> USE DEF netVars, mainVars, clientVars, authVars
<1>1. /\ UNCHANGED <<rooms, owner, pc, fresh, script>>
      /\ link \in [Clients -> {"idle", "up", "fin", "rst", "shut"}]
      /\ inq \in [Clients -> Seq(Packet)] /\ sent \in [Clients -> Nat]
      /\ script \in [Clients -> Scripts]
  BY DEF TypeInv, TypeOK, Client, ClientConnect, ClientSend, ClientClose
<1>3. \A d \in Clients : Unserved(d)' = Unserved(d)
  BY <1>1 DEF Unserved
<1>4. CASE ClientConnect(c)
  <2>1. UNCHANGED <<inq, sent>> /\ link[c] = "idle" /\ link' = [link EXCEPT ![c] = "up"]
    BY <1>4 DEF ClientConnect
  <2>2. FirstInv'
    BY <1>1, <1>3, <2>1, FirstStays
  <2> QED
    BY <2>2
<1>5. CASE ClientSend(c)
  <2>1. PICK m : m = script[c][sent[c] + 1]
    OBVIOUS
  <2>2. /\ link[c] = "up" /\ sent[c] < Len(script[c]) /\ link' = link
        /\ sent' = [sent EXCEPT ![c] = @ + 1] /\ inq' = [inq EXCEPT ![c] = Append(@, m)]
    BY <1>1, <1>5, <2>1 DEF ClientSend
  <2>3. m \in Packet
    <3>1. script[c] \in Seq(Packet) /\ sent[c] \in Nat
      BY <1>1, ServerAssumption
    <3>2. sent[c] + 1 \in 1..Len(script[c])
      BY <2>2, <3>1
    <3> QED
      BY <2>1, <3>1, <3>2
  <2>4. inq[c] \in Seq(Packet) /\ inq'[c] = Append(inq[c], m)
    BY <1>1, <2>2
  <2>5. /\ inq'[c] # <<>>
        /\ inq[c] # <<>> => Head(inq'[c]) = Head(inq[c])
        /\ inq[c] = <<>> => Head(inq'[c]) = m
    <3>1. /\ Append(inq[c], m) # <<>>
          /\ inq[c] # <<>> => Head(Append(inq[c], m)) = Head(inq[c])
          /\ inq[c] = <<>> => Head(Append(inq[c], m)) = m
      BY <2>3, <2>4, HeadAppended, Zenon
    <3> QED
      BY <2>4, <3>1, Zenon
  <2>6. ASSUME NEW d \in Clients, Unserved(d)
        PROVE  /\ inq'[d] # <<>> => Head(inq'[d]) = script[d][1]
               /\ inq'[d] = <<>> /\ link[d] \in {"idle", "up"} => sent'[d] = 0
    <3>1. CASE d = c
      <4>1. inq[c] = <<>> => sent[c] = 0 /\ m = script[c][1]
        BY <1>1, <2>1, <2>2, <2>6, <3>1 DEF FirstInv
      <4> QED
        BY <1>1, <2>5, <2>6, <3>1, <4>1 DEF FirstInv
    <3>2. CASE d # c
      BY <1>1, <2>2, <2>6, <3>2 DEF FirstInv
    <3> QED
      BY <3>1, <3>2
  <2>7. FirstInv'
    BY <1>1, <1>3, <2>2, <2>6 DEF FirstInv
  <2> QED
    BY <2>7
<1>6. CASE ClientClose(c)
  <2>1. /\ sent' = sent
        /\ \/ link[c] = "up" /\ link' = [link EXCEPT ![c] = "fin"] /\ inq' = inq
           \/ link' = [link EXCEPT ![c] = "rst"] /\ inq' = [inq EXCEPT ![c] = <<>>]
    BY <1>6 DEF ClientClose
  <2>2. \A d \in Clients :
          \/ /\ inq'[d] = inq[d] /\ (link'[d] \in {"idle", "up"} => link[d] \in {"idle", "up"})
          \/ inq'[d] = <<>> /\ link'[d] \notin {"idle", "up"}
    BY <1>1, <2>1
  <2>3. FirstInv'
    BY <1>1, <1>3, <2>1, <2>2, FirstStays
  <2> QED
    BY <2>3
<1> QED
  BY <1>4, <1>5, <1>6 DEF Client

LEMMA NextKeepsFirst ==
  ASSUME TypeInv, OwnersInv, FirstInv, [Next]_vars
  PROVE  FirstInv'
<1> USE DEF netVars, mainVars, clientVars, authVars
<1>1. CASE Auth \/ AuthReply \/ AuthLost \/ Ended \/ UNCHANGED vars
  <2>1. UNCHANGED <<owner, pc, fresh, script, inq, sent, link>>
    BY <1>1 DEF Auth, AuthReceive, AuthDeliver, AuthReply, AuthLost, Ended, vars
  <2> QED
    BY <2>1, FirstStays DEF Unserved
<1>2. CASE Select \/ ScanEnd \/ Add \/ SelectTimeout
  <2>1. pc' # "first" /\ UNCHANGED <<owner, script, inq, sent, link>>
    BY <1>2 DEF Select, ScanEnd, Add, SelectTimeout, vars
  <2> QED
    BY <2>1, ServedBehindHandles, FirstStays
<1>3. CASE Scan
  <2>1. PICK p \in Places : Disconnect(p) \/ Text(p) \/ Leave(p) \/ Request(p) \/ Ignore(p)
    BY <1>3 DEF Scan
  <2>2. PICK h \in Sockets : h = At(p)
    BY PlaceTyped DEF TypeInv
  <2>3. pc' # "first" /\ UNCHANGED <<script, sent>>
    BY <1>3 DEF Scan
  <2>4. \/ HasData(h) /\ Receive(h) /\ UNCHANGED <<owner, link>>
        \/ Open(h) /\ Close(h) /\ inq' = [inq EXCEPT ![owner[h]] = <<>>]
        \/ UNCHANGED <<owner, link, inq>>
    <3>1. CASE Text(p) \/ Request(p) \/ Ignore(p)
      BY <2>2, <3>1 DEF Text, Request, Ignore
    <3>2. CASE Leave(p)
      BY <2>2, <3>2 DEF Leave, HasData
    <3>3. CASE Disconnect(p)
      <4>1. owner \in [Sockets -> Clients \cup {NoClient}]
        BY DEF TypeInv, TypeOK
      <4> QED
        BY <2>2, <3>3, <4>1 DEF Disconnect, Close, Open
    <3> QED
      BY <2>1, <3>1, <3>2, <3>3
  <2> QED
    BY <2>3, <2>4, ReadingKeepsFirst
<1>4. CASE First
  <2>1. PICK h \in fresh : FirstRequest(h) \/ JoinRoom(h) \/ FirstIgnored(h)
    BY <1>4 DEF First
  <2>2. h \in Sockets /\ pc' # "first" /\ UNCHANGED <<owner, script, sent, link>>
    BY <1>4, <2>1 DEF First, TypeInv, TypeOK, FirstRequest, JoinRoom, FirstIgnored
  <2>3. inq' = inq \/ (HasData(h) /\ Receive(h))
    BY <2>1 DEF FirstRequest, JoinRoom, FirstIgnored
  <2> QED
    BY <2>2, <2>3, ReadingKeepsFirst
<1> QED
  BY <1>1, <1>2, <1>3, <1>4, AcceptKeepsFirst, ClientKeepsFirst DEF Next, Main

(* What accept() is followed by reads the first packet of the script. *)
LEMMA FirstIsRead ==
  ASSUME TypeInv, OwnersInv, UnreadInv, SentInv, FirstInv, pc = "first", NEW h \in fresh, HasData(h)
  PROVE  \E c \in Clients : /\ c = owner[h] /\ sent[c] > 0 /\ script[c] \in Scripts
                           /\ Head(inq[c]) = script[c][1]
<1>1. Open(h) /\ h \in Sockets
  BY DEF TypeInv, TypeOK, HasData
<1>2. owner[h] \in Clients /\ inq[owner[h]] # <<>> /\ script \in [Clients -> Scripts]
  BY <1>1, FirstOfStream DEF HasData, TypeInv, TypeOK
<1>3. Unserved(owner[h])
  BY <1>1 DEF Unserved, OwnersInv, Open
<1>4. Head(inq[owner[h]]) = script[owner[h]][1]
  BY <1>2, <1>3 DEF FirstInv
<1>5. sent[owner[h]] > 0
  <2>1. inq[owner[h]] \in Seq(Packet) /\ sent[owner[h]] \in Nat /\ Len(inq[owner[h]]) <= sent[owner[h]]
    BY <1>2 DEF TypeInv, TypeOK, UnreadWasSent
  <2>2. PICK k, l : k = Len(inq[owner[h]]) /\ l = sent[owner[h]]
    OBVIOUS
  <2>3. k \in Nat /\ k # 0 /\ l \in Nat /\ k <= l
    BY <1>2, <2>1, <2>2
  <2> QED
    BY <2>2, <2>3
<1> QED
  BY <1>2, <1>4, <1>5
-----------------------------------------------------------------------------
LEMMA BlameStays ==
  ASSUME TypeInv, [Next]_vars
  PROVE  /\ \A c \in Clients : JoinedSeveral(c) => JoinedSeveral(c)'
         /\ \A c \in Clients : LeftElsewhere(c) => LeftElsewhere(c)'
         /\ Stray => Stray'
<1>1. script' = script
  BY InboxesOnlyEmptied
<1>2. \A c \in Clients : \A i \in 1..sent[c] : i \in 1..sent'[c]
  <2>1. sent' = sent \/ \E c \in Clients : sent' = [sent EXCEPT ![c] = @ + 1]
    BY InboxesOnlyEmptied, SendingAppends
  <2>2. sent \in [Clients -> Nat]
    BY DEF TypeInv, TypeOK
  <2>3. ASSUME NEW c \in Clients PROVE sent'[c] = sent[c] \/ sent'[c] = sent[c] + 1
    BY <2>1, <2>2
  <2>4. ASSUME NEW c \in Clients, NEW i \in 1..sent[c] PROVE i \in 1..sent'[c]
    <3>1. sent[c] \in Nat
      BY <2>2
    <3> QED
      BY <2>3, <3>1
  <2> QED
    BY <2>4
<1>3. ASSUME NEW c \in Clients, JoinedSeveral(c) PROVE JoinedSeveral(c)'
  <2>1. sent[c] \in Nat
    BY DEF TypeInv, TypeOK
  <2>2. 1 \in 1..sent[c]
    BY <1>3, <2>1 DEF JoinedSeveral
  <2>3. 1 \in 1..sent'[c]
    BY <1>2, <2>2
  <2>4. sent'[c] \in Nat
    <3>1. sent' = sent \/ \E d \in Clients : sent' = [sent EXCEPT ![d] = @ + 1]
      BY InboxesOnlyEmptied, SendingAppends
    <3>2. sent \in [Clients -> Nat]
      BY DEF TypeInv, TypeOK
    <3> QED
      BY <3>1, <3>2
  <2>5. sent'[c] > 0
    BY <2>3, <2>4
  <2> QED
    BY <1>1, <1>3, <2>5 DEF JoinedSeveral
<1>4. \A c \in Clients : LeftElsewhere(c) => LeftElsewhere(c)'
  BY <1>1, <1>2 DEF LeftElsewhere
<1>5. \A c \in Clients : link[c] = "shut" => link'[c] = "shut"
  BY StepEffects DEF Effects, LinksStay
<1> QED
  BY <1>3, <1>4, <1>5 DEF Stray
-----------------------------------------------------------------------------
LEMMA LeastOf ==
  ASSUME NEW T \in SUBSET Nat, T # {}
  PROVE  \E x \in T : \A y \in T : x <= y
<1> DEFINE R == OpToRel(<, Nat)
<1>1. IsWellFoundedOn(R, Nat)
  BY NatLessThanWellFounded
<1>2. \A x, y \in Nat : <<x, y>> \in R <=> x < y
  BY DEF OpToRel
<1> HIDE DEF R
<1>3. PICK x \in T : \A y \in T : ~(<<y, x>> \in R)
  BY <1>1, WFMin
<1>4. \A y \in T : ~(y < x) /\ x \in Nat /\ y \in Nat
  BY <1>2, <1>3
<1>5. \A y \in T : x <= y
  BY <1>4
<1> QED
  BY <1>5

(* The places of a table from which an entry has been erased are those it  *)
(* had before, the erased one excepted.                                    *)
OldIndex(r, k, q, j) == IF q = r /\ ~(j < k) THEN j + 1 ELSE j
MovedUp(t, t2, r, k) ==
  \A q \in RoomIds : \A j \in 1..Len(t2[q]) :
    /\ j \in Nat /\ OldIndex(r, k, q, j) \in 1..Len(t[q])
    /\ t2[q][j] = t[q][OldIndex(r, k, q, j)]
    /\ ~(q = r /\ OldIndex(r, k, q, j) = k)
Keeps(t, t2, r, k) ==
  \A q \in RoomIds : \A i \in 1..Len(t[q]) :
    ~(q = r /\ i = k) => \E j \in 1..Len(t2[q]) : t2[q][j] = t[q][i]

LEMMA ErasedPlaces ==
  ASSUME NEW t \in RoomTable, NEW r \in RoomIds, NEW s, Contains(t[r], s),
         NEW t2, t2 = [t EXCEPT ![r] = EraseFirst(@, s)]
  PROVE  \E k \in 1..Len(t[r]) : t[r][k] = s /\ MovedUp(t, t2, r, k) /\ Keeps(t, t2, r, k)
<1> DEFINE k == CHOOSE n \in 1..Len(t[r]) : t[r][n] = s /\ \A m \in 1..(n - 1) : t[r][m] # s
           found == {n \in 1..Len(t[r]) : t[r][n] = s}
<1>1. t \in [RoomIds -> Seq(Sockets)] /\ Len(t[r]) \in Nat
  BY DEF RoomTable
<1>2. PICK n \in found : \A m \in found : n <= m
  <2>1. found \in SUBSET Nat /\ found # {}
    BY <1>1 DEF Contains
  <2> HIDE DEF found
  <2> QED
    BY <2>1, LeastOf
<1>3. \A m \in 1..(n - 1) : t[r][m] # s
  <2> SUFFICES ASSUME NEW m \in 1..(n - 1), t[r][m] = s PROVE FALSE
    OBVIOUS
  <2>1. m \in 1..Len(t[r]) /\ m < n
    BY <1>1
  <2>2. m \in found
    BY <2>1
  <2>3. n <= m /\ n \in Nat /\ m \in Nat
    BY <1>1, <1>2, <2>1, <2>2
  <2> HIDE DEF found
  <2> QED
    BY <2>1, <2>3
<1>4. k \in 1..Len(t[r]) /\ t[r][k] = s
  BY <1>2, <1>3
<1>5. t2[r] = [j \in 1..(Len(t[r]) - 1) |-> IF j < k THEN t[r][j] ELSE t[r][j + 1]]
  BY <1>1 DEF EraseFirst
<1> HIDE DEF k, found
<1>6. Len(t[r]) - 1 \in Nat /\ Len(t2[r]) = Len(t[r]) - 1
  BY <1>1, <1>4, <1>5
<1>7. \A q \in RoomIds : q # r => t2[q] = t[q] /\ Len(t[q]) \in Nat
  BY <1>1
<1>8. ASSUME NEW q \in RoomIds, NEW j \in 1..Len(t2[q])
      PROVE  /\ j \in Nat /\ OldIndex(r, k, q, j) \in 1..Len(t[q])
             /\ t2[q][j] = t[q][OldIndex(r, k, q, j)]
             /\ ~(q = r /\ OldIndex(r, k, q, j) = k)
  <2>1. CASE q = r
    <3>1. j \in 1..(Len(t[r]) - 1) /\ j \in Nat /\ k \in Nat
      BY <1>4, <1>6, <2>1
    <3>2. OldIndex(r, k, r, j) \in 1..Len(t[r]) /\ OldIndex(r, k, r, j) # k
      BY <1>1, <3>1 DEF OldIndex
    <3>3. t2[r][j] = t[r][OldIndex(r, k, r, j)]
      BY <1>5, <3>1 DEF OldIndex
    <3> QED
      BY <2>1, <3>1, <3>2, <3>3
  <2>2. CASE q # r
    BY <1>7, <2>2 DEF OldIndex
  <2> QED
    BY <2>1, <2>2
<1>9. ASSUME NEW q \in RoomIds, NEW i \in 1..Len(t[q]), ~(q = r /\ i = k)
      PROVE  \E j \in 1..Len(t2[q]) : t2[q][j] = t[q][i]
  <2>1. CASE q # r
    BY <1>7, <2>1
  <2>2. CASE q = r /\ i < k
    <3>1. i \in 1..(Len(t[r]) - 1)
      BY <1>1, <1>4, <2>2
    <3> QED
      BY <1>5, <1>6, <2>2, <3>1
  <2>3. CASE q = r /\ ~(i < k)
    <3>1. i - 1 \in 1..(Len(t[r]) - 1) /\ ~(i - 1 < k) /\ (i - 1) + 1 = i
      BY <1>1, <1>4, <1>9, <2>3
    <3> QED
      BY <1>5, <1>6, <2>3, <3>1
  <2> QED
    BY <2>1, <2>2, <2>3
<1> QED
  BY <1>4, <1>8, <1>9 DEF MovedUp, Keeps

LEMMA MovedWithin ==
  ASSUME NEW t, NEW t2, NEW r, NEW k, MovedUp(t, t2, r, k)
  PROVE  \A x \in RoomIds, g \in Sockets : Contains(t2[x], g) => Contains(t[x], g)
<1> SUFFICES ASSUME NEW x \in RoomIds, NEW g \in Sockets, Contains(t2[x], g) PROVE Contains(t[x], g)
  OBVIOUS
<1>1. PICK j \in 1..Len(t2[x]) : t2[x][j] = g
  BY DEF Contains
<1>2. PICK a : a = OldIndex(r, k, x, j)
  OBVIOUS
<1>3. a \in 1..Len(t[x]) /\ t[x][a] = g
  BY <1>1, <1>2 DEF MovedUp
<1> QED
  BY <1>3 DEF Contains

(* Only the handles in S stand at more than one place. *)
Once(t, S) ==
  \A r, q \in RoomIds : \A i \in 1..Len(t[r]), j \in 1..Len(t[q]) :
    t[r][i] = t[q][j] => (r = q /\ i = j) \/ t[r][i] \in S

LEMMA OnceFor ==
  ASSUME NEW t, NEW S, NEW S2, Once(t, S), t \in RoomTable,
         \A h \in Sockets : Holds(t, h) /\ h \in S => h \in S2
  PROVE  Once(t, S2)
<1> SUFFICES ASSUME NEW r \in RoomIds, NEW q \in RoomIds,
                    NEW i \in 1..Len(t[r]), NEW j \in 1..Len(t[q]), t[r][i] = t[q][j]
             PROVE  (r = q /\ i = j) \/ t[r][i] \in S2
  BY DEF Once
<1>1. t[r][i] \in Sockets /\ Holds(t, t[r][i])
  BY DEF RoomTable, Holds, Contains
<1> QED
  BY <1>1 DEF Once

LEMMA ErasedOnce ==
  ASSUME NEW t \in RoomTable, NEW S, Once(t, S), NEW r \in RoomIds, NEW k \in 1..Len(t[r]),
         NEW t2, MovedUp(t, t2, r, k)
  PROVE  /\ Once(t2, S)
         /\ \A h \in Sockets : Holds(t2, h) => Holds(t, h) /\ (h = t[r][k] => h \in S)
<1>1. k \in Nat
  BY DEF RoomTable
<1>2. Once(t2, S)
  <2> SUFFICES ASSUME NEW q \in RoomIds, NEW x \in RoomIds,
                      NEW j \in 1..Len(t2[q]), NEW n \in 1..Len(t2[x]), t2[q][j] = t2[x][n]
               PROVE  (q = x /\ j = n) \/ t2[q][j] \in S
    BY DEF Once
  <2>1. PICK a, b : a = OldIndex(r, k, q, j) /\ b = OldIndex(r, k, x, n)
    OBVIOUS
  <2>2. /\ a \in 1..Len(t[q]) /\ t2[q][j] = t[q][a] /\ b \in 1..Len(t[x]) /\ t2[x][n] = t[x][b]
        /\ j \in Nat /\ n \in Nat
    BY <2>1 DEF MovedUp
  <2>3. (q = x /\ a = b) \/ t2[q][j] \in S
    BY <2>2 DEF Once
  <2>4. q = x /\ a = b => j = n
    BY <1>1, <2>1, <2>2 DEF OldIndex
  <2> QED
    BY <2>3, <2>4
<1>3. ASSUME NEW h \in Sockets, Holds(t2, h) PROVE Holds(t, h) /\ (h = t[r][k] => h \in S)
  <2>1. PICK q \in RoomIds : Contains(t2[q], h)
    BY <1>3 DEF Holds
  <2>2. PICK j \in 1..Len(t2[q]) : t2[q][j] = h
    BY <2>1 DEF Contains
  <2>3. PICK a : a = OldIndex(r, k, q, j)
    OBVIOUS
  <2>4. a \in 1..Len(t[q]) /\ t[q][a] = h /\ ~(q = r /\ a = k)
    BY <2>2, <2>3 DEF MovedUp
  <2> QED
    BY <2>4 DEF Holds, Contains, Once
<1> QED
  BY <1>2, <1>3

(* Nothing but h has been appended to the rooms, to one of them at most. *)
OnlyAdds(t, t2, h) ==
  \A q \in RoomIds : \A j \in 1..Len(t2[q]) :
    (j \in 1..Len(t[q]) /\ t2[q][j] = t[q][j]) \/ t2[q][j] = h
ListedAt(t, h, r, k) ==
  \A q \in RoomIds : \A j \in 1..Len(t[q]) : t[q][j] = h => q = r /\ j = k
ListedOnce(t, h) == \E r, k : ListedAt(t, h, r, k)

LEMMA GrownOnce ==
  ASSUME NEW t, NEW S, Once(t, S), NEW h \in Sockets, ~Holds(t, h),
         NEW t2, OnlyAdds(t, t2, h), h \in S \/ ListedOnce(t2, h)
  PROVE  /\ Once(t2, S)
         /\ \A g \in Sockets : Holds(t2, g) => Holds(t, g) \/ g = h
<1>2. ASSUME NEW q \in RoomIds, NEW j \in 1..Len(t2[q])
      PROVE  (j \in 1..Len(t[q]) /\ t2[q][j] = t[q][j]) \/ t2[q][j] = h
  BY Zenon DEF OnlyAdds
<1>3. Once(t2, S)
  <2> SUFFICES ASSUME NEW q \in RoomIds, NEW p \in RoomIds,
                      NEW j \in 1..Len(t2[q]), NEW n \in 1..Len(t2[p]), t2[q][j] = t2[p][n]
               PROVE  (q = p /\ j = n) \/ t2[q][j] \in S
    BY DEF Once
  <2>1. CASE t2[q][j] = h
    <3>1. ASSUME ListedOnce(t2, h) PROVE q = p /\ j = n
      <4>1. PICK r, k : ListedAt(t2, h, r, k)
        BY <3>1 DEF ListedOnce
      <4>2. (q = r /\ j = k) /\ (p = r /\ n = k)
        BY <2>1, <4>1 DEF ListedAt
      <4> QED
        BY <4>2
    <3> QED
      BY <2>1, <3>1
  <2>2. CASE t2[q][j] # h
    BY <1>2, <2>2 DEF Once
  <2> QED
    BY <2>1, <2>2
<1>4. \A g \in Sockets : Holds(t2, g) => Holds(t, g) \/ g = h
  BY <1>2 DEF Holds, Contains
<1> QED
  BY <1>3, <1>4
-----------------------------------------------------------------------------
(* The handles of connections that have joined several rooms. *)
Spread == {h \in Sockets : Open(h) /\ JoinedSeveral(owner[h])}
(* The handles on which recv() does not wait. *)
Served == {h \in Sockets : HasData(h) \/ Lost(h)}

OpenInv ==
  /\ \A h \in Sockets : Holds(rooms, h) => Open(h)
  /\ \A h \in fresh : Open(h) /\ ~Holds(rooms, h) /\ fresh = {h}
AheadInv ==
  pc = "scan" =>
    \A r \in RoomIds : \A i \in 1..Len(rooms[r]) :
      ~Before(<<r, i>>, cur) /\ rooms[r][i] \in ready => rooms[r][i] \in Served \cup Spread
(* Who has not joined several rooms is in the room of its first packet. *)
AtHome(r, h) == r = Home(script[owner[h]]) \/ h \in Spread
HomeInv ==
  /\ \A r \in RoomIds, h \in Sockets : Contains(rooms[r], h) => AtHome(r, h)
  /\ pc = "add" => \A h \in fresh : AtHome(Lobby, h)
TidyInv == OpenInv /\ Once(rooms, Spread) /\ AheadInv /\ HomeInv

HeldInv == TypeInv /\ OwnersInv /\ UnreadInv /\ FirstInv /\ (Stray \/ TidyInv)

LEMMA SpreadStays ==
  ASSUME TypeInv, [Next]_vars, NEW h \in Sockets, h \in Spread, owner'[h] = owner[h]
  PROVE  h \in Spread'
<1>1. owner[h] \in Clients /\ Open(h) /\ JoinedSeveral(owner[h])
  BY DEF Spread, Open, TypeInv, TypeOK
<1>2. PICK c \in Clients : c = owner[h]
  BY <1>1
<1>3. JoinedSeveral(c)'
  BY <1>1, <1>2, BlameStays
<1> QED
  BY <1>1, <1>2, <1>3 DEF Spread, Open, JoinedSeveral

LEMMA AtHomeStays ==
  ASSUME TypeInv, [Next]_vars, NEW h \in Sockets, NEW r \in RoomIds, AtHome(r, h),
         owner'[h] = owner[h]
  PROVE  AtHome(r, h)'
<1>1. script' = script
  BY InboxesOnlyEmptied
<1>2. CASE h \in Spread
  BY <1>2, SpreadStays DEF AtHome
<1>3. CASE r = Home(script[owner[h]])
  BY <1>1, <1>3 DEF AtHome, Home
<1> QED
  BY <1>2, <1>3 DEF AtHome

(* Nothing is listed but what was listed there before, of the same         *)
(* connection.                                                             *)
LEMMA HomeStays ==
  ASSUME TypeInv, HomeInv, [Next]_vars,
         \A r \in RoomIds, h \in Sockets :
           Contains(rooms'[r], h) => Contains(rooms[r], h) /\ owner'[h] = owner[h],
         pc' # "add" \/ (pc = "add" /\ UNCHANGED <<fresh, owner>>)
  PROVE  HomeInv'
<1>1. ASSUME NEW r \in RoomIds, NEW h \in Sockets, Contains(rooms'[r], h) PROVE AtHome(r, h)'
  BY <1>1, AtHomeStays DEF HomeInv
<1>2. ASSUME pc' = "add", NEW h \in fresh' PROVE AtHome(Lobby, h)'
  <2>1. AtHome(Lobby, h) /\ owner'[h] = owner[h] /\ h \in Sockets /\ Lobby \in RoomIds
    BY <1>2, RoomsAssumption DEF HomeInv, TypeInv, TypeOK, Lobby, RoomIds
  <2> QED
    BY <2>1, AtHomeStays
<1> QED
  BY <1>1, <1>2 DEF HomeInv

(* Listed handles that keep their connections. *)
LEMMA OnceStays ==
  ASSUME TypeInv, [Next]_vars, rooms' \in RoomTable, Once(rooms', Spread),
         \A h \in Sockets : Holds(rooms', h) => owner'[h] = owner[h]
  PROVE  Once(rooms, Spread)'
<1>1. PICK t, S, S2 : t = rooms' /\ S = Spread /\ S2 = Spread'
  OBVIOUS
<1>2. \A h \in Sockets : Holds(t, h) /\ h \in S => h \in S2
  BY <1>1, SpreadStays
<1>3. Once(t, S) /\ t \in RoomTable
  BY <1>1
<1>4. Once(t, S2)
  BY <1>2, <1>3, OnceFor
<1> QED
  BY <1>1, <1>4

(* The table under the scan after a turn at p.  Every place still to come  *)
(* was one before, with the same handle, and not p.                        *)
LEMMA AheadAfterTurn ==
  ASSUME TypeInv, OwnersInv, TidyInv, [Next]_vars, pc = "scan",
         NEW p \in Places, NextPlace(p), NEW h \in Sockets, h = At(p), OnlyOf(owner[h]),
         cur' = p \/ cur' = Further(p), ready' \subseteq ready,
         \A g \in Sockets : Holds(rooms', g) => owner'[g] = owner[g],
         \A x \in RoomIds : \A y \in 1..Len(rooms'[x]) : ~Before(<<x, y>>, cur') =>
           \E z \in 1..Len(rooms[x]) :
             y <= z /\ rooms'[x][y] = rooms[x][z] /\ ~(x = p[1] /\ z = p[2])
  PROVE  AheadInv'
<1>1. /\ TypeOK /\ rooms \in RoomTable /\ ready \in SUBSET Sockets
      /\ p[1] \in RoomIds /\ p[2] \in 1..Len(rooms[p[1]]) /\ h = rooms[p[1]][p[2]]
  BY PlaceTyped DEF TypeInv, TypeOK, At
<1> SUFFICES ASSUME NEW x \in RoomIds, NEW y \in 1..Len(rooms'[x]),
                    ~Before(<<x, y>>, cur'), rooms'[x][y] \in ready'
             PROVE  rooms'[x][y] \in Served' \cup Spread'
  BY DEF AheadInv
<1>2. PICK z \in 1..Len(rooms[x]) :
        y <= z /\ rooms'[x][y] = rooms[x][z] /\ ~(x = p[1] /\ z = p[2])
  OBVIOUS
<1>3. PICK g \in Sockets : g = rooms[x][z]
  BY <1>1 DEF RoomTable
<1>4. ~Before(<<x, z>>, p)
  <2> DEFINE a == p[1]
             b == p[2]
  <2>1. a \in Int /\ b \in Int /\ x \in Int /\ y \in Int /\ z \in Int /\ y <= z
    BY <1>1, <1>2 DEF RoomIds, RoomTable
  <2>2. ~(x < a \/ (x = a /\ y < b)) \/ ~(x < a \/ (x = a /\ y < b + 1))
    BY DEF Before, Further
  <2> HIDE DEF a, b
  <2>3. ~(x < a \/ (x = a /\ z < b))
    BY <2>1, <2>2
  <2> QED
    BY <2>3 DEF Before, a, b
<1>5. ~Before(<<x, z>>, cur)
  <2>1. <<x, z>> \in RoomIds \X Nat
    BY <1>1 DEF RoomTable
  <2> QED
    BY <1>1, <1>4, <2>1, StillAhead
<1>6. g \in Served \cup Spread
  BY <1>2, <1>3, <1>5 DEF TidyInv, AheadInv
<1>7. Open(h) /\ Open(g) /\ owner'[g] = owner[g]
  <2>1. Holds(rooms, h) /\ Holds(rooms, g) /\ Holds(rooms', g)
    BY <1>1, <1>2, <1>3 DEF Holds, Contains
  <2> QED
    BY <2>1 DEF TidyInv, OpenInv
<1>8. g \in Served' \cup Spread'
  <2>1. CASE g \in Spread
    BY <1>7, <2>1, SpreadStays
  <2>2. CASE g \notin Spread
    <3>1. g # h
      BY <1>1, <1>2, <1>3, <2>2 DEF TidyInv, Once
    <3>2. HasData(g) \/ Lost(g)
      BY <1>6, <2>2 DEF Served
    <3>3. HasData(g)' \/ Lost(g)'
      BY <1>7, <3>1, <3>2, OthersServed
    <3> QED
      BY <3>3 DEF Served, HasData, Lost, Open
  <2> QED
    BY <2>1, <2>2
<1> QED
  BY <1>2, <1>3, <1>8

(* i++ *)
LEMMA PastPlace ==
  ASSUME TypeOK, NEW p \in Places, NEW x \in RoomIds, NEW y \in Nat, NEW z \in Nat,
         ~Before(<<x, y>>, Further(p)), y <= z
  PROVE  ~(x = p[1] /\ z = p[2])
<1> DEFINE a == p[1]
           b == p[2]
<1>1. a \in Int /\ b \in Int /\ x \in Int
  BY PlaceTyped DEF RoomIds
<1>2. ~(x < a \/ (x = a /\ y < b + 1))
  BY DEF Before, Further
<1> HIDE DEF a, b
<1>3. ~(x = a /\ z = b)
  BY <1>1, <1>2
<1> QED
  BY <1>3 DEF a, b

(* The packet that is read is the one the client has sent at its place. *)
LEMMA ReadPacket ==
  ASSUME TypeInv, UnreadInv, SentInv, NEW h \in Sockets, HasData(h)
  PROVE  \E c \in Clients : \E i \in 1..sent[c] :
           /\ c = owner[h] /\ i = sent[c] - Len(inq[c]) + 1
           /\ script[c][i] = Head(inq[c]) /\ i \in 1..Len(script[c])
           /\ script[c] \in Scripts /\ script[c] \in Seq(Packet)
<1>1. /\ owner[h] \in Clients /\ inq[owner[h]] \in Seq(Packet) /\ inq[owner[h]] # <<>>
      /\ script \in [Clients -> Scripts] /\ sent \in [Clients -> Nat]
      /\ Len(inq[owner[h]]) <= sent[owner[h]]
  BY FirstOfStream DEF HasData, TypeInv, TypeOK, UnreadWasSent
<1>2. PICK c \in Clients : c = owner[h]
  BY <1>1
<1>3. /\ Len(inq[c]) \in Nat \ {0} /\ Len(inq[c]) <= sent[c] /\ sent[c] \in Nat
      /\ Head(inq[c]) = inq[c][1]
  BY <1>1, <1>2
<1>4. PICK i \in 1..sent[c] : i = sent[c] - Len(inq[c]) + 1
  BY <1>3
<1>5. script[c][i] = Head(inq[c])
  <2>1. 1 \in 1..Len(inq[c])
    BY <1>3
  <2> QED
    BY <1>3, <1>4, <2>1 DEF UnreadInv
<1>6. script[c] \in Scripts /\ script[c] \in Seq(Packet)
  BY <1>1, ServerAssumption
<1>7. i \in 1..Len(script[c])
  <2>1. sent[c] <= Len(script[c]) /\ sent[c] \in Nat /\ Len(script[c]) \in Nat
    BY <1>1, <1>6 DEF SentInv
  <2> QED
    BY <2>1
<1> QED
  BY <1>2, <1>4, <1>5, <1>6, <1>7

(* Who is to leave a room it is not in is closed, and was to leave another *)
(* room than its own or has joined several.                                *)
LEMMA LeavingElsewhere ==
  ASSUME TypeInv, UnreadInv, SentInv, TidyInv, [Next]_vars,
         NEW p \in Places, Leave(p), NEW h \in Sockets, h = At(p),
         ~Contains(rooms[Head(Head(inq[owner[h]]).arg)], h)
  PROVE  Stray'
<1> DEFINE c == owner[h]
           packet == Head(inq[c])
<1>1. HasData(h) /\ packet.type = "LEAVE_ROOM" /\ Close(h) /\ Open(h)
  BY DEF Leave, HasData
<1>2. /\ c \in Clients /\ link \in [Clients -> {"idle", "up", "fin", "rst", "shut"}]
      /\ p[1] \in RoomIds /\ p[2] \in 1..Len(rooms[p[1]])
  BY <1>1, PlaceTyped DEF TypeInv, TypeOK, Open
<1>3. PICK i \in 1..sent[c] : /\ script[c][i] = packet /\ i \in 1..Len(script[c])
                              /\ script[c] \in Scripts /\ script[c] \in Seq(Packet)
  BY <1>1, ReadPacket
<1>4. packet.arg \in Seq(RoomIds) /\ packet.arg # <<>>
  <2>1. packet \in Packet
    BY <1>3
  <2> QED
    BY <1>1, <1>3, <2>1, ServerAssumption DEF Packet
<1>5. PICK q : q = Head(packet.arg)
  OBVIOUS
<1>6. packet.arg[1] = q /\ ~Contains(rooms[q], h)
  BY <1>4, <1>5
<1>7. p[1] # q /\ Contains(rooms[p[1]], h)
  BY <1>2, <1>6 DEF Contains, At
<1>8. p[1] = Home(script[c]) \/ JoinedSeveral(c)
  BY <1>2, <1>7 DEF TidyInv, HomeInv, AtHome, Spread
<1>9. JoinedSeveral(c) \/ LeftElsewhere(c)
  BY <1>1, <1>3, <1>6, <1>7, <1>8 DEF LeftElsewhere
<1> HIDE DEF packet
<1>10. link'[c] = "shut"
  BY <1>1, <1>2 DEF Close
<1>11. PICK d \in Clients : d = c
  BY <1>2
<1>12. JoinedSeveral(d)' \/ LeftElsewhere(d)'
  BY <1>9, <1>11, BlameStays
<1> QED
  BY <1>10, <1>11, <1>12 DEF Stray

LEMMA ScanStaysTidy ==
  ASSUME TypeInv, TypeInv', OwnersInv, UnreadInv, SentInv, TidyInv, Scan
  PROVE  Stray' \/ TidyInv'
<1> PICK p \in Places : /\ NextPlace(p)
                        /\ Disconnect(p) \/ Text(p) \/ Leave(p) \/ Request(p) \/ Ignore(p)
  BY DEF Scan
<1>1. PICK h \in Sockets : h = At(p)
  BY PlaceTyped DEF TypeInv
<1>2. PICK r \in RoomIds : r = p[1]
  BY PlaceTyped DEF TypeInv
<1>3. /\ TypeOK /\ p[2] \in 1..Len(rooms[r]) /\ h = rooms[r][p[2]] /\ Contains(rooms[r], h)
      /\ rooms \in RoomTable /\ rooms' \in RoomTable
      /\ owner \in [Sockets -> Clients \cup {NoClient}]
      /\ link \in [Clients -> {"idle", "up", "fin", "rst", "shut"}]
  BY <1>1, <1>2, PlaceTyped DEF TypeInv, TypeOK, At, Contains
<1>4. pc = "scan" /\ pc' = pc /\ fresh = {} /\ fresh' = fresh /\ [Next]_vars
  BY <1>3 DEF Scan, TypeOK, Next, Main
<1>5. Open(h) /\ owner[h] \in Clients
  <2>1. Holds(rooms, h)
    BY <1>3 DEF Holds
  <2> QED
    BY <1>3, <2>1 DEF TidyInv, OpenInv, Open
<1>6. PICK c \in Clients : c = owner[h]
  BY <1>5
<1>7. ASSUME \A g \in Sockets : Holds(rooms', g) => Open(g) /\ owner'[g] = owner[g],
             \A x \in RoomIds, g \in Sockets : Contains(rooms'[x], g) => Contains(rooms[x], g),
             Once(rooms', Spread), OnlyOf(owner[h]), cur' = p \/ cur' = Further(p), ready' = ready,
             \A x \in RoomIds : \A y \in 1..Len(rooms'[x]) : ~Before(<<x, y>>, cur') =>
               \E z \in 1..Len(rooms[x]) :
                 y <= z /\ rooms'[x][y] = rooms[x][z] /\ ~(x = p[1] /\ z = p[2])
      PROVE  TidyInv'
  <2>1. AheadInv'
    BY <1>1, <1>4, <1>7, AheadAfterTurn
  <2>2. Once(rooms, Spread)'
    BY <1>3, <1>4, <1>7, OnceStays
  <2>3. OpenInv'
    BY <1>4, <1>7 DEF OpenInv, Open, Holds, Contains
  <2>4. HomeInv'
    <3>1. \A x \in RoomIds, g \in Sockets :
            Contains(rooms'[x], g) => Contains(rooms[x], g) /\ owner'[g] = owner[g]
      BY <1>7 DEF Holds
    <3> QED
      BY <1>4, <3>1, HomeStays DEF TidyInv
  <2> QED
    BY <2>1, <2>2, <2>3, <2>4 DEF TidyInv
<1>8. ASSUME Close(h), JoinedSeveral(c) \/ LeftElsewhere(c) PROVE Stray'
  <2>1. link'[c] = "shut"
    BY <1>3, <1>5, <1>6, <1>8 DEF Close
  <2>2. JoinedSeveral(c)' \/ LeftElsewhere(c)'
    BY <1>4, <1>8, BlameStays
  <2> QED
    BY <2>1, <2>2 DEF Stray
<1>9. CASE Disconnect(p)
  <2>1. /\ Close(h) /\ cur' = p /\ ready' = ready /\ inq' = [inq EXCEPT ![owner[h]] = <<>>]
        /\ rooms' = [rooms EXCEPT ![r] = EraseFirst(@, h)]
    BY <1>1, <1>2, <1>5, <1>9 DEF Disconnect, ChangeRooms, Again, Removed
  <2>2. CASE JoinedSeveral(c)
    BY <1>8, <2>1, <2>2
  <2>3. CASE ~JoinedSeveral(c)
    <3>1. h \notin Spread
      BY <1>6, <2>3 DEF Spread
    <3>2. PICK k \in 1..Len(rooms[r]) : rooms[r][k] = h /\ MovedUp(rooms, rooms', r, k)
      BY <1>3, <2>1, ErasedPlaces
    <3>3. k = p[2]
      BY <1>3, <3>1, <3>2 DEF TidyInv, Once
    <3>4. /\ Once(rooms', Spread)
          /\ \A g \in Sockets : Holds(rooms', g) => Holds(rooms, g) /\ g # h
      BY <1>3, <3>1, <3>2, ErasedOnce DEF TidyInv
    <3>5. \A g \in Sockets : Holds(rooms', g) => Open(g) /\ owner'[g] = owner[g]
      <4>1. owner' = [owner EXCEPT ![h] = NoClient]
        BY <2>1 DEF Close
      <4> QED
        BY <1>3, <3>4, <4>1 DEF TidyInv, OpenInv
    <3>8. \A x \in RoomIds, g \in Sockets : Contains(rooms'[x], g) => Contains(rooms[x], g)
      BY <3>2, MovedWithin
    <3>6. OnlyOf(owner[h])
      BY <1>5, <2>1, CloseOnlyOf
    <3>7. ASSUME NEW x \in RoomIds, NEW y \in 1..Len(rooms'[x])
          PROVE  \E z \in 1..Len(rooms[x]) :
                   y <= z /\ rooms'[x][y] = rooms[x][z] /\ ~(x = p[1] /\ z = p[2])
      <4>1. PICK z : z = OldIndex(r, k, x, y)
        OBVIOUS
      <4>2. z \in 1..Len(rooms[x]) /\ rooms'[x][y] = rooms[x][z] /\ ~(x = r /\ z = k) /\ y \in Nat
        BY <3>2, <4>1 DEF MovedUp
      <4>3. y <= z
        BY <4>1, <4>2 DEF OldIndex
      <4> QED
        BY <1>2, <3>3, <4>2, <4>3
    <3> QED
      BY <1>7, <2>1, <3>4, <3>5, <3>6, <3>7, <3>8
  <2> QED
    BY <2>2, <2>3
<1>10. CASE Text(p) \/ Request(p) \/ Ignore(p)
  <2>1. HasData(h) /\ Receive(h) /\ cur' = Further(p) /\ UNCHANGED <<rooms, owner, link, ready>>
    BY <1>1, <1>10 DEF Text, Request, Ignore
  <2>2. OnlyOf(owner[h])
    BY <2>1, ReceiveOnlyOf
  <2>3. \A g \in Sockets : Holds(rooms', g) => Open(g) /\ owner'[g] = owner[g]
    BY <2>1 DEF TidyInv, OpenInv
  <2>4. ASSUME NEW x \in RoomIds, NEW y \in 1..Len(rooms'[x]), ~Before(<<x, y>>, cur')
        PROVE  \E z \in 1..Len(rooms[x]) :
                 y <= z /\ rooms'[x][y] = rooms[x][z] /\ ~(x = p[1] /\ z = p[2])
    <3>1. y \in 1..Len(rooms[x]) /\ y \in Nat /\ y <= y
      BY <1>3, <2>1 DEF RoomTable
    <3> QED
      BY <1>3, <2>1, <2>4, <3>1, PastPlace
  <2>5. Once(rooms', Spread)
    BY <2>1 DEF TidyInv
  <2> QED
    BY <1>7, <2>1, <2>2, <2>3, <2>4, <2>5
<1>11. CASE Leave(p)
  <2> DEFINE packet == Head(inq[c])
             room == Head(packet.arg)
  <2>1. HasData(h) /\ packet.type = "LEAVE_ROOM"
    BY <1>1, <1>6, <1>11 DEF Leave
  <2>2. PICK i \in 1..sent[c] : /\ script[c][i] = packet /\ i \in 1..Len(script[c])
                                /\ script[c] \in Scripts /\ script[c] \in Seq(Packet)
    BY <1>6, <2>1, ReadPacket
  <2>4. room \in RoomIds
    <3>1. packet \in Packet
      BY <2>2
    <3>2. packet.arg \in Seq(RoomIds) /\ packet.arg # <<>>
      BY <2>1, <2>2, <3>1, ServerAssumption DEF Packet
    <3> QED
      BY <3>2
  <2> HIDE DEF packet
  <2>5. /\ rooms' = [rooms EXCEPT ![room] = EraseFirst(@, h)]
        /\ IF Contains(rooms[room], h)
           THEN Receive(h) /\ UNCHANGED <<owner, link, ready>>
           ELSE Close(h)
        /\ cur' = Further(p)
    BY <1>1, <1>6, <1>11 DEF Leave, ChangeRooms, AfterLeaving, packet
  <2>6. PICK q \in RoomIds : q = room
    BY <2>4
  <2>7. CASE Contains(rooms[q], h)
    <3>1. Receive(h) /\ UNCHANGED <<owner, link, ready>>
      BY <2>5, <2>6, <2>7
    <3>2. PICK k \in 1..Len(rooms[q]) : rooms[q][k] = h /\ MovedUp(rooms, rooms', q, k)
      BY <1>3, <2>5, <2>6, <2>7, ErasedPlaces
    <3>3. Once(rooms', Spread) /\ \A g \in Sockets : Holds(rooms', g) => Holds(rooms, g)
      BY <1>3, <3>2, ErasedOnce DEF TidyInv
    <3>4. \A g \in Sockets : Holds(rooms', g) => Open(g) /\ owner'[g] = owner[g]
      BY <3>1, <3>3 DEF TidyInv, OpenInv
    <3>5. OnlyOf(owner[h])
      BY <2>1, <3>1, ReceiveOnlyOf
    <3>7. \A x \in RoomIds, g \in Sockets : Contains(rooms'[x], g) => Contains(rooms[x], g)
      BY <3>2, MovedWithin
    <3>6. ASSUME NEW x \in RoomIds, NEW y \in 1..Len(rooms'[x]), ~Before(<<x, y>>, cur')
          PROVE  \E z \in 1..Len(rooms[x]) :
                   y <= z /\ rooms'[x][y] = rooms[x][z] /\ ~(x = p[1] /\ z = p[2])
      <4>1. PICK z : z = OldIndex(q, k, x, y)
        OBVIOUS
      <4>2. z \in 1..Len(rooms[x]) /\ rooms'[x][y] = rooms[x][z] /\ y \in Nat
        BY <3>2, <4>1 DEF MovedUp
      <4>3. y <= z /\ z \in Nat
        BY <4>1, <4>2 DEF OldIndex
      <4> QED
        BY <1>3, <2>5, <3>6, <4>2, <4>3, PastPlace
    <3> QED
      BY <1>7, <2>5, <3>1, <3>3, <3>4, <3>5, <3>6, <3>7
  <2>8. CASE ~Contains(rooms[q], h)
    BY <1>1, <1>4, <1>5, <1>6, <1>11, <2>6, <2>8, LeavingElsewhere DEF packet
  <2> QED
    BY <2>7, <2>8
<1> QED
  BY <1>9, <1>10, <1>11

(* Outside the scan a step only has to keep the table right. *)
LEMMA TidyOutsideScan ==
  ASSUME TypeInv, TypeInv', [Next]_vars, pc' # "scan", Once(rooms', Spread), OpenInv', HomeInv',
         \A h \in Sockets : Holds(rooms', h) => owner'[h] = owner[h]
  PROVE  TidyInv'
<1>1. Once(rooms, Spread)'
  BY OnceStays DEF TypeInv, TypeOK
<1> QED
  BY <1>1 DEF TidyInv, AheadInv

(* Listing a handle that is in no room: a connection that joins several    *)
(* rooms at once is listed several times.                                  *)
LEMMA ListingStaysTidy ==
  ASSUME TypeInv, TypeInv', TidyInv, [Next]_vars, NEW h \in fresh, owner' = owner, fresh' = {},
         pc' \notin {"scan", "add"},
         OnlyAdds(rooms, rooms', h), h \in Spread \/ ListedOnce(rooms', h),
         \A r \in RoomIds : Contains(rooms'[r], h) => AtHome(r, h)
  PROVE  TidyInv'
<1>1. h \in Sockets /\ ~Holds(rooms, h) /\ Open(h) /\ rooms \in RoomTable /\ rooms' \in RoomTable
  BY DEF TidyInv, OpenInv, TypeInv, TypeOK
<1>2. PICK t, t2, S : t = rooms /\ t2 = rooms' /\ S = Spread
  OBVIOUS
<1>3. Once(t, S) /\ ~Holds(t, h)
  <2>1. Once(rooms, Spread)
    BY DEF TidyInv
  <2> QED
    BY <1>1, <1>2, <2>1
<1>4. OnlyAdds(t, t2, h) /\ (h \in S \/ ListedOnce(t2, h))
  BY <1>2
<1>5. Once(t2, S) /\ \A g \in Sockets : Holds(t2, g) => Holds(t, g) \/ g = h
  BY <1>1, <1>3, <1>4, GrownOnce
<1>6. Once(rooms, Spread)'
  <2>1. Once(rooms', Spread)
    BY <1>2, <1>5
  <2> QED
    BY <1>1, <2>1, OnceStays
<1>7. OpenInv'
  <2>1. \A g \in Sockets : Holds(rooms', g) => Holds(rooms, g) \/ g = h
    BY <1>2, <1>5
  <2>2. \A g \in Sockets : Holds(rooms', g) => Open(g)
    BY <1>1, <2>1 DEF TidyInv, OpenInv
  <2> QED
    BY <2>2 DEF OpenInv, Open, Holds, Contains
<1>8. HomeInv'
  <2>1. ASSUME NEW r \in RoomIds, NEW g \in Sockets, Contains(rooms'[r], g) PROVE AtHome(r, g)
    <3>1. CASE g = h
      BY <2>1, <3>1
    <3>2. CASE g # h
      <4>1. Contains(rooms[r], g)
        BY <2>1, <3>2 DEF OnlyAdds, Contains
      <4> QED
        BY <4>1 DEF TidyInv, HomeInv
    <3> QED
      BY <3>1, <3>2
  <2>2. \A r \in RoomIds, g \in Sockets : Contains(rooms'[r], g) => AtHome(r, g)'
    BY <2>1, AtHomeStays
  <2> QED
    BY <2>2 DEF HomeInv
<1> QED
  BY <1>6, <1>7, <1>8 DEF TidyInv, AheadInv

LEMMA AppendedPlaces ==
  ASSUME NEW t \in RoomTable, NEW r \in RoomIds, NEW h \in Sockets,
         NEW t2, t2 = [t EXCEPT ![r] = Append(@, h)], ~Holds(t, h)
  PROVE  OnlyAdds(t, t2, h) /\ ListedOnce(t2, h)
<1>1. t \in [RoomIds -> Seq(Sockets)] /\ \A q \in RoomIds : Len(t[q]) \in Nat
  BY DEF RoomTable
<1>2. t2[r] = Append(t[r], h) /\ \A q \in RoomIds : q # r => t2[q] = t[q]
  BY <1>1
<1>3. /\ Len(t2[r]) = Len(t[r]) + 1 /\ t2[r][Len(t[r]) + 1] = h
      /\ \A j \in 1..Len(t[r]) : t2[r][j] = t[r][j]
  BY <1>1, <1>2
<1>4. \A q \in RoomIds : \A j \in 1..Len(t[q]) : t[q][j] # h
  BY DEF Holds, Contains
<1>5. \A j \in 1..Len(t2[r]) : j \in 1..Len(t[r]) \/ j = Len(t[r]) + 1
  BY <1>1, <1>3
<1>6. OnlyAdds(t, t2, h)
  BY <1>2, <1>3, <1>5 DEF OnlyAdds
<1>7. ASSUME NEW q \in RoomIds, NEW j \in 1..Len(t2[q]), t2[q][j] = h
      PROVE  q = r /\ j = Len(t[r]) + 1
  BY <1>2, <1>3, <1>4, <1>5, <1>7
<1> QED
  BY <1>6, <1>7 DEF ListedOnce, ListedAt

LEMMA AppendingStaysTidy ==
  ASSUME TypeInv, TypeInv', TidyInv, [Next]_vars, NEW h \in fresh, owner' = owner, fresh' = {},
         pc' \notin {"scan", "add"}, NEW r \in RoomIds, AtHome(r, h),
         rooms' = [rooms EXCEPT ![r] = Append(@, h)]
  PROVE  TidyInv'
<1>1. h \in Sockets /\ ~Holds(rooms, h) /\ rooms \in RoomTable
  BY DEF TidyInv, OpenInv, TypeInv, TypeOK
<1>2. PICK t, t2 : t = rooms /\ t2 = rooms'
  OBVIOUS
<1>3. t \in RoomTable /\ ~Holds(t, h) /\ t2 = [t EXCEPT ![r] = Append(@, h)]
  BY <1>1, <1>2 DEF Holds, Contains
<1>4. OnlyAdds(t, t2, h) /\ ListedOnce(t2, h)
  BY <1>1, <1>3, AppendedPlaces
<1>5. \A q \in RoomIds : Contains(rooms'[q], h) => q = r
  BY <1>1 DEF Holds, RoomTable
<1> QED
  BY <1>2, <1>4, <1>5, ListingStaysTidy

Copied(u, n, h) == u \o [k \in 1..n |-> h]
LEMMA CopiedPlace ==
  ASSUME NEW h \in Sockets, NEW u \in Seq(Sockets), NEW n \in Nat,
         NEW v, v = Copied(u, n, h), NEW j \in 1..Len(v)
  PROVE  (j \in 1..Len(u) /\ v[j] = u[j]) \/ v[j] = h
<1>1. PICK w : w = [k \in 1..n |-> h]
  OBVIOUS
<1>2. \A k \in 1..n : w[k] = h
  BY <1>1
<1>3. v = u \o w
  BY <1>1 DEF Copied
<1>4. /\ Len(v) = Len(u) + n /\ Len(u) \in Nat
      /\ \A i \in 1..(Len(u) + n) : v[i] = IF i <= Len(u) THEN u[i] ELSE w[i - Len(u)]
  <2>1. w \in Seq(Sockets)
    BY <1>1
  <2>2. /\ Len(v) = Len(u) + Len(w) /\ Len(u) \in Nat
        /\ \A i \in 1..(Len(u) + Len(w)) : v[i] = IF i <= Len(u) THEN u[i] ELSE w[i - Len(u)]
    BY <1>3, <2>1
  <2>3. Len(w) = n
    BY <1>1
  <2> QED
    BY <2>2, <2>3
<1>5. CASE j <= Len(u)
  BY <1>4, <1>5
<1>6. CASE ~(j <= Len(u))
  <2>1. j - Len(u) \in 1..n /\ v[j] = w[j - Len(u)]
    BY <1>4, <1>6
  <2> QED
    BY <1>2, <2>1
<1> QED
  BY <1>5, <1>6

LEMMA JoinedPlaces ==
  ASSUME TypeOK, NEW h \in Sockets, NEW wanted \in Seq(RoomIds),
         NEW t2, \A r \in RoomIds :
           t2[r] = Copied(rooms[r], Cardinality({j \in 1..Len(wanted) : wanted[j] = r}), h)
  PROVE  OnlyAdds(rooms, t2, h)
<1> SUFFICES ASSUME NEW q \in RoomIds, NEW j \in 1..Len(t2[q])
             PROVE  (j \in 1..Len(rooms[q]) /\ t2[q][j] = rooms[q][j]) \/ t2[q][j] = h
  BY DEF OnlyAdds
<1>1. PICK n : n = Cardinality({k \in 1..Len(wanted) : wanted[k] = q})
  OBVIOUS
<1>2. n \in Nat
  <2>1. IsFiniteSet(1..Len(wanted))
    BY FS_Interval
  <2>2. IsFiniteSet({k \in 1..Len(wanted) : wanted[k] = q})
    BY <2>1, FS_Subset
  <2> QED
    BY <1>1, <2>2, FS_CardinalityType
<1>3. t2[q] = Copied(rooms[q], n, h) /\ rooms[q] \in Seq(Sockets)
  BY <1>1 DEF TypeOK, RoomTable
<1> QED
  BY <1>2, <1>3, CopiedPlace

(* A JOIN_ROOM that names one room adds the handle there. *)
LEMMA JoinedTable ==
  ASSUME TypeOK, NEW h \in Sockets, NEW wanted \in Seq(RoomIds), Len(wanted) = 1
  PROVE  /\ wanted[1] \in RoomIds
         /\ [r \in RoomIds |->
               rooms[r] \o [i \in 1..Cardinality({j \in 1..Len(wanted) : wanted[j] = r}) |-> h]]
            = [rooms EXCEPT ![wanted[1]] = Append(@, h)]
<1>1. wanted[1] \in RoomIds /\ rooms \in [RoomIds -> Seq(Sockets)]
  <2>1. wanted[1] \in RoomIds
    OBVIOUS
  <2> QED
    BY <2>1 DEF TypeOK, RoomTable
<1>2. ASSUME NEW r \in RoomIds
      PROVE  rooms[r] \o [i \in 1..Cardinality({j \in 1..Len(wanted) : wanted[j] = r}) |-> h]
             = IF r = wanted[1] THEN Append(rooms[r], h) ELSE rooms[r]
  <2>1. rooms[r] \in Seq(Sockets)
    BY <1>1
  <2>2. CASE r = wanted[1]
    <3>1. {j \in 1..Len(wanted) : wanted[j] = r} = {1}
      BY <2>2
    <3>2. Cardinality({1}) = 1
      BY FS_Singleton
    <3>3. rooms[r] \o [i \in 1..1 |-> h] = Append(rooms[r], h)
      BY <2>1
    <3> QED
      BY <2>2, <3>1, <3>2, <3>3
  <2>3. CASE r # wanted[1]
    <3>1. {j \in 1..Len(wanted) : wanted[j] = r} = {}
      BY <2>3
    <3>2. Cardinality({}) = 0
      BY FS_EmptySet
    <3>3. rooms[r] \o [i \in 1..0 |-> h] = rooms[r]
      BY <2>1
    <3> QED
      BY <2>3, <3>1, <3>2, <3>3
  <2> QED
    BY <2>2, <2>3
<1> QED
  BY <1>1, <1>2

LEMMA FirstStaysTidy ==
  ASSUME TypeInv, TypeInv', OwnersInv, UnreadInv, SentInv, FirstInv, TidyInv, First
  PROVE  TidyInv'
<1> PICK h \in fresh : FirstRequest(h) \/ JoinRoom(h) \/ FirstIgnored(h)
  BY DEF First
<1>1. /\ h \in Sockets /\ Open(h) /\ ~Holds(rooms, h) /\ owner' = owner /\ TypeOK
      /\ rooms \in RoomTable /\ [Next]_vars
  BY DEF First, TidyInv, OpenInv, TypeInv, TypeOK, Next, Main
<1>4. ASSUME HasData(h) PROVE \E c \in Clients : /\ c = owner[h] /\ sent[c] > 0 /\ script[c] \in Scripts
                                                  /\ Head(inq[c]) = script[c][1]
  <2>1. pc = "first"
    BY DEF First
  <2> QED
    BY <1>4, <2>1, FirstIsRead
<1>2. CASE FirstRequest(h) \/ FirstIgnored(h)
  <2>1. rooms' = rooms /\ pc' # "scan" /\ (fresh' = fresh \/ fresh' = {})
    BY <1>2 DEF FirstRequest, FirstIgnored
  <2>2. OpenInv' /\ Once(rooms', Spread)
    BY <1>1, <2>1 DEF TidyInv, OpenInv, Open, Holds, Contains
  <2>3. HomeInv'
    <3>1. script' = script
      BY DEF First, clientVars
    <3>2. ASSUME NEW r \in RoomIds, NEW g \in Sockets, Contains(rooms'[r], g) PROVE AtHome(r, g)'
      BY <1>1, <2>1, <3>2, AtHomeStays DEF TidyInv, HomeInv
    <3>3. ASSUME pc' = "add", NEW g \in fresh' PROVE AtHome(Lobby, g)'
      <4>1. FirstRequest(h)
        BY <1>2, <3>3 DEF FirstIgnored
      <4>2. fresh' = fresh /\ HasData(h) /\ Head(inq[owner[h]]).type \in Requests
        BY <4>1 DEF FirstRequest
      <4>3. g = h
        BY <3>3, <4>2 DEF TidyInv, OpenInv
      <4>4. script[owner[h]][1].type # "JOIN_ROOM"
        BY <1>4, <4>2 DEF Requests
      <4> QED
        BY <1>1, <3>1, <4>3, <4>4 DEF AtHome, Home
    <3> QED
      BY <3>2, <3>3 DEF HomeInv
  <2> QED
    BY <1>1, <2>1, <2>2, <2>3, TidyOutsideScan
<1>3. CASE JoinRoom(h)
  <2> DEFINE wanted == Head(inq[owner[h]]).arg
  <2>1. /\ HasData(h) /\ Head(inq[owner[h]]).type = "JOIN_ROOM" /\ fresh' = {}
        /\ pc' \notin {"scan", "add"}
        /\ rooms' = [r \in RoomIds |->
             rooms[r] \o [i \in 1..Cardinality({j \in 1..Len(wanted) : wanted[j] = r}) |-> h]]
    BY <1>3 DEF JoinRoom, ChangeRooms
  <2>2. PICK c \in Clients : c = owner[h] /\ sent[c] > 0 /\ Head(inq[c]) = script[c][1]
    BY <1>4, <2>1
  <2>3. wanted \in Seq(RoomIds)
    BY <1>1, <2>1, FirstOfStream DEF Packet
  <2>4. ASSUME Len(wanted) > 1 PROVE h \in Spread
    <3>1. JoinedSeveral(c)
      BY <2>1, <2>2, <2>4 DEF JoinedSeveral
    <3> QED
      BY <1>1, <2>2, <3>1 DEF Spread
  <2>10. wanted[1] = Home(script[owner[h]])
    BY <2>1, <2>2 DEF Home
  <2> HIDE DEF wanted
  <2>5. OnlyAdds(rooms, rooms', h)
    <3>1. PICK t2 : t2 = rooms'
      OBVIOUS
    <3>2. \A r \in RoomIds :
            t2[r] = Copied(rooms[r], Cardinality({j \in 1..Len(wanted) : wanted[j] = r}), h)
      BY <2>1, <3>1 DEF Copied
    <3>3. OnlyAdds(rooms, t2, h)
      BY <1>1, <2>3, <3>2, JoinedPlaces
    <3> QED
      BY <3>1, <3>3
  <2>6. CASE Len(wanted) > 1
    BY <1>1, <2>1, <2>4, <2>5, <2>6, ListingStaysTidy DEF AtHome
  <2>7. CASE Len(wanted) = 1
    <3>1. wanted[1] \in RoomIds /\ rooms' = [rooms EXCEPT ![wanted[1]] = Append(@, h)]
      BY <1>1, <2>1, <2>3, <2>7, JoinedTable
    <3>2. PICK r \in RoomIds : r = wanted[1] /\ rooms' = [rooms EXCEPT ![r] = Append(@, h)]
      BY <3>1
    <3>3. AtHome(r, h)
      BY <2>10, <3>2 DEF AtHome
    <3> QED
      BY <1>1, <2>1, <3>2, <3>3, AppendingStaysTidy
  <2>8. CASE Len(wanted) = 0
    <3>1. ASSUME NEW q \in RoomIds PROVE rooms'[q] = rooms[q]
      <4>1. {j \in 1..Len(wanted) : wanted[j] = q} = {} /\ rooms[q] \in Seq(Sockets)
        BY <1>1, <2>8 DEF RoomTable
      <4>2. Cardinality({j \in 1..Len(wanted) : wanted[j] = q}) = 0
        BY <4>1, FS_EmptySet
      <4>3. rooms'[q] = rooms[q] \o [i \in 1..0 |-> h]
        BY <2>1, <4>2
      <4> QED
        BY <4>1, <4>3
    <3>2. rooms' = rooms
      BY <1>1, <3>1 DEF RoomTable, TypeInv, TypeOK
    <3>3. OpenInv' /\ Once(rooms', Spread)
      BY <1>1, <2>1, <3>2 DEF TidyInv, OpenInv, Open, Holds, Contains
    <3>4. HomeInv'
      BY <1>1, <2>1, <3>2, HomeStays DEF TidyInv
    <3> QED
      BY <1>1, <2>1, <3>2, <3>3, <3>4, TidyOutsideScan
  <2>9. Len(wanted) = 0 \/ Len(wanted) = 1 \/ Len(wanted) > 1
    <3>1. PICK n \in Nat : n = Len(wanted)
      BY <2>3
    <3>2. n = 0 \/ n = 1 \/ n > 1
      OBVIOUS
    <3> QED
      BY <3>1, <3>2
  <2> QED
    BY <2>6, <2>7, <2>8, <2>9
<1> QED
  BY <1>2, <1>3

LEMMA AddStaysTidy ==
  ASSUME TypeInv, TypeInv', TidyInv, Add
  PROVE  TidyInv'
<1>1. PICK h \in fresh : rooms' = [rooms EXCEPT ![Lobby] = Append(@, h)]
  BY DEF Add, ChangeRooms
<1>2. fresh' = {} /\ owner' = owner /\ pc' \notin {"scan", "add"} /\ [Next]_vars
  BY DEF Add, Next, Main
<1>4. AtHome(Lobby, h)
  BY DEF Add, TidyInv, HomeInv
<1>3. Lobby \in RoomIds
  BY RoomsAssumption DEF Lobby, RoomIds
<1> QED
  BY <1>1, <1>2, <1>3, <1>4, AppendingStaysTidy

(* A handle the system gives out stands nowhere in the table. *)
LEMMA AcceptStaysTidy ==
  ASSUME TypeInv, TypeInv', TidyInv, Accept
  PROVE  TidyInv'
<1>1. /\ rooms' = rooms /\ pc' \notin {"scan", "add"} /\ pc = "accept" /\ [Next]_vars
      /\ backlog # <<>> /\ backlog \in Seq(Clients) /\ fresh = {}
      /\ owner \in [Sockets -> Clients \cup {NoClient}]
  BY DEF Accept, Next, Main, TypeInv, TypeOK
<1>2. Once(rooms', Spread) /\ \A g \in Sockets : Holds(rooms', g) => Open(g) /\ Holds(rooms, g)
  BY <1>1 DEF TidyInv, OpenInv
<1>3. CASE UNCHANGED <<owner, fresh>>
  <2>1. OpenInv'
    BY <1>1, <1>3 DEF TidyInv, OpenInv, Open, Holds, Contains
  <2>2. HomeInv'
    BY <1>1, <1>3, HomeStays DEF TidyInv
  <2> QED
    BY <1>1, <1>2, <1>3, <2>1, <2>2, TidyOutsideScan
<1>4. ASSUME NEW h \in Sockets, ~Open(h), owner' = [owner EXCEPT ![h] = Head(backlog)], fresh' = {h}
      PROVE  TidyInv'
  <2>1. Head(backlog) # NoClient
    BY <1>1, ServerAssumption
  <2>2. ~Holds(rooms, h)
    BY <1>4 DEF TidyInv, OpenInv
  <2>3. owner'[h] # NoClient /\ \A g \in Sockets : g # h => owner'[g] = owner[g]
    BY <1>1, <1>4, <2>1
  <2>4. OpenInv'
    BY <1>1, <1>2, <1>4, <2>2, <2>3 DEF OpenInv, Open, Holds, Contains
  <2>5. \A g \in Sockets : Holds(rooms', g) => owner'[g] = owner[g]
    BY <1>2, <2>2, <2>3
  <2>6. HomeInv'
    <3>1. \A r \in RoomIds, g \in Sockets :
            Contains(rooms'[r], g) => Contains(rooms[r], g) /\ owner'[g] = owner[g]
      BY <1>1, <2>5 DEF Holds
    <3> QED
      BY <1>1, <3>1, HomeStays DEF TidyInv
  <2> QED
    BY <1>1, <1>2, <2>4, <2>5, <2>6, TidyOutsideScan
<1> QED
  BY <1>3, <1>4 DEF Accept

(* select() reports a listed handle only when recv() on it does not wait:  *)
(* none of them has been closed.                                           *)
LEMMA SelectStaysTidy ==
  ASSUME TypeInv, TypeInv', TidyInv, Select
  PROVE  TidyInv'
<1> USE DEF netVars, clientVars
<1>1. UNCHANGED <<rooms, owner, fresh, link, inq, sent, script>> /\ TypeOK /\ [Next]_vars
  BY DEF Select, Next, Main, TypeInv
<1>2. Listed \subseteq {h \in Sockets : Open(h)}
  BY DEF Listed, TidyInv, OpenInv, Holds
<1>3. Polled \subseteq {h \in Sockets : Open(h)}
  BY <1>2 DEF Polled
<1>4. ready' = {h \in Polled : HasData(h) \/ Lost(h)}
  BY <1>3 DEF Select
<1>5. \A h \in ready' : HasData(h)' \/ Lost(h)'
  BY <1>1, <1>4 DEF HasData, Lost, Open
<1>6. ready' \subseteq Served'
  <2>1. ready' \subseteq Sockets
    BY DEF TypeInv, TypeOK
  <2> QED
    BY <1>5, <2>1 DEF Served, HasData, Lost, Open
<1>7. AheadInv'
  BY <1>6 DEF AheadInv
<1>8. OpenInv' /\ Once(rooms', Spread) /\ \A h \in Sockets : Holds(rooms', h) => owner'[h] = owner[h]
  BY <1>1 DEF TidyInv, OpenInv, Open, Holds, Contains
<1>9. Once(rooms, Spread)'
  BY <1>1, <1>8, OnceStays DEF TypeInv, TypeOK
<1>10. HomeInv'
  <2>1. pc' = "scan"
    BY DEF Select
  <2> QED
    BY <1>1, <2>1, HomeStays DEF TidyInv
<1> QED
  BY <1>7, <1>8, <1>9, <1>10 DEF TidyInv

(* The table and the main thread stay as they are, and nobody stops being  *)
(* served.                                                                 *)
LEMMA RestStaysTidy ==
  ASSUME TypeInv, TypeInv', TidyInv, [Next]_vars,
         UNCHANGED <<rooms, owner, pc, cur, ready, fresh>>,
         \A h \in Sockets : HasData(h) \/ Lost(h) => HasData(h)' \/ Lost(h)'
  PROVE  TidyInv'
<1>1. TypeOK /\ TypeOK' /\ rooms \in RoomTable
  BY DEF TypeInv, TypeOK
<1>2. OpenInv' /\ Once(rooms', Spread) /\ \A h \in Sockets : Holds(rooms', h) => owner'[h] = owner[h]
  BY DEF TidyInv, OpenInv, Open, Holds, Contains
<1>3. Once(rooms, Spread)'
  BY <1>1, <1>2, OnceStays
<1>4. Spread \subseteq Spread'
  <2> SUFFICES ASSUME NEW h \in Sockets, h \in Spread PROVE h \in Spread'
    BY DEF Spread
  <2> QED
    BY SpreadStays
<1>5. Served \subseteq Served'
  BY DEF Served, HasData, Lost, Open
<1>6. AheadInv'
  BY <1>4, <1>5 DEF TidyInv, AheadInv
<1>7. HomeInv'
  BY HomeStays DEF TidyInv
<1> QED
  BY <1>2, <1>3, <1>6, <1>7 DEF TidyInv

LEMMA ClientStaysTidy ==
  ASSUME TypeInv, TypeInv', OwnersInv, TidyInv, NEW c \in Clients, Client(c)
  PROVE  TidyInv'
<1> USE DEF mainVars
<1>1. UNCHANGED <<rooms, owner, pc, cur, ready, fresh>> /\ [Next]_vars
  BY DEF Client, ClientConnect, ClientSend, ClientClose, Next
<1> QED
  BY <1>1, ClientKeepsServed, RestStaysTidy

LEMMA NextStaysTidy ==
  ASSUME TypeInv, TypeInv', OwnersInv, UnreadInv, SentInv, FirstInv, TidyInv, [Next]_vars
  PROVE  Stray' \/ TidyInv'
<1> USE DEF netVars, mainVars, clientVars, authVars
<1>1. CASE SelectTimeout \/ Auth \/ AuthReply \/ AuthLost \/ Ended \/ UNCHANGED vars
  <2>1. UNCHANGED <<rooms, owner, pc, cur, ready, fresh, link, inq>>
    BY <1>1 DEF SelectTimeout, Auth, AuthReceive, AuthDeliver, AuthReply, AuthLost, Ended, vars
  <2>2. \A h \in Sockets : HasData(h) \/ Lost(h) => HasData(h)' \/ Lost(h)'
    BY <2>1 DEF HasData, Lost, Open
  <2> QED
    BY <2>1, <2>2, RestStaysTidy
<1>2. CASE ScanEnd
  <2>1. UNCHANGED <<rooms, owner, fresh>> /\ pc' \notin {"scan", "add"} /\ TypeOK
    BY <1>2 DEF ScanEnd, TypeInv
  <2>3. HomeInv'
    BY <2>1, HomeStays DEF TidyInv
  <2>2. OpenInv' /\ Once(rooms', Spread) /\ \A h \in Sockets : Holds(rooms', h) => owner'[h] = owner[h]
    BY <2>1 DEF TidyInv, OpenInv, Open, Holds, Contains
  <2> QED
    BY <2>1, <2>2, <2>3, TidyOutsideScan
<1> QED
  BY <1>1, <1>2, ScanStaysTidy, SelectStaysTidy, AcceptStaysTidy, FirstStaysTidy, AddStaysTidy,
     ClientStaysTidy DEF Next, Main

LEMMA HeldInvariant == Spec => [](HeldInv /\ SentInv)
<1>1. Init => TypeInv /\ OwnersInv /\ UnreadInv /\ FirstInv /\ TidyInv
  <2>1. Init => TidyInv
    <3> SUFFICES ASSUME Init PROVE TidyInv
      OBVIOUS
    <3>1. \A r \in RoomIds : rooms[r] = <<>> /\ Len(rooms[r]) = 0
      BY DEF Init
    <3>2. \A r \in RoomIds : 1..Len(rooms[r]) = {}
      BY <3>1
    <3> QED
      BY <3>2 DEF Init, TidyInv, OpenInv, Once, AheadInv, HomeInv, Holds, Contains
  <2> QED
    BY <2>1, InitTyped DEF Init, OwnersInv, UnreadInv, FirstInv, Open
<1>2. HeldInv /\ SentInv /\ [Next]_vars => HeldInv'
  <2> SUFFICES ASSUME HeldInv, SentInv, [Next]_vars PROVE HeldInv'
    OBVIOUS
  <2>1. TypeInv /\ OwnersInv /\ UnreadInv /\ FirstInv
    BY DEF HeldInv
  <2>2. TypeInv' /\ OwnersInv' /\ UnreadInv' /\ FirstInv'
    BY <2>1, NextTyped, NextKeepsOwners, NextKeepsUnread, NextKeepsFirst
  <2>3. Stray' \/ TidyInv'
    BY <2>1, <2>2, BlameStays, NextStaysTidy DEF HeldInv
  <2> QED
    BY <2>2, <2>3 DEF HeldInv
<1>3. Init => HeldInv
  BY <1>1 DEF HeldInv
<1> QED
  BY <1>2, <1>3, SentFromScript, PTL DEF Spec

(* RoomsHoldLiveSockets for every number of clients, handles and rooms,    *)
(* whatever the clients send: until a connection that joined several       *)
(* rooms, or was to leave another room than its own, has been closed, each *)
(* listed handle is that of an open connection and stands in the table     *)
(* once unless that connection joined several rooms (RunSocket, lines      *)
(* 117-175, 200-235 and 277-284).                                          *)
THEOREM HandlesInRoomsAreOpen == Spec => []RoomsHoldLiveSockets
<1>1. HeldInv => RoomsHoldLiveSockets
  <2> SUFFICES ASSUME HeldInv, TidyInv, NEW p \in Places
               PROVE  /\ Open(At(p))
                      /\ \A q \in Places : At(p) = At(q) => p = q \/ JoinedSeveral(owner[At(p)])
    BY DEF HeldInv, RoomsHoldLiveSockets
  <2>1. \A q \in Places : /\ q[1] \in RoomIds /\ q[2] \in 1..Len(rooms[q[1]]) /\ q = <<q[1], q[2]>>
                          /\ At(q) = rooms[q[1]][q[2]] /\ At(q) \in Sockets
    BY PlaceTyped DEF HeldInv, TypeInv, At
  <2>2. Open(At(p))
    BY <2>1 DEF TidyInv, OpenInv, Holds, Contains
  <2>3. ASSUME NEW q \in Places, At(p) = At(q) PROVE p = q \/ JoinedSeveral(owner[At(p)])
    <3>1. (p[1] = q[1] /\ p[2] = q[2]) \/ At(p) \in Spread
      BY <2>1, <2>3 DEF TidyInv, Once
    <3> QED
      BY <2>1, <3>1 DEF Spread
  <2> QED
    BY <2>2, <2>3
<1> QED
  BY <1>1, HeldInvariant, PTL

(* ScanNeverBlocks likewise: until such a connection has been closed the   *)
(* scan calls recv() on a socket it would have to wait for only if the     *)
(* socket's connection joined several rooms (RunSocket, lines 129-235).    *)
THEOREM ScanIsNeverHeldUp == Spec => []ScanNeverBlocks
<1>1. HeldInv => ScanNeverBlocks
  <2> SUFFICES ASSUME HeldInv, TidyInv, pc = "scan", NEW p \in Places, Ahead(p)
               PROVE  HasData(At(p)) \/ Lost(At(p)) \/ JoinedSeveral(owner[At(p)])
    BY DEF HeldInv, ScanNeverBlocks
  <2>1. /\ p[1] \in RoomIds /\ p[2] \in 1..Len(rooms[p[1]]) /\ p = <<p[1], p[2]>>
        /\ At(p) = rooms[p[1]][p[2]] /\ ~Before(p, cur) /\ At(p) \in ready
    BY PlaceTyped DEF HeldInv, TypeInv, Ahead, At
  <2>2. At(p) \in Served \cup Spread
    BY <2>1 DEF TidyInv, AheadInv
  <2> QED
    BY <2>2 DEF Served, Spread
<1> QED
  BY <1>1, HeldInvariant, PTL
-----------------------------------------------------------------------------
(* recv() that returns one packet. *)
LEMMA OnePacketRead ==
  ASSUME TypeInv, MaxBatch = 1, NEW h \in Sockets, HasData(h), Receive(h)
  PROVE  Len(inq'[owner[h]]) = Len(inq[owner[h]]) - 1
<1>1. PICK c \in Clients : c = owner[h]
  BY FirstOfStream
<1>2. inq'[c] = SubSeq(inq[c], 2, Len(inq[c])) /\ Len(inq[c]) >= 1
  <2>1. PICK n \in 1..MaxBatch : /\ n <= Len(inq[c])
                                 /\ inq' = [inq EXCEPT ![c] = SubSeq(@, n + 1, Len(@))]
    BY <1>1 DEF Receive
  <2>2. n = 1 /\ inq \in [Clients -> Seq(Packet)]
    BY DEF TypeInv, TypeOK
  <2> QED
    BY <2>1, <2>2
<1>3. inq[c] \in Seq(Packet)
  BY DEF TypeInv, TypeOK
<1> QED
  BY <1>1, <1>2, <1>3

(* A broadcast in a table without a broken socket reaches all roommates. *)
LEMMA BroadcastReaches ==
  ASSUME TypeInv, Broken \cap Listed = {}, NEW h \in Sockets, NEW message, Broadcast(rooms, h, message),
         NEW g \in Roommates(rooms, h)
  PROVE  message \in In(out'[owner[g]])
<1>1. g \in Sockets /\ g # h /\ rooms \in RoomTable
  BY DEF Roommates, TypeInv, TypeOK
<1>2. PICK r \in RoomIds : Contains(rooms[r], h) /\ Contains(rooms[r], g)
  BY DEF Roommates
<1>3. \A q \in Slots(rooms, h) : rooms[q[1]][q[2]] \notin Broken
  <2> SUFFICES ASSUME NEW q \in Slots(rooms, h) PROVE rooms[q[1]][q[2]] \in Listed
    OBVIOUS
  <2>1. q[1] \in RoomIds /\ q[2] \in 1..Len(rooms[q[1]])
    BY DEF Slots
  <2>2. rooms[q[1]][q[2]] \in Sockets
    BY <1>1, <2>1 DEF RoomTable
  <2> QED
    BY <2>1, <2>2 DEF Listed, Contains
<1>4. PICK i \in 1..Len(rooms[r]) : rooms[r][i] = g
  BY <1>2 DEF Contains
<1>5. <<r, i>> \in Slots(rooms, h)
  BY <1>2 DEF Slots
<1>6. g \in Reached(rooms, h, Broken)
  BY <1>3, <1>4, <1>5 DEF Reached
<1>7. g \notin Broken
  BY <1>1, <1>2 DEF Listed
<1>8. owner[g] \in Clients /\ out[owner[g]] \in Streams
  BY <1>1, <1>7 DEF Broken, Open, TypeInv, TypeOK, Streams
<1>9. out'[owner[g]] = Append(out[owner[g]], message)
  BY <1>6, <1>8 DEF Broadcast, SendTo
<1>10. out'[owner[g]][Len(out[owner[g]]) + 1] = message
       /\ Len(out[owner[g]]) + 1 \in 1..Len(out'[owner[g]])
  BY <1>8, <1>9 DEF Streams
<1> QED
  BY <1>10 DEF In

(* TextReachesRoom when every recv() returns one packet: it is only the    *)
(* coalescing of packets in one recv() that keeps a text from the room     *)
(* (RunSocket, lines 144-175 and 178-187).                                 *)
THEOREM SingleTextsReachRoom ==
  ASSUME MaxBatch = 1
  PROVE  Spec => TextReachesRoom
<1> DEFINE Heard(h) ==
       LET c == owner[h] IN
       pc = "scan" /\ Open(h) /\ link[c] = "up" /\ Broken \cap Listed = {} /\ inq'[c] # inq[c]
       /\ sent' = sent /\ link' = link
       => \A i \in (sent[c] - Len(inq[c]) + 1)..(sent[c] - Len(inq'[c])) :
            script[c][i].type = "TEXT" =>
              \A g \in Roommates(rooms, h) :
                Message("TEXT", c, i) \in {out'[owner[g]][k] : k \in 1..Len(out'[owner[g]])}
<1>1. ASSUME TypeInv, OwnersInv, UnreadInv, SentInv, [Next]_vars PROVE [\A h \in Listed : Heard(h)]_vars
  <2> SUFFICES ASSUME Next, NEW h \in Listed, pc = "scan", Open(h), link[owner[h]] = "up",
                      Broken \cap Listed = {}, inq'[owner[h]] # inq[owner[h]],
                      sent' = sent, link' = link,
                      NEW i \in (sent[owner[h]] - Len(inq[owner[h]]) + 1)..(sent[owner[h]] - Len(inq'[owner[h]])),
                      script[owner[h]][i].type = "TEXT", NEW g \in Roommates(rooms, h)
               PROVE  Message("TEXT", owner[h], i) \in In(out'[owner[g]])
    BY <1>1 DEF In
  <2>1. /\ h \in Sockets /\ owner[h] \in Clients /\ TypeOK
        /\ link \in [Clients -> {"idle", "up", "fin", "rst", "shut"}] /\ sent \in [Clients -> Nat]
        /\ owner \in [Sockets -> Clients \cup {NoClient}] /\ inq \in [Clients -> Seq(Packet)]
    BY <1>1 DEF Listed, Open, TypeInv, TypeOK
  <2>2. Scan
    <3>1. ASSUME NEW c \in Clients PROVE ~Client(c)
      <4>1. CASE ClientConnect(c)
        BY <2>1, <4>1 DEF ClientConnect
      <4>2. CASE ClientSend(c)
        BY <2>1, <4>2 DEF ClientSend
      <4>3. CASE ClientClose(c)
        BY <2>1, <4>3 DEF ClientClose
      <4> QED
        BY <4>1, <4>2, <4>3 DEF Client
    <3>2. inq' # inq
      OBVIOUS
    <3> QED
      BY <3>1, <3>2 DEF Next, Main, Select, SelectTimeout, ScanEnd, Accept, First, Add, Auth, AuthReceive,
                        AuthDeliver, AuthReply, AuthLost, Ended, vars, netVars
  <2>3. PICK p \in Places : Disconnect(p) \/ Text(p) \/ Leave(p) \/ Request(p) \/ Ignore(p)
    BY <2>2 DEF Scan
  <2>4. PICK f \in Sockets : f = At(p)
    BY <2>1, PlaceTyped
  <2>5. Open(f) => owner[f] \in Clients
    BY <2>1 DEF Open
  <2>6. Open(f) => ~Close(f) \/ link[owner[f]] = "shut"
    BY <2>1, <2>5 DEF Close
  <2>7. HasData(f) /\ Receive(f) /\ (Text(p) \/ Head(inq[owner[f]]).type # "TEXT")
    <3>1. CASE Disconnect(p)
      <4>1. Lost(f) /\ Close(f) /\ inq' = (IF Open(f) THEN [inq EXCEPT ![owner[f]] = <<>>] ELSE inq)
        BY <2>4, <3>1 DEF Disconnect
      <4> QED
        BY <2>6, <4>1 DEF Lost
    <3>2. CASE Leave(p)
      <4>1. /\ HasData(f) /\ Head(inq[owner[f]]).type = "LEAVE_ROOM"
            /\ Receive(f) \/ (Close(f) /\ inq' = [inq EXCEPT ![owner[f]] = <<>>])
        BY <2>4, <3>2 DEF Leave
      <4>2. Open(f)
        BY <4>1 DEF HasData
      <4>3. CASE Close(f) /\ inq' = [inq EXCEPT ![owner[f]] = <<>>]
        <5>1. owner[f] = owner[h]
          BY <2>1, <2>5, <4>2, <4>3
        <5> QED
          BY <2>6, <4>2, <4>3, <5>1
      <4> QED
        BY <4>1, <4>3
    <3>3. CASE Text(p) \/ Request(p) \/ Ignore(p)
      BY <2>4, <3>3 DEF Text, Request, Ignore, Requests
    <3> QED
      BY <2>3, <3>1, <3>2, <3>3
  <2>8. f = h
    <3>1. OnlyOf(owner[f])
      BY <1>1, <2>2, <2>7, ReceiveOnlyOf
    <3>2. owner[f] = owner[h]
      BY <2>1, <3>1 DEF OnlyOf
    <3> QED
      BY <1>1, <2>1, <3>2 DEF OwnersInv
  <2>9. PICK c \in Clients : \E k \in 1..sent[c] :
          c = owner[h] /\ k = sent[c] - Len(inq[c]) + 1 /\ script[c][k] = Head(inq[c])
    BY <1>1, <2>1, <2>7, <2>8, ReadPacket
  <2>10. Len(inq'[c]) = Len(inq[c]) - 1 /\ Len(inq[c]) \in Nat /\ sent[c] \in Nat
    BY <1>1, <2>1, <2>7, <2>8, <2>9, OnePacketRead
  <2>11. i = sent[c] - Len(inq[c]) + 1
    BY <2>9, <2>10
  <2>12. Text(p)
    BY <2>7, <2>8, <2>9, <2>11
  <2>13. Broadcast(rooms, h, Message("TEXT", c, i))
    BY <2>4, <2>8, <2>9, <2>11, <2>12 DEF Text
  <2> QED
    BY <1>1, <2>1, <2>9, <2>13, BroadcastReaches
<1>2. TypeInv /\ OwnersInv /\ UnreadInv /\ SentInv /\ [Next]_vars => [\A h \in Listed : Heard(h)]_vars
  BY <1>1
<1>3. Spec => [][\A h \in Listed : Heard(h)]_vars
  BY <1>2, OneHandleEach, UnreadInvariant, SentFromScript, PTL DEF Spec
<1> QED
  BY <1>3 DEF TextReachesRoom
=============================================================================
