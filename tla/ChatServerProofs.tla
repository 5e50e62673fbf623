--------------------------- MODULE ChatServerProofs ---------------------------
(***************************************************************************)
(* Proofs about the chat server for every set of clients, handles and      *)
(* rooms, every script, batch size and FD_SETSIZE.                         *)
(***************************************************************************)
EXTENDS ChatServer, FiniteSetTheorems, TLAPS

(* Nobody's unread packets outnumber the packets that client has sent: the *)
(* number of the text being read is a natural number.                      *)
UnreadWasSent == \A c \in Clients : Len(inq[c]) <= sent[c]

TypeInv == TypeOK /\ UnreadWasSent

Streams == Seq(Chat \cup Response)

LEMMA EraseFirstTyped ==
  ASSUME NEW clients \in Seq(Sockets), NEW s
  PROVE  EraseFirst(clients, s) \in Seq(Sockets)
<1>1. CASE Contains(clients, s)
  <2> DEFINE k == CHOOSE i \in 1..Len(clients) :
                    clients[i] = s /\ \A j \in 1..(i - 1) : clients[j] # s
  <2>1. EraseFirst(clients, s) = [j \in 1..(Len(clients) - 1) |->
                                    IF j < k THEN clients[j] ELSE clients[j + 1]]
    BY <1>1 DEF EraseFirst
  <2>2. Len(clients) - 1 \in Nat
    BY <1>1 DEF Contains
  <2>3. \A j \in 1..(Len(clients) - 1) :
          (IF j < k THEN clients[j] ELSE clients[j + 1]) \in Sockets
    OBVIOUS
  <2> QED
    BY <2>1, <2>2, <2>3
<1>2. CASE ~Contains(clients, s)
  BY <1>2 DEF EraseFirst
<1> QED
  BY <1>1, <1>2

LEMMA TableErased ==
  ASSUME NEW t \in RoomTable, NEW r \in RoomIds, NEW s
  PROVE  [t EXCEPT ![r] = EraseFirst(@, s)] \in RoomTable
  BY EraseFirstTyped DEF RoomTable

LEMMA SentTyped ==
  ASSUME TypeOK, NEW to, NEW packet \in Chat \cup Response, SendTo(to, packet)
  PROVE  out' \in [Clients -> Streams]
  BY DEF TypeOK, SendTo, Streams

LEMMA ReceivedTyped ==
  ASSUME TypeInv, NEW h \in Sockets, HasData(h), Receive(h), sent' = sent
  PROVE  /\ inq' \in [Clients -> Seq(Packet)]
         /\ UnreadWasSent'
<1> DEFINE c == owner[h]
<1>1. c \in Clients
  BY DEF TypeInv, TypeOK, HasData, Open
<1>2. PICK n \in 1..MaxBatch : /\ n <= Len(inq[c])
                               /\ inq' = [inq EXCEPT ![c] = SubSeq(@, n + 1, Len(@))]
  BY DEF Receive
<1>3. /\ SubSeq(inq[c], n + 1, Len(inq[c])) \in Seq(Packet)
      /\ Len(SubSeq(inq[c], n + 1, Len(inq[c]))) <= Len(inq[c])
  BY <1>1, <1>2, ServerAssumption DEF TypeInv, TypeOK
<1>4. sent \in [Clients -> Nat] /\ inq \in [Clients -> Seq(Packet)]
  BY DEF TypeInv, TypeOK
<1>5. \A d \in Clients : Len(inq'[d]) <= Len(inq[d])
  BY <1>1, <1>2, <1>3, <1>4
<1>6. inq' \in [Clients -> Seq(Packet)]
  BY <1>1, <1>2, <1>3, <1>4
<1> QED
  BY <1>4, <1>5, <1>6 DEF TypeInv, UnreadWasSent
LEMMA FirstOfStream ==
  ASSUME TypeInv, NEW h \in Sockets, HasData(h)
  PROVE  /\ owner[h] \in Clients
         /\ inq[owner[h]] \in Seq(Packet)
         /\ Head(inq[owner[h]]) \in Packet
         /\ sent[owner[h]] - Len(inq[owner[h]]) + 1 \in Nat
<1>1. owner[h] \in Clients
  BY DEF TypeInv, TypeOK, HasData, Open
<1>2. /\ inq[owner[h]] \in Seq(Packet)
      /\ inq[owner[h]] # <<>>
      /\ sent[owner[h]] \in Nat
      /\ Len(inq[owner[h]]) <= sent[owner[h]]
  BY <1>1 DEF TypeInv, TypeOK, UnreadWasSent, HasData
<1> QED
  BY <1>1, <1>2

LEMMA ForwardedTyped ==
  ASSUME TypeInv, NEW h \in Sockets, HasData(h),
         Head(inq[owner[h]]).type \in Requests, Forward(h)
  PROVE  toAuth' \in Seq(Forwarded)
<1> DEFINE request == [type |-> Head(inq[owner[h]]).type, id |-> h, by |-> owner[h]]
<1>1. request \in Forwarded
  BY FirstOfStream DEF Forwarded
<1>2. toAuth' = toAuth \/ toAuth' = Append(toAuth, request)
  BY DEF Forward
<1>3. toAuth \in Seq(Forwarded)
  BY DEF TypeInv, TypeOK
<1> HIDE DEF request
<1> QED
  BY <1>1, <1>2, <1>3

LEMMA PlacesFinite ==
  ASSUME rooms \in RoomTable
  PROVE  IsFiniteSet(Places)
<1> DEFINE f == [r \in RoomIds |-> {r} \X (1..Len(rooms[r]))]
           S == {{r} \X (1..Len(rooms[r])) : r \in RoomIds}
<1>1. IsFiniteSet(RoomIds)
  BY RoomsAssumption, FS_Interval DEF RoomIds
<1>2. f \in Surjection(RoomIds, S)
  BY DEF Surjection
<1>3. IsFiniteSet(S)
  BY <1>1, <1>2, FS_Surjection
<1>4. ASSUME NEW r \in RoomIds PROVE IsFiniteSet({r} \X (1..Len(rooms[r])))
  <2>1. Len(rooms[r]) \in Nat
    BY DEF RoomTable
  <2>2. IsFiniteSet({r}) /\ IsFiniteSet(1..Len(rooms[r]))
    <3>1. IsFiniteSet({r})
      BY FS_Singleton
    <3>2. IsFiniteSet(1..Len(rooms[r]))
      BY <2>1, FS_Interval
    <3> QED
      BY <3>1, <3>2
  <2> QED
    BY <2>2, FS_Product
<1> QED
  BY <1>3, <1>4, FS_UNION DEF Places

LEMMA CopiesNatural ==
  ASSUME TypeOK, NEW h
  PROVE  Listings(h) \in Nat
<1>1. IsFiniteSet({p \in Places : At(p) = h})
  BY PlacesFinite, FS_Subset DEF TypeOK
<1> QED
  BY <1>1, FS_CardinalityType DEF Listings

LEMMA RelayedTyped ==
  ASSUME TypeOK, NEW m \in Response, NEW copies \in Nat, Relay(m, copies)
  PROVE  out' \in [Clients -> Streams]
<1>1. [i \in 1..copies |-> m] \in Streams
  BY DEF Streams
<1>2. \A c \in Clients : out[c] \o [i \in 1..copies |-> m] \in Streams
  BY <1>1 DEF TypeOK, Streams
<1> QED
  BY <1>2 DEF TypeOK, Relay, Streams

(* The places a JOIN_ROOM adds: as many as it names the room. *)
LEMMA JoinedTyped ==
  ASSUME TypeOK, NEW h \in Sockets, NEW wanted \in Seq(RoomIds)
  PROVE  [r \in RoomIds |->
            rooms[r] \o [i \in 1..Cardinality({j \in 1..Len(wanted) : wanted[j] = r}) |-> h]]
         \in RoomTable
<1> SUFFICES ASSUME NEW r \in RoomIds
             PROVE  rooms[r] \o [i \in 1..Cardinality({j \in 1..Len(wanted) : wanted[j] = r}) |-> h]
                    \in Seq(Sockets)
  BY DEF RoomTable
<1> DEFINE n == Cardinality({j \in 1..Len(wanted) : wanted[j] = r})
<1>1. n \in Nat
  <2>1. IsFiniteSet(1..Len(wanted))
    BY FS_Interval
  <2>2. IsFiniteSet({j \in 1..Len(wanted) : wanted[j] = r})
    BY <2>1, FS_Subset
  <2> QED
    BY <2>2, FS_CardinalityType
<1> HIDE DEF n
<1>2. [i \in 1..n |-> h] \in Seq(Sockets)
  BY <1>1
<1> QED
  BY <1>2 DEF TypeOK, RoomTable, n
-----------------------------------------------------------------------------
LEMMA InitTyped == Init => TypeInv
<1> SUFFICES ASSUME Init PROVE TypeInv
  OBVIOUS
<1>1. TypeOK
  <2>1. rooms \in RoomTable
    BY DEF Init, RoomTable
  <2>2. cur \in RoomIds \X (Nat \ {0})
    BY RoomsAssumption DEF Init, RoomIds
  <2>3. out \in [Clients -> Seq(Chat \cup Response)] /\ inq \in [Clients -> Seq(Packet)]
    BY DEF Init
  <2>4. /\ owner \in [Sockets -> Clients \cup {NoClient}]
        /\ script \in [Clients -> Scripts] /\ sent \in [Clients -> Nat]
        /\ link \in [Clients -> {"idle", "up", "fin", "rst", "shut"}]
    BY DEF Init
  <2>5. backlog \in Seq(Clients) /\ toAuth \in Seq(Forwarded) /\ fromAuth \in Seq(Response)
    BY DEF Init
  <2> QED
    BY <2>1, <2>2, <2>3, <2>4, <2>5 DEF Init, TypeOK
<1>2. UnreadWasSent
  BY DEF Init, UnreadWasSent
<1> QED
  BY <1>1, <1>2 DEF TypeInv

LEMMA PlaceTyped ==
  ASSUME TypeOK, NEW p \in Places
  PROVE  /\ p[1] \in RoomIds /\ p[2] \in 1..Len(rooms[p[1]]) /\ p = <<p[1], p[2]>>
         /\ At(p) \in Sockets
         /\ p \in RoomIds \X (Nat \ {0})
         /\ Further(p) \in RoomIds \X (Nat \ {0})
         /\ Again(p) \in RoomIds \X (Nat \ {0})
<1>1. PICK r \in RoomIds : p \in {r} \X (1..Len(rooms[r]))
  BY DEF Places
<1>2. rooms[r] \in Seq(Sockets)
  BY DEF TypeOK, RoomTable
<1>3. p[1] = r /\ p[2] \in 1..Len(rooms[r]) /\ p = <<p[1], p[2]>>
  BY <1>1
<1> QED
  BY <1>2, <1>3 DEF At, Further, Again

(* Closing a handle and forgetting what was unread behind it. *)
LEMMA ClosedTyped ==
  ASSUME TypeInv, NEW h \in Sockets, Close(h), sent' = sent,
         inq' = IF Open(h) THEN [inq EXCEPT ![owner[h]] = <<>>] ELSE inq
  PROVE  /\ owner' \in [Sockets -> Clients \cup {NoClient}]
         /\ link' \in [Clients -> {"idle", "up", "fin", "rst", "shut"}]
         /\ inq' \in [Clients -> Seq(Packet)]
         /\ UnreadWasSent'
<1> USE DEF TypeInv, TypeOK
<1>1. owner' \in [Sockets -> Clients \cup {NoClient}]
  BY DEF Close
<1>2. link' \in [Clients -> {"idle", "up", "fin", "rst", "shut"}]
  BY DEF Close
<1>3. inq' \in [Clients -> Seq(Packet)]
  BY DEF Open
<1>4. UnreadWasSent'
  <2> SUFFICES ASSUME NEW c \in Clients PROVE Len(inq'[c]) <= sent[c]
    BY DEF UnreadWasSent
  <2>1. inq'[c] = inq[c] \/ inq'[c] = <<>>
    OBVIOUS
  <2> QED
    BY <2>1 DEF UnreadWasSent
<1> QED
  BY <1>1, <1>2, <1>3, <1>4

LEMMA NoticeTyped ==
  ASSUME TypeOK, NEW h \in Sockets
  PROVE  Notice(h) \in Chat /\ Message("NOTIFICATION", NoClient, 0) \in Chat
  BY DEF TypeOK, Notice, Message, Chat

LEMMA BroadcastTyped ==
  ASSUME TypeOK, NEW table, NEW h, NEW packet \in Chat, Broadcast(table, h, packet)
  PROVE  out' \in [Clients -> Seq(Chat \cup Response)]
  BY SentTyped DEF Broadcast, Streams

(* One turn of the scan, whatever the socket at its place holds. *)
LEMMA ScanTyped ==
  ASSUME TypeInv, Scan
  PROVE  TypeInv'
<1> PICK p \in Places : /\ NextPlace(p)
                        /\ Disconnect(p) \/ Text(p) \/ Leave(p) \/ Request(p) \/ Ignore(p)
  BY DEF Scan
<1> DEFINE h == At(p)
<1>1. /\ p[1] \in RoomIds /\ h \in Sockets
      /\ Further(p) \in RoomIds \X (Nat \ {0})
      /\ Again(p) \in RoomIds \X (Nat \ {0})
  BY PlaceTyped DEF TypeInv
<1>2. /\ UNCHANGED <<pc, avail, fresh, apc, amsg, alive, script, sent, backlog, fromAuth, authUp>>
  BY DEF Scan, authVars, clientVars
<1>3. CASE Disconnect(p)
  <2>1. rooms' \in RoomTable /\ raced' \in BOOLEAN
    BY <1>1, <1>3, TableErased DEF Disconnect, ChangeRooms, Removed, TypeInv, TypeOK
  <2>2. out' \in [Clients -> Seq(Chat \cup Response)]
    BY <1>1, <1>3, NoticeTyped, BroadcastTyped DEF Disconnect, TypeInv
  <2>3. /\ owner' \in [Sockets -> Clients \cup {NoClient}]
        /\ link' \in [Clients -> {"idle", "up", "fin", "rst", "shut"}]
        /\ inq' \in [Clients -> Seq(Packet)]
        /\ UnreadWasSent'
    BY <1>1, <1>2, <1>3, ClosedTyped DEF Disconnect
  <2>4. cur' \in RoomIds \X (Nat \ {0}) /\ UNCHANGED <<ready, toAuth>>
    BY <1>1, <1>3 DEF Disconnect
  <2> QED
    BY <1>2, <2>1, <2>2, <2>3, <2>4 DEF TypeInv, TypeOK
<1>4. CASE Text(p)
  <2>1. HasData(h) /\ Receive(h)
    BY <1>4 DEF Text
  <2>2. Message("TEXT", owner[h], sent[owner[h]] - Len(inq[owner[h]]) + 1) \in Chat
    BY <1>1, <2>1, FirstOfStream DEF Message, Chat
  <2>3. out' \in [Clients -> Seq(Chat \cup Response)]
    BY <1>4, <2>2, BroadcastTyped DEF Text, TypeInv
  <2>4. inq' \in [Clients -> Seq(Packet)] /\ UnreadWasSent'
    BY <1>1, <1>2, <2>1, ReceivedTyped
  <2>5. /\ cur' \in RoomIds \X (Nat \ {0})
        /\ UNCHANGED <<rooms, raced, owner, link, ready, toAuth>>
    BY <1>1, <1>4 DEF Text
  <2> QED
    BY <1>2, <2>3, <2>4, <2>5 DEF TypeInv, TypeOK
<1>5. CASE Leave(p)
  <2> DEFINE room == Head(Head(inq[owner[h]]).arg)
  <2>1. HasData(h) /\ Head(inq[owner[h]]).type = "LEAVE_ROOM"
    BY <1>5 DEF Leave
  <2>2. rooms' = [rooms EXCEPT ![room] = EraseFirst(@, h)] /\ raced' \in BOOLEAN
    BY <1>5 DEF Leave, ChangeRooms, AfterLeaving, TypeInv, TypeOK
  <2>3. rooms' \in RoomTable
    <3>1. CASE room \in RoomIds
      BY <2>2, <3>1, TableErased DEF TypeInv, TypeOK
    <3>2. CASE room \notin RoomIds
      BY <2>2, <3>2 DEF TypeInv, TypeOK, RoomTable
    <3> QED
      BY <3>1, <3>2
  <2>4. out' \in [Clients -> Seq(Chat \cup Response)]
    BY <1>1, <1>5, NoticeTyped, BroadcastTyped DEF Leave, TypeInv
  <2>5. cur' \in RoomIds \X (Nat \ {0}) /\ UNCHANGED toAuth
    BY <1>1, <1>5 DEF Leave
  <2>6. CASE Contains(rooms[room], h)
    <3>1. Receive(h) /\ UNCHANGED <<owner, link, ready>>
      BY <1>5, <2>6 DEF Leave
    <3>2. inq' \in [Clients -> Seq(Packet)] /\ UnreadWasSent'
      BY <1>1, <1>2, <2>1, <3>1, ReceivedTyped
    <3> QED
      BY <1>2, <2>2, <2>3, <2>4, <2>5, <3>1, <3>2 DEF TypeInv, TypeOK
  <2>7. CASE ~Contains(rooms[room], h)
    <3>1. Close(h) /\ ready' = ready \ {h} /\ inq' = [inq EXCEPT ![owner[h]] = <<>>]
      BY <1>5, <2>7 DEF Leave
    <3>2. Open(h)
      BY <2>1 DEF HasData
    <3>3. /\ owner' \in [Sockets -> Clients \cup {NoClient}]
          /\ link' \in [Clients -> {"idle", "up", "fin", "rst", "shut"}]
          /\ inq' \in [Clients -> Seq(Packet)]
          /\ UnreadWasSent'
      BY <1>1, <1>2, <3>1, <3>2, ClosedTyped
    <3> QED
      BY <1>2, <2>2, <2>3, <2>4, <2>5, <3>1, <3>3 DEF TypeInv, TypeOK
  <2> QED
    BY <2>6, <2>7
<1>6. CASE Request(p)
  <2>1. HasData(h) /\ Receive(h) /\ Forward(h) /\ Head(inq[owner[h]]).type \in Requests
    BY <1>6 DEF Request
  <2>2. toAuth' \in Seq(Forwarded)
    BY <1>1, <2>1, ForwardedTyped
  <2>3. inq' \in [Clients -> Seq(Packet)] /\ UnreadWasSent'
    BY <1>1, <1>2, <2>1, ReceivedTyped
  <2>4. /\ cur' \in RoomIds \X (Nat \ {0})
        /\ UNCHANGED <<rooms, raced, owner, link, out, ready>>
    BY <1>1, <1>6 DEF Request
  <2> QED
    BY <1>2, <2>2, <2>3, <2>4 DEF TypeInv, TypeOK
<1>7. CASE Ignore(p)
  <2>1. HasData(h) /\ Receive(h)
    BY <1>7 DEF Ignore
  <2>2. inq' \in [Clients -> Seq(Packet)] /\ UnreadWasSent'
    BY <1>1, <1>2, <2>1, ReceivedTyped
  <2>3. /\ cur' \in RoomIds \X (Nat \ {0})
        /\ UNCHANGED <<rooms, raced, owner, link, out, ready, toAuth>>
    BY <1>1, <1>7 DEF Ignore
  <2> QED
    BY <1>2, <2>2, <2>3 DEF TypeInv, TypeOK
<1> QED
  BY <1>3, <1>4, <1>5, <1>6, <1>7

(* accept() and the handling of the first packet. *)
LEMMA AcceptTyped ==
  ASSUME TypeInv, Accept
  PROVE  TypeInv'
<1>1. backlog # <<>> /\ backlog \in Seq(Clients) /\ backlog' = Tail(backlog)
  BY DEF Accept, TypeInv, TypeOK
<1>2. Head(backlog) \in Clients /\ backlog' \in Seq(Clients)
  BY <1>1
<1>3. UNCHANGED <<rooms, cur, ready, avail, apc, amsg, raced, alive, script, sent, link, inq,
                  out, toAuth, fromAuth, authUp>>
  BY DEF Accept, authVars, clientVars
<1>4. UnreadWasSent'
  BY <1>3 DEF TypeInv, UnreadWasSent
<1>5. CASE \E h \in Sockets : /\ ~Open(h)
                              /\ owner' = [owner EXCEPT ![h] = Head(backlog)]
                              /\ fresh' = {h}
                              /\ pc' = "first"
  BY <1>2, <1>3, <1>4, <1>5 DEF TypeInv, TypeOK
<1>6. CASE pc' = "select" /\ UNCHANGED <<owner, fresh>>
  BY <1>2, <1>3, <1>4, <1>6 DEF TypeInv, TypeOK, Accept
<1> QED
  BY <1>5, <1>6 DEF Accept

LEMMA FirstTyped ==
  ASSUME TypeInv, First
  PROVE  TypeInv'
<1> PICK h \in fresh : FirstRequest(h) \/ JoinRoom(h) \/ FirstIgnored(h)
  BY DEF First
<1>1. h \in Sockets /\ fresh \in SUBSET Sockets /\ fresh # {}
  BY DEF TypeInv, TypeOK
<1>2. UNCHANGED <<owner, cur, ready, avail, apc, amsg, alive, script, sent, link, backlog, fromAuth, authUp>>
  BY DEF First, authVars, clientVars
<1>3. CASE FirstRequest(h)
  <2>1. /\ HasData(h) /\ Head(inq[owner[h]]).type \in Requests
        /\ Forward(h) /\ Receive(h)
        /\ pc' = "add" /\ UNCHANGED <<rooms, raced, out, fresh>>
    BY <1>3 DEF FirstRequest
  <2>2. toAuth' \in Seq(Forwarded)
    BY <1>1, <2>1, ForwardedTyped
  <2>3. inq' \in [Clients -> Seq(Packet)] /\ UnreadWasSent'
    BY <1>1, <1>2, <2>1, ReceivedTyped
  <2> QED
    BY <1>1, <1>2, <2>1, <2>2, <2>3 DEF TypeInv, TypeOK
<1>4. CASE JoinRoom(h)
  <2> DEFINE wanted == Head(inq[owner[h]]).arg
             table == [r \in RoomIds |->
                         rooms[r] \o [i \in 1..Cardinality({j \in 1..Len(wanted) : wanted[j] = r}) |-> h]]
  <2>1. /\ HasData(h) /\ Receive(h)
        /\ ChangeRooms(table) /\ Broadcast(table, h, Notice(h))
        /\ pc' = "select" /\ fresh' = {} /\ UNCHANGED toAuth
    BY <1>4 DEF JoinRoom
  <2>2. wanted \in Seq(RoomIds)
    BY <1>1, <2>1, FirstOfStream DEF Packet
  <2>3. table \in RoomTable
    BY <1>1, <2>2, JoinedTyped DEF TypeInv
  <2> HIDE DEF table
  <2>4. rooms' \in RoomTable /\ raced' \in BOOLEAN
    BY <2>1, <2>3 DEF ChangeRooms, TypeInv, TypeOK
  <2>5. out' \in [Clients -> Seq(Chat \cup Response)]
    BY <1>1, <2>1, NoticeTyped, BroadcastTyped DEF TypeInv
  <2>6. inq' \in [Clients -> Seq(Packet)] /\ UnreadWasSent'
    BY <1>1, <1>2, <2>1, ReceivedTyped
  <2> QED
    BY <1>2, <2>1, <2>4, <2>5, <2>6 DEF TypeInv, TypeOK
<1>5. CASE FirstIgnored(h)
  <2>1. pc' = "select" /\ fresh' = {} /\ UNCHANGED <<rooms, raced, out, toAuth>>
    BY <1>5 DEF FirstIgnored
  <2>2. inq' \in [Clients -> Seq(Packet)] /\ UnreadWasSent'
    <3>1. CASE UNCHANGED inq
      BY <1>2, <3>1 DEF TypeInv, TypeOK, UnreadWasSent
    <3>2. CASE HasData(h) /\ Receive(h)
      BY <1>1, <1>2, <3>2, ReceivedTyped
    <3> QED
      BY <1>5, <3>1, <3>2 DEF FirstIgnored
  <2> QED
    BY <1>2, <2>1, <2>2 DEF TypeInv, TypeOK
<1> QED
  BY <1>3, <1>4, <1>5

(* The remaining steps of the main thread. *)
LEMMA MainTyped ==
  ASSUME TypeInv, Main
  PROVE  TypeInv'
<1> USE DEF TypeInv, mainVars, authVars, clientVars, netVars
<1>1. CASE Select
  <2>1. Polled \subseteq Sockets
    BY DEF Polled, Listed
  <2>2. ready' \in SUBSET Sockets /\ avail' \in BOOLEAN
    BY <1>1, <2>1 DEF Select
  <2>3. pc = "select" /\ pc' = "scan" /\ cur' = <<1, 1>> /\ cur' \in RoomIds \X (Nat \ {0})
    BY <1>1, RoomsAssumption DEF Select, RoomIds
  <2>4. UNCHANGED <<rooms, owner, fresh, apc, amsg, raced, alive, script, sent, link, inq, out,
                    backlog, toAuth, fromAuth, authUp>>
    BY <1>1 DEF Select
  <2> QED
    BY <2>2, <2>3, <2>4 DEF TypeOK, UnreadWasSent
<1>2. CASE SelectTimeout
  BY <1>2 DEF SelectTimeout, vars, TypeOK, UnreadWasSent
<1>3. CASE Scan
  BY <1>3, ScanTyped
<1>4. CASE ScanEnd
  BY <1>4 DEF ScanEnd, TypeOK, UnreadWasSent
<1>5. CASE Accept
  BY <1>5, AcceptTyped
<1>6. CASE First
  BY <1>6, FirstTyped
<1>7. CASE Add
  <2>1. PICK h \in fresh : ChangeRooms([rooms EXCEPT ![Lobby] = Append(@, h)])
    BY <1>7 DEF Add
  <2>2. rooms' \in RoomTable /\ raced' \in BOOLEAN
    <3>1. h \in Sockets /\ rooms[Lobby] \in Seq(Sockets)
      BY RoomsAssumption DEF TypeOK, RoomTable, Lobby, RoomIds
    <3>2. Append(rooms[Lobby], h) \in Seq(Sockets)
      BY <3>1
    <3> QED
      BY <2>1, <3>2 DEF ChangeRooms, RoomTable, TypeOK
  <2>3. /\ pc' = "select" /\ fresh' = {}
        /\ UNCHANGED <<owner, cur, ready, avail, apc, amsg, alive, script, sent, link, inq, out,
                       backlog, toAuth, fromAuth, authUp>>
    BY <1>7 DEF Add
  <2> QED
    BY <2>2, <2>3 DEF TypeOK, UnreadWasSent
<1> QED
  BY <1>1, <1>2, <1>3, <1>4, <1>5, <1>6, <1>7 DEF Main

LEMMA AuthTyped ==
  ASSUME TypeInv, Auth \/ AuthReply \/ AuthLost
  PROVE  TypeInv'
<1> USE DEF TypeInv, mainVars, authVars, clientVars, netVars
<1>1. CASE AuthReceive
  <2>1. PICK n \in 1..MaxBatch : /\ n <= Len(fromAuth)
                                 /\ fromAuth' = SubSeq(fromAuth, n + 1, Len(fromAuth))
    BY <1>1 DEF AuthReceive
  <2>2. fromAuth \in Seq(Response) /\ n \in Nat \ {0}
    BY ServerAssumption DEF TypeOK
  <2>3. fromAuth' \in Seq(Response) /\ Head(fromAuth) \in Response
    BY <2>1, <2>2
  <2>4. /\ amsg' = {Head(fromAuth)} /\ apc' = "scan" /\ raced' = FALSE
        /\ UNCHANGED <<rooms, owner, pc, cur, ready, avail, fresh, alive, script, sent, link, inq,
                       out, backlog, toAuth, authUp>>
    BY <1>1 DEF AuthReceive
  <2> QED
    BY <2>3, <2>4 DEF TypeOK, UnreadWasSent
<1>2. CASE AuthDeliver
  <2>1. PICK m \in amsg :
          IF ~raced
          THEN Relay(m, Listings(m.id)) /\ UNCHANGED alive
          ELSE \/ \E n \in 0..2 : Relay(m, n) /\ UNCHANGED alive
               \/ alive' = FALSE /\ UNCHANGED out
    BY <1>2 DEF AuthDeliver, TypeOK
  <2>2. m \in Response
    BY DEF TypeOK
  <2>3. alive' \in BOOLEAN /\ out' \in [Clients -> Seq(Chat \cup Response)]
    <3>1. CASE \E n \in Nat : Relay(m, n) /\ UNCHANGED alive
      <4>1. PICK n \in Nat : Relay(m, n) /\ UNCHANGED alive
        BY <3>1
      <4>2. out' \in [Clients -> Seq(Chat \cup Response)]
        BY <2>2, <4>1, RelayedTyped DEF Streams
      <4> QED
        BY <4>1, <4>2 DEF TypeOK
    <3>2. CASE alive' = FALSE /\ UNCHANGED out
      BY <3>2 DEF TypeOK
    <3>3. CASE ~raced
      <4>1. Listings(m.id) \in Nat /\ Relay(m, Listings(m.id)) /\ UNCHANGED alive
        BY <2>1, <3>3, CopiesNatural
      <4> QED
        BY <3>1, <4>1
    <3>4. CASE raced
      <4>1. \/ \E n \in 0..2 : Relay(m, n) /\ UNCHANGED alive
            \/ alive' = FALSE /\ UNCHANGED out
        BY <2>1, <3>4
      <4>2. \A n \in 0..2 : n \in Nat
        OBVIOUS
      <4> QED
        BY <3>1, <3>2, <4>1, <4>2
    <3> QED
      BY <3>3, <3>4
  <2>4. /\ apc' = "recv" /\ amsg' = {} /\ raced' = FALSE
        /\ UNCHANGED <<rooms, owner, pc, cur, ready, avail, fresh, script, sent, link, inq,
                       backlog, toAuth, fromAuth, authUp>>
    BY <1>2 DEF AuthDeliver
  <2> QED
    BY <2>3, <2>4 DEF TypeOK, UnreadWasSent
<1>3. CASE AuthReply
  <2>1. PICK n \in 1..MaxBatch : /\ n <= Len(toAuth)
                                 /\ toAuth' = SubSeq(toAuth, n + 1, Len(toAuth))
    BY <1>3 DEF AuthReply
  <2>2. PICK ok \in BOOLEAN : fromAuth' = Append(fromAuth, Answer(Head(toAuth), ok))
    BY <1>3 DEF AuthReply
  <2>3. toAuth \in Seq(Forwarded) /\ n \in Nat \ {0}
    BY ServerAssumption DEF TypeOK
  <2>4. toAuth' \in Seq(Forwarded) /\ Head(toAuth) \in Forwarded
    BY <2>1, <2>3
  <2>5. Answer(Head(toAuth), ok) \in Response
    BY <2>4 DEF Answer, Forwarded, Response, Responses
  <2>6. fromAuth' \in Seq(Response)
    BY <2>2, <2>5 DEF TypeOK
  <2>7. UNCHANGED <<rooms, owner, pc, cur, ready, avail, fresh, apc, amsg, raced, alive, script,
                    sent, link, inq, out, backlog, authUp>>
    BY <1>3 DEF AuthReply
  <2> QED
    BY <2>4, <2>6, <2>7 DEF TypeOK, UnreadWasSent
<1>4. CASE AuthLost
  <2>1. /\ authUp' = FALSE /\ toAuth' = <<>> /\ fromAuth' \in {fromAuth, <<>>}
        /\ UNCHANGED <<rooms, owner, pc, cur, ready, avail, fresh, apc, amsg, raced, alive, script,
                       sent, link, inq, out, backlog>>
    BY <1>4 DEF AuthLost
  <2>2. toAuth' \in Seq(Forwarded) /\ fromAuth' \in Seq(Response) /\ authUp' \in BOOLEAN
    <3>1. toAuth' = <<>> /\ fromAuth \in Seq(Response) /\ (fromAuth' = fromAuth \/ fromAuth' = <<>>)
      BY <2>1 DEF TypeOK
    <3>2. authUp' = FALSE
      BY <2>1
    <3>3. <<>> \in Seq(Forwarded) /\ <<>> \in Seq(Response)
      OBVIOUS
    <3> QED
      BY <3>1, <3>2, <3>3
  <2> QED
    BY <2>1, <2>2 DEF TypeOK, UnreadWasSent
<1> QED
  BY <1>1, <1>2, <1>3, <1>4 DEF Auth

LEMMA ClientTyped ==
  ASSUME TypeInv, NEW c \in Clients, Client(c)
  PROVE  TypeInv'
<1> USE DEF TypeInv, mainVars, authVars, clientVars, netVars
<1>1. CASE ClientConnect(c)
  <2>1. /\ link' = [link EXCEPT ![c] = "up"] /\ backlog' = Append(backlog, c)
        /\ UNCHANGED <<rooms, owner, pc, cur, ready, avail, fresh, apc, amsg, raced, alive,
                       script, sent, inq, out, toAuth, fromAuth, authUp>>
    BY <1>1 DEF ClientConnect
  <2>2. link' \in [Clients -> {"idle", "up", "fin", "rst", "shut"}]
    BY <2>1 DEF TypeOK
  <2>3. backlog' \in Seq(Clients)
    BY <2>1 DEF TypeOK
  <2> QED
    BY <2>1, <2>2, <2>3 DEF TypeOK, UnreadWasSent
<1>2. CASE ClientSend(c)
  <2>1. /\ sent[c] < Len(script[c]) /\ sent' = [sent EXCEPT ![c] = @ + 1]
        /\ inq' = [inq EXCEPT ![c] = Append(@, script[c][sent'[c]])]
        /\ UNCHANGED <<rooms, owner, pc, cur, ready, avail, fresh, apc, amsg, raced, alive,
                       script, link, out, backlog, toAuth, fromAuth, authUp>>
    BY <1>2 DEF ClientSend
  <2>2. script[c] \in Seq(Packet) /\ sent[c] \in Nat
    BY ServerAssumption DEF TypeOK
  <2>3. sent'[c] \in 1..Len(script[c]) /\ sent'[c] = sent[c] + 1
    BY <2>1, <2>2 DEF TypeOK
  <2>4. script[c][sent'[c]] \in Packet
    BY <2>2, <2>3
  <2>5. inq' \in [Clients -> Seq(Packet)] /\ sent' \in [Clients -> Nat]
    <3>1. inq[c] \in Seq(Packet) /\ inq \in [Clients -> Seq(Packet)]
      BY DEF TypeOK
    <3>2. Append(inq[c], script[c][sent'[c]]) \in Seq(Packet)
      BY <2>4, <3>1
    <3>3. inq' \in [Clients -> Seq(Packet)]
      BY <2>1, <3>1, <3>2
    <3>4. sent' \in [Clients -> Nat]
      BY <2>1, <2>2 DEF TypeOK
    <3> QED
      BY <3>3, <3>4
  <2>6. UnreadWasSent'
    <3> SUFFICES ASSUME NEW d \in Clients PROVE Len(inq'[d]) <= sent'[d]
      BY DEF UnreadWasSent
    <3>1. CASE d = c
      <4>1. inq'[c] = Append(inq[c], script[c][sent'[c]]) /\ inq[c] \in Seq(Packet)
        BY <2>1 DEF TypeOK
      <4>2. Len(inq'[c]) = Len(inq[c]) + 1
        BY <2>4, <4>1
      <4> QED
        BY <2>2, <2>3, <3>1, <4>1, <4>2 DEF UnreadWasSent
    <3>2. CASE d # c
      BY <2>1, <3>2 DEF TypeOK, UnreadWasSent
    <3> QED
      BY <3>1, <3>2
  <2> QED
    BY <2>1, <2>5, <2>6 DEF TypeOK
<1>3. CASE ClientClose(c)
  <2>1. /\ link' \in [Clients -> {"idle", "up", "fin", "rst", "shut"}]
        /\ inq' = inq \/ inq' = [inq EXCEPT ![c] = <<>>]
        /\ UNCHANGED <<rooms, owner, pc, cur, ready, avail, fresh, apc, amsg, raced, alive,
                       script, sent, out, backlog, toAuth, fromAuth, authUp>>
    BY <1>3 DEF ClientClose, TypeOK
  <2>2. inq \in [Clients -> Seq(Packet)] /\ <<>> \in Seq(Packet)
    BY DEF TypeOK
  <2>3. inq' \in [Clients -> Seq(Packet)] /\ \A d \in Clients : Len(inq'[d]) <= Len(inq[d])
    <3>1. CASE inq' = inq
      BY <2>2, <3>1
    <3>2. CASE inq' = [inq EXCEPT ![c] = <<>>]
      BY <2>2, <3>2
    <3> QED
      BY <2>1, <3>1, <3>2
  <2>4. sent \in [Clients -> Nat] /\ sent' = sent
    BY <2>1 DEF TypeOK
  <2>5. UnreadWasSent'
    <3> SUFFICES ASSUME NEW d \in Clients PROVE Len(inq'[d]) <= sent[d]
      BY <2>4 DEF UnreadWasSent
    <3>1. Len(inq[d]) <= sent[d] /\ Len(inq'[d]) <= Len(inq[d])
      BY <2>3 DEF UnreadWasSent
    <3> QED
      BY <2>2, <2>3, <2>4, <3>1
  <2> QED
    BY <2>1, <2>3, <2>5 DEF TypeOK
<1> QED
  BY <1>1, <1>2, <1>3 DEF Client

LEMMA NextTyped == TypeInv /\ [Next]_vars => TypeInv'
<1> SUFFICES ASSUME TypeInv, [Next]_vars PROVE TypeInv'
  OBVIOUS
<1>1. CASE Ended \/ UNCHANGED vars
  BY <1>1 DEF Ended, vars, mainVars, authVars, clientVars, netVars, TypeInv, TypeOK, UnreadWasSent
<1> QED
  BY <1>1, MainTyped, AuthTyped, ClientTyped DEF Next

(* The state of the chat server stays well typed: handles in the table are *)
(* handles, every packet read is one a client sent, and the main thread    *)
(* holds a new connection exactly between accept() and its end.            *)
THEOREM Typed == Spec => []TypeOK
<1>1. TypeInv => TypeOK
  BY DEF TypeInv
<1> QED
  BY <1>1, InitTyped, NextTyped, PTL DEF Spec
=============================================================================
