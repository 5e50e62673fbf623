--------------------------- MODULE ChatStreamsProofs ---------------------------
(***************************************************************************)
(* Proofs about what the chat server sends to its clients: texts come in   *)
(* order and answers to the connection that asked, for every set of        *)
(* clients and handles, every script and batch size, data races included.  *)
(***************************************************************************)
EXTENDS ChatServerProofs

(* How many packets of client c the server has taken from its stream. *)
Read(c) == sent[c] - Len(inq[c])
ReadNext(c) == sent'[c] - Len(inq'[c])

In(q) == {q[i] : i \in 1..Len(q)}

(* The connection that asked is still behind the handle in the message, or *)
(* has been closed by the server.                                          *)
Traced(m) == owner[m.id] = m.by \/ link[m.by] = "shut"

AskInv ==
  /\ \A m \in In(toAuth) \cup In(fromAuth) \cup amsg : Traced(m)
  /\ \A c \in Clients : \A m \in In(out[c]) : IsAnswer(m) => m.by = c \/ link[m.by] = "shut"

(* No text is numbered higher than what has been read. *)
TextInv ==
  /\ \A c, d \in Clients : \A m \in In(out[c]) : m.type = "TEXT" /\ m.from = d => m.n <= Read(d)
  /\ TextsInOrder

StreamInv == TypeInv /\ AskInv /\ TextInv

(* What every step does to the connections, the streams, the queues. *)
LinksStay == /\ \A c \in Clients : link[c] = "shut" => link'[c] = "shut"
             /\ \A h \in Sockets : Open(h) => owner'[h] = owner[h] \/ link'[owner[h]] = "shut"
ReadGrows == \A c \in Clients : ReadNext(c) >= Read(c)
FreshText(m) ==
  m.type = "TEXT" => m.from \in Clients /\ m.n = Read(m.from) + 1 /\ m.n <= ReadNext(m.from)
Addition(c, w) ==
  /\ w \in Streams /\ out'[c] = out[c] \o w
  /\ \/ \A i \in 1..Len(w) : w[i] \in amsg /\ owner[w[i].id] = c
     \/ Len(w) <= 1 /\ \A i \in 1..Len(w) : w[i] \in Chat /\ FreshText(w[i])
Adds == \A c \in Clients : \E w : Addition(c, w)
Asks == In(toAuth') \subseteq In(toAuth) \cup {m \in Forwarded : Open(m.id) /\ owner[m.id] = m.by}
Answers == In(fromAuth') \subseteq In(fromAuth) \cup {Answer(m, ok) : m \in In(toAuth), ok \in BOOLEAN}
Relays == amsg' \subseteq amsg \cup In(fromAuth)
-----------------------------------------------------------------------------
LEMMA InOfSequences ==
  ASSUME NEW S, NEW q \in Seq(S)
  PROVE  /\ In(q) \subseteq S
         /\ \A e \in S : In(Append(q, e)) = In(q) \cup {e}
         /\ \A n \in Nat : n <= Len(q) => In(SubSeq(q, n + 1, Len(q))) \subseteq In(q)
         /\ q # <<>> => Head(q) \in In(q)
         /\ \A w \in Seq(S) : In(q \o w) = In(q) \cup In(w)
<1>1. In(q) \subseteq S
  BY DEF In
<1>2. ASSUME NEW e \in S PROVE In(Append(q, e)) = In(q) \cup {e}
  <2>1. /\ Append(q, e) \in Seq(S) /\ Len(Append(q, e)) = Len(q) + 1
        /\ \A i \in 1..Len(q) : Append(q, e)[i] = q[i]
        /\ Append(q, e)[Len(q) + 1] = e
    OBVIOUS
  <2>2. 1..(Len(q) + 1) = (1..Len(q)) \cup {Len(q) + 1}
    OBVIOUS
  <2> QED
    BY <2>1, <2>2 DEF In
<1>3. ASSUME NEW n \in Nat, n <= Len(q) PROVE In(SubSeq(q, n + 1, Len(q))) \subseteq In(q)
  <2>1. /\ Len(SubSeq(q, n + 1, Len(q))) = Len(q) - n
        /\ \A i \in 1..(Len(q) - n) : SubSeq(q, n + 1, Len(q))[i] = q[n + i] /\ n + i \in 1..Len(q)
    BY <1>3
  <2> QED
    BY <2>1 DEF In
<1>4. q # <<>> => Head(q) \in In(q)
  BY DEF In
<1>5. ASSUME NEW w \in Seq(S) PROVE In(q \o w) = In(q) \cup In(w)
  <2>1. /\ Len(q \o w) = Len(q) + Len(w)
        /\ \A i \in 1..(Len(q) + Len(w)) :
             (q \o w)[i] = IF i <= Len(q) THEN q[i] ELSE w[i - Len(q)]
    OBVIOUS
  <2>2. \A i \in 1..Len(w) : Len(q) + i \in 1..(Len(q) + Len(w)) /\ (q \o w)[Len(q) + i] = w[i]
    BY <2>1
  <2>3. \A i \in 1..Len(q) : i \in 1..(Len(q) + Len(w)) /\ (q \o w)[i] = q[i]
    BY <2>1
  <2>4. In(q) \cup In(w) \subseteq In(q \o w)
    BY <2>1, <2>2, <2>3 DEF In
  <2>5. In(q \o w) \subseteq In(q) \cup In(w)
    <3> SUFFICES ASSUME NEW i \in 1..(Len(q) + Len(w)) PROVE (q \o w)[i] \in In(q) \cup In(w)
      BY <2>1 DEF In
    <3>1. CASE i <= Len(q)
      BY <2>1, <3>1 DEF In
    <3>2. CASE ~(i <= Len(q))
      <4>1. i - Len(q) \in 1..Len(w) /\ (q \o w)[i] = w[i - Len(q)]
        BY <2>1, <3>2
      <4> QED
        BY <4>1 DEF In
    <3> QED
      BY <3>1, <3>2
  <2> QED
    BY <2>4, <2>5
<1> QED
  BY <1>1, <1>2, <1>3, <1>4, <1>5

LEMMA ReadNatural ==
  ASSUME TypeInv, NEW c \in Clients
  PROVE  Read(c) \in Nat /\ Len(inq[c]) \in Nat /\ sent[c] \in Nat
<1>1. inq[c] \in Seq(Packet) /\ sent[c] \in Nat /\ Len(inq[c]) <= sent[c]
  BY DEF TypeInv, TypeOK, UnreadWasSent
<1>2. Len(inq[c]) \in Nat
  BY <1>1
<1> QED
  BY <1>1, <1>2 DEF Read

LEMMA AdditionOfNone ==
  ASSUME TypeOK, NEW c \in Clients, out'[c] = out[c]
  PROVE  Addition(c, <<>>)
<1>1. out[c] \in Streams /\ <<>> \in Streams
  BY DEF TypeOK, Streams
<1>2. out'[c] = out[c] \o <<>>
  BY <1>1 DEF Streams
<1> QED
  BY <1>1, <1>2 DEF Addition

LEMMA AdditionOfOne ==
  ASSUME TypeOK, NEW c \in Clients, NEW packet \in Chat, FreshText(packet),
         out'[c] = Append(out[c], packet)
  PROVE  Addition(c, <<packet>>)
<1>1. out[c] \in Streams /\ <<packet>> \in Streams
  BY DEF TypeOK, Streams
<1>2. out'[c] = out[c] \o <<packet>>
  BY <1>1 DEF Streams
<1>3. Len(<<packet>>) = 1 /\ <<packet>>[1] = packet
  OBVIOUS
<1>4. \A i \in 1..Len(<<packet>>) : <<packet>>[i] \in Chat /\ FreshText(<<packet>>[i])
  <2> SUFFICES ASSUME NEW i \in 1..1 PROVE <<packet>>[i] \in Chat /\ FreshText(<<packet>>[i])
    BY <1>3
  <2>1. <<packet>>[i] = packet
    BY <1>3
  <2> QED
    BY <2>1 DEF FreshText
<1> QED
  BY <1>1, <1>2, <1>3, <1>4 DEF Addition

LEMMA NothingAdded ==
  ASSUME TypeOK, out' = out
  PROVE  Adds
  BY AdditionOfNone DEF Adds

LEMMA PacketAdded ==
  ASSUME TypeOK, NEW to, NEW packet \in Chat, FreshText(packet), SendTo(to, packet)
  PROVE  Adds
<1> SUFFICES ASSUME NEW c \in Clients PROVE \E w : Addition(c, w)
  BY DEF Adds
<1>1. out'[c] = out[c] \/ out'[c] = Append(out[c], packet)
  BY DEF SendTo
<1> QED
  BY <1>1, AdditionOfNone, AdditionOfOne

LEMMA AnswersAdded ==
  ASSUME TypeOK, NEW m \in amsg, NEW copies \in Nat, Relay(m, copies)
  PROVE  Adds
<1> SUFFICES ASSUME NEW c \in Clients PROVE \E w : Addition(c, w)
  BY DEF Adds
<1> DEFINE w == [i \in 1..copies |-> m]
<1>1. m \in Response /\ out[c] \in Streams /\ <<>> \in Streams
  BY DEF TypeOK, Streams
<1>2. w \in Streams /\ Len(w) = copies /\ \A i \in 1..copies : w[i] = m
  <2>1. m \in Chat \cup Response
    BY <1>1
  <2> QED
    BY <2>1 DEF Streams
<1>3. CASE (\E h \in Addressees(m) : owner[h] = c) /\ out'[c] = out[c] \o w
  <2>1. owner[m.id] = c
    BY <1>3 DEF Addressees
  <2> HIDE DEF w
  <2> QED
    BY <1>2, <1>3, <2>1 DEF Addition
<1>4. CASE out'[c] = out[c]
  BY <1>4, AdditionOfNone
<1>5. \/ (\E h \in Addressees(m) : owner[h] = c) /\ out'[c] = out[c] \o w
      \/ out'[c] = out[c]
  BY DEF Relay
<1> QED
  BY <1>3, <1>4, <1>5

(* recv() takes at least one packet, from one client. *)
LEMMA ReceiveReads ==
  ASSUME TypeInv, NEW h \in Sockets, HasData(h), Receive(h), sent' = sent
  PROVE  /\ ReadGrows
         /\ owner[h] \in Clients /\ ReadNext(owner[h]) >= Read(owner[h]) + 1
<1> DEFINE c == owner[h]
<1>1. c \in Clients
  BY DEF TypeInv, TypeOK, HasData, Open
<1>2. PICK n \in 1..MaxBatch : /\ n <= Len(inq[c])
                               /\ inq' = [inq EXCEPT ![c] = SubSeq(@, n + 1, Len(@))]
  BY DEF Receive
<1>3. n \in Nat \ {0} /\ inq[c] \in Seq(Packet) /\ inq \in [Clients -> Seq(Packet)]
  BY <1>1, ServerAssumption DEF TypeInv, TypeOK
<1>4. Len(SubSeq(inq[c], n + 1, Len(inq[c]))) = Len(inq[c]) - n
  BY <1>2, <1>3
<1>5. Len(inq'[c]) = Len(inq[c]) - n /\ \A d \in Clients : d # c => inq'[d] = inq[d]
  BY <1>1, <1>2, <1>3, <1>4
<1>6. ReadNext(c) >= Read(c) + 1
  <2> DEFINE x == sent[c]
             y == Len(inq[c])
             z == Len(inq'[c])
  <2>1. x \in Nat /\ y \in Nat /\ z = y - n /\ Read(c) = x - y /\ ReadNext(c) = x - z
    BY <1>1, <1>5, ReadNatural DEF Read, ReadNext
  <2> HIDE DEF x, y, z
  <2> QED
    BY <1>3, <2>1
<1>7. ASSUME NEW d \in Clients PROVE ReadNext(d) >= Read(d)
  <2>1. Read(d) \in Nat
    BY ReadNatural
  <2>2. CASE d = c
    <3> HIDE DEF c
    <3>1. ReadNext(c) >= Read(c) + 1 /\ Read(c) \in Nat
      BY <1>6, <2>1, <2>2
    <3>2. ReadNext(c) \in Int
      <4>1. Len(inq'[c]) \in Int /\ sent'[c] \in Int
        BY <1>1, <1>3, <1>5, ReadNatural
      <4> QED
        BY <4>1 DEF ReadNext
    <3> QED
      BY <2>2, <3>1, <3>2
  <2>3. CASE d # c
    <3>1. ReadNext(d) = Read(d)
      BY <1>5, <2>3 DEF Read, ReadNext
    <3> QED
      BY <2>1, <3>1
  <2> QED
    BY <2>2, <2>3
<1> QED
  BY <1>1, <1>6, <1>7 DEF ReadGrows

(* Nothing unread is left behind a closed handle or a reset connection. *)
LEMMA ForgettingReads ==
  ASSUME TypeInv, sent' = sent, inq' = inq \/ \E c \in Clients : inq' = [inq EXCEPT ![c] = <<>>]
  PROVE  ReadGrows
<1> SUFFICES ASSUME NEW d \in Clients PROVE ReadNext(d) >= Read(d)
  BY DEF ReadGrows
<1>1. Len(inq[d]) \in Nat /\ sent[d] \in Nat
  BY ReadNatural
<1>2. inq'[d] = inq[d] \/ inq'[d] = <<>>
  BY DEF TypeInv, TypeOK
<1>3. Len(inq'[d]) = Len(inq[d]) \/ Len(inq'[d]) = 0
  BY <1>2
<1> DEFINE x == sent[d]
           y == Len(inq[d])
           z == Len(inq'[d])
<1>4. x \in Nat /\ y \in Nat /\ (z = y \/ z = 0) /\ Read(d) = x - y /\ ReadNext(d) = x - z
  BY <1>1, <1>3 DEF Read, ReadNext
<1> HIDE DEF x, y, z
<1> QED
  BY <1>4

LEMMA ClosingKeepsLinks ==
  ASSUME TypeOK, NEW h \in Sockets, Close(h)
  PROVE  LinksStay
<1>1. \A c \in Clients : link[c] = "shut" => link'[c] = "shut"
  BY DEF Close, TypeOK
<1>2. ASSUME NEW g \in Sockets, Open(g) PROVE owner'[g] = owner[g] \/ link'[owner[g]] = "shut"
  <2>1. CASE g = h
    BY <1>2, <2>1 DEF Close, TypeOK, Open
  <2>2. CASE g # h
    BY <2>2 DEF Close, TypeOK
  <2> QED
    BY <2>1, <2>2
<1> QED
  BY <1>1, <1>2 DEF LinksStay

LEMMA ForwardAsks ==
  ASSUME TypeInv, NEW h \in Sockets, HasData(h),
         Head(inq[owner[h]]).type \in Requests, Forward(h)
  PROVE  Asks
<1> DEFINE request == [type |-> Head(inq[owner[h]]).type, id |-> h, by |-> owner[h]]
<1>1. request \in Forwarded /\ request.id = h /\ request.by = owner[h] /\ Open(h)
  BY FirstOfStream DEF Forwarded, HasData
<1>2. toAuth' = toAuth \/ toAuth' = Append(toAuth, request)
  BY DEF Forward
<1>3. toAuth \in Seq(Forwarded)
  BY DEF TypeInv, TypeOK
<1> HIDE DEF request
<1>4. In(toAuth') \subseteq In(toAuth) \cup {request}
  BY <1>1, <1>2, <1>3, InOfSequences
<1> QED
  BY <1>1, <1>4 DEF Asks

LEMMA StillQueues ==
  /\ toAuth' = toAuth => Asks
  /\ fromAuth' = fromAuth => Answers
  /\ amsg' = amsg => Relays
  /\ link' = link /\ owner' = owner => LinksStay
  BY DEF Asks, Answers, Relays, LinksStay, In
-----------------------------------------------------------------------------
Effects == LinksStay /\ ReadGrows /\ Adds /\ Asks /\ Answers /\ Relays

(* Notices carry no number. *)
LEMMA NoticeFresh ==
  ASSUME NEW c
  PROVE  FreshText(Message("NOTIFICATION", c, 0))
  BY DEF FreshText, Message

LEMMA NoticeAdded ==
  ASSUME TypeOK, NEW table, NEW h, NEW c \in Clients \cup {NoClient},
         Broadcast(table, h, Message("NOTIFICATION", c, 0))
  PROVE  Adds
<1>1. Message("NOTIFICATION", c, 0) \in Chat
  BY DEF Message, Chat
<1> QED
  BY <1>1, NoticeFresh, PacketAdded DEF Broadcast

LEMMA ScanEffects ==
  ASSUME TypeInv, Scan
  PROVE  Effects
<1> PICK p \in Places : /\ NextPlace(p)
                        /\ Disconnect(p) \/ Text(p) \/ Leave(p) \/ Request(p) \/ Ignore(p)
  BY DEF Scan
<1> DEFINE h == At(p)
           c == owner[h]
<1>1. h \in Sockets /\ c \in Clients \cup {NoClient}
  BY PlaceTyped DEF TypeInv, TypeOK
<1>2. amsg' = amsg /\ fromAuth' = fromAuth /\ sent' = sent /\ Answers /\ Relays
  BY StillQueues DEF Scan, authVars, clientVars
<1> HIDE DEF h
<1>3. CASE Disconnect(p)
  <2>1. /\ Close(h) /\ toAuth' = toAuth
        /\ Broadcast(Removed(p), h, Message("NOTIFICATION", NoClient, 0))
        /\ inq' = IF Open(h) THEN [inq EXCEPT ![c] = <<>>] ELSE inq
    BY <1>3 DEF Disconnect, h
  <2>2. Adds /\ LinksStay /\ Asks
    BY <1>1, <2>1, NoticeAdded, ClosingKeepsLinks, StillQueues DEF TypeInv
  <2>3. ReadGrows
    <3>1. Open(h) => c \in Clients
      BY <1>1 DEF Open
    <3> QED
      BY <1>2, <2>1, <3>1, ForgettingReads
  <2> QED
    BY <1>2, <2>2, <2>3 DEF Effects
<1>4. CASE Text(p)
  <2>1. /\ HasData(h) /\ Receive(h) /\ owner' = owner /\ link' = link /\ toAuth' = toAuth
        /\ SendTo(Reached(rooms, h, Broken), Message("TEXT", c, sent[c] - Len(inq[c]) + 1))
    BY <1>4 DEF Text, Broadcast, h
  <2>2. LinksStay /\ Asks
    BY <2>1, StillQueues
  <2>3. ReadGrows /\ c \in Clients /\ ReadNext(c) >= Read(c) + 1
    BY <1>1, <1>2, <2>1, ReceiveReads
  <2>4. PICK n : n = Read(c) + 1
    OBVIOUS
  <2>5. PICK d \in Clients : d = c
    BY <2>3
  <2>6. Message("TEXT", d, n) \in Chat /\ FreshText(Message("TEXT", d, n))
    <3>1. n \in Nat /\ n <= ReadNext(d) /\ n = Read(d) + 1
      BY <2>3, <2>4, <2>5, ReadNatural
    <3> QED
      BY <2>3, <2>5, <3>1 DEF Message, Chat, FreshText
  <2>7. SendTo(Reached(rooms, h, Broken), Message("TEXT", d, n))
    BY <2>1, <2>4, <2>5 DEF Read
  <2>8. Adds
    BY <2>6, <2>7, PacketAdded DEF TypeInv
  <2> QED
    BY <1>2, <2>2, <2>3, <2>8 DEF Effects
<1>5. CASE Leave(p)
  <2>1. /\ HasData(h) /\ toAuth' = toAuth /\ Broadcast(rooms, h, Message("NOTIFICATION", c, 0))
        /\ \/ Receive(h) /\ owner' = owner /\ link' = link
           \/ Close(h) /\ inq' = [inq EXCEPT ![c] = <<>>]
    BY <1>5 DEF Leave, ToldOfLeaving, Notice, h
  <2>2. Adds /\ Asks
    BY <1>1, <2>1, NoticeAdded, StillQueues DEF TypeInv
  <2>3. LinksStay
    BY <1>1, <2>1, ClosingKeepsLinks, StillQueues DEF TypeInv
  <2>4. ReadGrows
    <3>1. c \in Clients
      BY <1>1, <2>1 DEF HasData, Open
    <3> QED
      BY <1>1, <1>2, <2>1, <3>1, ReceiveReads, ForgettingReads
  <2> QED
    BY <1>2, <2>2, <2>3, <2>4 DEF Effects
<1>6. CASE Request(p)
  <2>1. /\ HasData(h) /\ Receive(h) /\ Forward(h) /\ owner' = owner /\ link' = link /\ out' = out
        /\ Head(inq[owner[h]]).type \in Requests
    BY <1>6 DEF Request, h
  <2>2. Adds /\ LinksStay /\ ReadGrows /\ Asks
    BY <1>1, <1>2, <2>1, NothingAdded, StillQueues, ReceiveReads, ForwardAsks DEF TypeInv
  <2> QED
    BY <1>2, <2>2 DEF Effects
<1>7. CASE Ignore(p)
  <2>1. HasData(h) /\ Receive(h) /\ owner' = owner /\ link' = link /\ out' = out /\ toAuth' = toAuth
    BY <1>7 DEF Ignore, h
  <2>2. Adds /\ LinksStay /\ ReadGrows /\ Asks
    BY <1>1, <1>2, <2>1, NothingAdded, StillQueues, ReceiveReads DEF TypeInv
  <2> QED
    BY <1>2, <2>2 DEF Effects
<1> QED
  BY <1>3, <1>4, <1>5, <1>6, <1>7

LEMMA FirstEffects ==
  ASSUME TypeInv, First
  PROVE  Effects
<1> PICK h \in fresh : FirstRequest(h) \/ JoinRoom(h) \/ FirstIgnored(h)
  BY DEF First
<1>1. h \in Sockets /\ owner[h] \in Clients \cup {NoClient}
  BY DEF TypeInv, TypeOK
<1>2. /\ amsg' = amsg /\ fromAuth' = fromAuth /\ sent' = sent /\ owner' = owner /\ link' = link
      /\ Answers /\ Relays /\ LinksStay
  BY StillQueues DEF First, authVars, clientVars
<1>3. CASE FirstRequest(h)
  <2>1. HasData(h) /\ Receive(h) /\ Forward(h) /\ out' = out /\ Head(inq[owner[h]]).type \in Requests
    BY <1>3 DEF FirstRequest
  <2>2. Adds /\ ReadGrows /\ Asks
    BY <1>1, <1>2, <2>1, NothingAdded, ReceiveReads, ForwardAsks DEF TypeInv
  <2> QED
    BY <1>2, <2>2 DEF Effects
<1>4. CASE JoinRoom(h)
  <2>1. PICK table : Broadcast(table, h, Message("NOTIFICATION", owner[h], 0))
    BY <1>4 DEF JoinRoom, Notice
  <2>2. HasData(h) /\ Receive(h) /\ toAuth' = toAuth
    BY <1>4 DEF JoinRoom
  <2>3. Adds
    BY <1>1, <2>1, NoticeAdded DEF TypeInv
  <2>4. ReadGrows /\ Asks
    BY <1>1, <1>2, <2>2, ReceiveReads, StillQueues
  <2> QED
    BY <1>2, <2>3, <2>4 DEF Effects
<1>5. CASE FirstIgnored(h)
  <2>1. out' = out /\ toAuth' = toAuth /\ (inq' = inq \/ (HasData(h) /\ Receive(h)))
    BY <1>5 DEF FirstIgnored
  <2>2. Adds /\ Asks
    BY <2>1, NothingAdded, StillQueues DEF TypeInv
  <2>3. ReadGrows
    BY <1>1, <1>2, <2>1, ReceiveReads, ForgettingReads
  <2> QED
    BY <1>2, <2>2, <2>3 DEF Effects
<1> QED
  BY <1>3, <1>4, <1>5

(* The steps that touch neither streams nor connections. *)
LEMMA QuietEffects ==
  ASSUME TypeInv, UNCHANGED <<owner, link, inq, sent, out, toAuth, fromAuth, amsg>>
  PROVE  Effects
<1>1. ReadGrows
  BY ForgettingReads
<1> QED
  BY <1>1, NothingAdded, StillQueues DEF Effects, TypeInv

LEMMA MainEffects ==
  ASSUME TypeInv, Main
  PROVE  Effects
<1>1. CASE Select \/ SelectTimeout \/ ScanEnd \/ Add
  <2>1. UNCHANGED <<owner, link, inq, sent, out, toAuth, fromAuth, amsg>>
    BY <1>1 DEF Select, SelectTimeout, ScanEnd, Add, vars, mainVars, authVars, clientVars, netVars
  <2> QED
    BY <2>1, QuietEffects
<1>2. CASE Accept
  <2>1. /\ UNCHANGED <<link, inq, sent, out, toAuth, fromAuth, amsg>>
        /\ owner' = owner \/ \E h \in Sockets : ~Open(h) /\ owner' = [owner EXCEPT ![h] = Head(backlog)]
    BY <1>2 DEF Accept, authVars, clientVars
  <2>2. ReadGrows
    BY <2>1, ForgettingReads
  <2>3. LinksStay
    <3>1. ASSUME NEW g \in Sockets, Open(g) PROVE owner'[g] = owner[g]
      BY <2>1, <3>1 DEF TypeInv, TypeOK
    <3> QED
      BY <2>1, <3>1 DEF LinksStay
  <2> QED
    BY <2>1, <2>2, <2>3, NothingAdded, StillQueues DEF Effects, TypeInv
<1> QED
  BY <1>1, <1>2, ScanEffects, FirstEffects DEF Main

LEMMA AuthEffects ==
  ASSUME TypeInv, Auth \/ AuthReply \/ AuthLost
  PROVE  Effects
<1> USE DEF mainVars, authVars, clientVars, netVars
<1>1. fromAuth \in Seq(Response) /\ toAuth \in Seq(Forwarded)
  BY DEF TypeInv, TypeOK
<1>2. CASE AuthReceive
  <2>1. PICK n \in 1..MaxBatch : /\ n <= Len(fromAuth)
                                 /\ fromAuth' = SubSeq(fromAuth, n + 1, Len(fromAuth))
    BY <1>2 DEF AuthReceive
  <2>2. amsg' = {Head(fromAuth)} /\ UNCHANGED <<owner, link, inq, sent, out, toAuth>>
    BY <1>2 DEF AuthReceive
  <2>3. n \in Nat \ {0} /\ fromAuth # <<>>
    BY <1>1, <2>1, ServerAssumption
  <2>4. Answers /\ Relays
    BY <1>1, <2>1, <2>2, <2>3, InOfSequences DEF Answers, Relays
  <2>5. ReadGrows /\ LinksStay /\ Adds /\ Asks
    BY <2>2, ForgettingReads, NothingAdded, StillQueues DEF TypeInv
  <2> QED
    BY <2>4, <2>5 DEF Effects
<1>3. CASE AuthDeliver
  <2>1. UNCHANGED <<owner, link, inq, sent, toAuth, fromAuth>> /\ amsg' = {}
    BY <1>3 DEF AuthDeliver
  <2>2. out' = out \/ \E m \in amsg : \E n \in Nat : Relay(m, n)
    <3>1. PICK m \in amsg :
            IF ~raced
            THEN Relay(m, Listings(m.id)) /\ UNCHANGED alive
            ELSE \/ \E n \in 0..2 : Relay(m, n) /\ UNCHANGED alive
                 \/ alive' = FALSE /\ UNCHANGED out
      BY <1>3 DEF AuthDeliver
    <3>2. Listings(m.id) \in Nat
      BY CopiesNatural DEF TypeInv
    <3>3. \A n \in 0..2 : n \in Nat
      OBVIOUS
    <3> QED
      BY <3>1, <3>2, <3>3
  <2>3. Adds
    BY <2>2, NothingAdded, AnswersAdded DEF TypeInv
  <2>4. ReadGrows /\ LinksStay /\ Asks /\ Answers /\ Relays
    BY <2>1, ForgettingReads, StillQueues DEF Relays
  <2> QED
    BY <2>3, <2>4 DEF Effects
<1>4. CASE AuthReply
  <2>1. PICK n \in 1..MaxBatch : /\ n <= Len(toAuth)
                                 /\ toAuth' = SubSeq(toAuth, n + 1, Len(toAuth))
    BY <1>4 DEF AuthReply
  <2>2. PICK ok \in BOOLEAN : fromAuth' = Append(fromAuth, Answer(Head(toAuth), ok))
    BY <1>4 DEF AuthReply
  <2>3. UNCHANGED <<owner, link, inq, sent, out, amsg>>
    BY <1>4 DEF AuthReply
  <2>4. n \in Nat \ {0} /\ toAuth # <<>>
    BY <1>1, <2>1, ServerAssumption
  <2>5. Head(toAuth) \in Forwarded /\ Head(toAuth) \in In(toAuth)
    BY <1>1, <2>4, InOfSequences
  <2>6. Answer(Head(toAuth), ok) \in Response
    BY <2>5 DEF Answer, Forwarded, Response, Responses
  <2>7. In(fromAuth') = In(fromAuth) \cup {Answer(Head(toAuth), ok)}
    BY <1>1, <2>2, <2>6, InOfSequences
  <2>8. Answers
    BY <2>5, <2>7 DEF Answers
  <2>9. Asks
    BY <1>1, <2>1, <2>4, InOfSequences DEF Asks
  <2>10. ReadGrows /\ LinksStay /\ Adds /\ Relays
    BY <2>3, ForgettingReads, NothingAdded, StillQueues DEF TypeInv
  <2> QED
    BY <2>8, <2>9, <2>10 DEF Effects
<1>5. CASE AuthLost
  <2>1. /\ toAuth' = <<>> /\ (fromAuth' = fromAuth \/ fromAuth' = <<>>)
        /\ UNCHANGED <<owner, link, inq, sent, out, amsg>>
    BY <1>5 DEF AuthLost
  <2>2. In(<<>>) = {}
    BY DEF In
  <2>3. Asks /\ Answers
    BY <2>1, <2>2 DEF Asks, Answers
  <2>4. ReadGrows /\ LinksStay /\ Adds /\ Relays
    BY <2>1, ForgettingReads, NothingAdded, StillQueues DEF TypeInv
  <2> QED
    BY <2>3, <2>4 DEF Effects
<1> QED
  BY <1>2, <1>3, <1>4, <1>5 DEF Auth

LEMMA ClientEffects ==
  ASSUME TypeInv, NEW c \in Clients, Client(c)
  PROVE  Effects
<1> USE DEF mainVars, authVars, clientVars, netVars
<1>1. UNCHANGED <<owner, out, toAuth, fromAuth, amsg>>
  BY DEF Client, ClientConnect, ClientSend, ClientClose
<1>2. Adds /\ Asks /\ Answers /\ Relays
  BY <1>1, NothingAdded, StillQueues DEF TypeInv
<1>3. LinksStay
  <2>1. \A d \in Clients : link[d] = "shut" => link'[d] = "shut"
    BY DEF Client, ClientConnect, ClientSend, ClientClose, TypeInv, TypeOK
  <2> QED
    BY <1>1, <2>1 DEF LinksStay
<1>4. ReadGrows
  <2>1. CASE ClientSend(c)
    <3> SUFFICES ASSUME NEW d \in Clients PROVE ReadNext(d) >= Read(d)
      BY DEF ReadGrows
    <3>1. Read(d) \in Nat /\ Len(inq[d]) \in Nat /\ sent[d] \in Nat
      BY ReadNatural
    <3>2. /\ sent' = [sent EXCEPT ![c] = @ + 1]
          /\ inq' = [inq EXCEPT ![c] = Append(@, script[c][sent'[c]])]
      BY <2>1 DEF ClientSend
    <3>3. sent \in [Clients -> Nat] /\ inq \in [Clients -> Seq(Packet)]
      BY DEF TypeInv, TypeOK
    <3>4. CASE d = c
      <4> PICK e : e = script[c][sent'[c]]
        OBVIOUS
      <4>1. sent'[d] = sent[d] + 1 /\ inq'[d] = Append(inq[d], e)
        BY <3>2, <3>3, <3>4
      <4>2. Len(inq'[d]) = Len(inq[d]) + 1
        BY <3>3, <4>1
      <4> DEFINE x == sent[d]
                 y == Len(inq[d])
      <4>3. Read(d) = x - y /\ ReadNext(d) = (x + 1) - (y + 1) /\ x \in Nat /\ y \in Nat
        BY <3>1, <4>1, <4>2 DEF Read, ReadNext
      <4> HIDE DEF x, y
      <4> QED
        BY <4>3
    <3>5. CASE d # c
      <4>1. sent'[d] = sent[d] /\ inq'[d] = inq[d]
        BY <3>2, <3>3, <3>5
      <4>2. ReadNext(d) = Read(d)
        BY <4>1 DEF Read, ReadNext
      <4> QED
        BY <3>1, <4>2
    <3> QED
      BY <3>4, <3>5
  <2>2. CASE ClientConnect(c) \/ ClientClose(c)
    <3>1. sent' = sent /\ (inq' = inq \/ inq' = [inq EXCEPT ![c] = <<>>])
      BY <2>2 DEF ClientConnect, ClientClose
    <3> QED
      BY <3>1, ForgettingReads
  <2> QED
    BY <2>1, <2>2 DEF Client
<1> QED
  BY <1>2, <1>3, <1>4 DEF Effects

LEMMA StepEffects ==
  ASSUME TypeInv, [Next]_vars
  PROVE  Effects
<1>1. CASE Ended \/ UNCHANGED vars
  BY <1>1, QuietEffects DEF Ended, vars, mainVars, authVars, clientVars, netVars
<1> QED
  BY <1>1, MainEffects, AuthEffects, ClientEffects DEF Next
-----------------------------------------------------------------------------
LEMMA MessagesTyped ==
  ASSUME TypeInv
  PROVE  /\ toAuth \in Seq(Forwarded) /\ fromAuth \in Seq(Response) /\ amsg \subseteq Response
         /\ In(toAuth) \subseteq Forwarded /\ In(fromAuth) \subseteq Response
         /\ \A c \in Clients : out[c] \in Streams /\ In(out[c]) \subseteq Chat \cup Response
  BY InOfSequences DEF TypeInv, TypeOK, Streams

(* Packets of the two kinds are told apart by their types. *)
LEMMA KindsApart ==
  /\ \A m \in Chat : ~IsAnswer(m) /\ m.n \in Nat
  /\ \A m \in Response : IsAnswer(m) /\ m.type # "TEXT" /\ m.id \in Sockets /\ m.by \in Clients
  /\ \A m \in Forwarded : m.id \in Sockets /\ m.by \in Clients
  BY DEF Chat, Response, Forwarded, IsAnswer, Responses

LEMMA TraceStays ==
  ASSUME TypeInv, LinksStay, NEW m, m.id \in Sockets, m.by \in Clients, Traced(m)
  PROVE  owner'[m.id] = m.by \/ link'[m.by] = "shut"
  BY ServerAssumption DEF LinksStay, Traced, Open

LEMMA HeardAfter ==
  ASSUME TypeInv, NEW c \in Clients, NEW w, Addition(c, w)
  PROVE  In(out'[c]) = In(out[c]) \cup In(w)
<1> DEFINE S == Chat \cup Response
<1>1. out[c] \in Seq(S) /\ w \in Seq(S) /\ out'[c] = out[c] \o w
  BY MessagesTyped DEF Addition, Streams
<1> HIDE DEF S
<1>2. In(out[c] \o w) = In(out[c]) \cup In(w)
  BY <1>1, InOfSequences
<1> QED
  BY <1>1, <1>2

LEMMA AskKept ==
  ASSUME TypeInv, AskInv, Effects
  PROVE  AskInv'
<1>1. LinksStay /\ Adds /\ Asks /\ Answers /\ Relays
  BY DEF Effects
<1>2. ASSUME NEW m \in In(toAuth) \cup In(fromAuth) \cup amsg
      PROVE  owner'[m.id] = m.by \/ link'[m.by] = "shut"
  <2>1. m.id \in Sockets /\ m.by \in Clients /\ Traced(m)
    BY MessagesTyped, KindsApart DEF AskInv
  <2> QED
    BY <1>1, <2>1, TraceStays
<1>3. ASSUME NEW m \in In(toAuth') \cup In(fromAuth') \cup amsg'
      PROVE  owner'[m.id] = m.by \/ link'[m.by] = "shut"
  <2>1. CASE m \in In(toAuth) \cup In(fromAuth) \cup amsg
    BY <1>2, <2>1
  <2>2. CASE m \in Forwarded /\ Open(m.id) /\ owner[m.id] = m.by
    BY <1>1, <2>2, KindsApart DEF LinksStay
  <2>3. CASE \E q \in In(toAuth), ok \in BOOLEAN : m = Answer(q, ok)
    <3>1. PICK q \in In(toAuth), ok \in BOOLEAN : m = Answer(q, ok)
      BY <2>3
    <3>2. m.id = q.id /\ m.by = q.by
      BY <3>1 DEF Answer
    <3> QED
      BY <1>2, <3>2
  <2> QED
    BY <1>1, <2>1, <2>2, <2>3 DEF Asks, Answers, Relays
<1>4. ASSUME NEW c \in Clients, NEW m \in In(out'[c]), IsAnswer(m)
      PROVE  m.by = c \/ link'[m.by] = "shut"
  <2>1. PICK w : Addition(c, w)
    BY <1>1 DEF Adds
  <2>2. In(out'[c]) = In(out[c]) \cup In(w)
    BY <2>1, HeardAfter
  <2>3. CASE m \in In(out[c])
    <3>1. m.by \in Clients /\ (m.by = c \/ link[m.by] = "shut")
      BY <1>4, <2>3, MessagesTyped, KindsApart DEF AskInv
    <3> QED
      BY <1>1, <3>1 DEF LinksStay
  <2>4. CASE m \in In(w)
    <3>1. PICK i \in 1..Len(w) : m = w[i]
      BY <2>4 DEF In
    <3>2. m \in amsg /\ owner[m.id] = c
      BY <1>4, <2>1, <3>1, KindsApart DEF Addition
    <3>3. m.by \in Clients /\ Traced(m)
      BY <3>2, MessagesTyped, KindsApart DEF AskInv
    <3> QED
      BY <1>1, <3>2, <3>3 DEF LinksStay, Traced
  <2> QED
    BY <2>2, <2>3, <2>4
<1> QED
  BY <1>3, <1>4 DEF AskInv, Traced, IsAnswer

LEMMA TextKept ==
  ASSUME TypeInv, TypeInv', TextInv, Effects
  PROVE  TextInv'
<1>1. ReadGrows /\ Adds
  BY DEF Effects
<1>2. \A d \in Clients : Read(d) \in Nat /\ ReadNext(d) \in Int /\ ReadNext(d) >= Read(d)
  <2>1. ASSUME NEW d \in Clients PROVE ReadNext(d) \in Int
    <3>1. sent'[d] \in Nat /\ inq'[d] \in Seq(Packet)
      BY DEF TypeInv, TypeOK
    <3>2. Len(inq'[d]) \in Nat
      BY <3>1
    <3> QED
      BY <3>1, <3>2 DEF ReadNext
  <2> QED
    BY <1>1, <2>1, ReadNatural DEF ReadGrows
<1>3. ASSUME NEW c \in Clients, NEW d \in Clients, NEW m \in In(out'[c]), m.type = "TEXT", m.from = d
      PROVE  m.n <= ReadNext(d)
  <2>1. PICK w : Addition(c, w)
    BY <1>1 DEF Adds
  <2>2. In(out'[c]) = In(out[c]) \cup In(w)
    BY <2>1, HeardAfter
  <2>3. CASE m \in In(out[c])
    <3>1. m.n <= Read(d) /\ m.n \in Nat
      BY <1>3, <2>3, MessagesTyped, KindsApart DEF TextInv
    <3> QED
      BY <1>2, <3>1
  <2>4. CASE m \in In(w)
    <3>1. PICK i \in 1..Len(w) : m = w[i]
      BY <2>4 DEF In
    <3>2. FreshText(m)
      BY <1>3, <2>1, <3>1, MessagesTyped, KindsApart DEF Addition
    <3> QED
      BY <1>3, <3>2 DEF FreshText
  <2> QED
    BY <2>2, <2>3, <2>4
<1>4. ASSUME NEW c \in Clients, NEW d \in Clients,
             NEW i \in 1..Len(out'[c]), NEW j \in 1..Len(out'[c]), i < j,
             out'[c][i].type = "TEXT", out'[c][j].type = "TEXT",
             out'[c][i].from = d, out'[c][j].from = d
      PROVE  out'[c][i].n < out'[c][j].n
  <2>1. PICK w : Addition(c, w)
    BY <1>1 DEF Adds
  <2> DEFINE l == Len(out[c])
  <2>2. /\ l \in Nat /\ Len(w) \in Nat /\ Len(out'[c]) = l + Len(w)
        /\ \A k \in 1..l : out'[c][k] = out[c][k]
        /\ \A k \in 1..Len(w) : out'[c][l + k] = w[k]
    <3>1. out[c] \in Streams /\ w \in Streams /\ out'[c] = out[c] \o w
      BY <2>1, MessagesTyped DEF Addition
    <3> QED
      BY <3>1 DEF Streams
  <2>3. CASE j <= l
    <3>1. i \in 1..l /\ j \in 1..l
      BY <1>4, <2>2, <2>3
    <3> QED
      BY <1>4, <2>2, <3>1 DEF TextInv, TextsInOrder
  <2>4. CASE ~(j <= l)
    <3>1. PICK k \in 1..Len(w) : j = l + k
      <4>1. j - l \in 1..Len(w) /\ j = l + (j - l)
        BY <1>4, <2>2, <2>4
      <4> QED
        BY <4>1
    <3>2. w[k].type = "TEXT" /\ w[k].from = d /\ out'[c][j] = w[k]
      BY <1>4, <2>2, <3>1
    <3>3. Len(w) <= 1 /\ w[k] \in Chat /\ FreshText(w[k])
      BY <2>1, <3>2, MessagesTyped, KindsApart DEF Addition
    <3>4. w[k].n = Read(d) + 1
      BY <3>2, <3>3 DEF FreshText
    <3>5. i \in 1..l
      BY <1>4, <2>2, <3>1, <3>3
    <3>6. out[c][i] \in In(out[c]) /\ out'[c][i] = out[c][i]
      BY <2>2, <3>5 DEF In
    <3>7. out[c][i].n <= Read(d) /\ out[c][i].n \in Nat
      BY <1>4, <3>6, MessagesTyped, KindsApart DEF TextInv
    <3> QED
      BY <1>2, <3>2, <3>4, <3>6, <3>7
  <2> QED
    BY <2>3, <2>4
<1> QED
  BY <1>3, <1>4 DEF TextInv, TextsInOrder, Read, ReadNext

LEMMA StreamInvariant == Spec => []StreamInv
<1>1. Init => AskInv /\ TextInv
  BY DEF Init, AskInv, TextInv, TextsInOrder, In
<1>2. StreamInv /\ [Next]_vars => StreamInv'
  BY NextTyped, StepEffects, AskKept, TextKept DEF StreamInv
<1> QED
  BY <1>1, <1>2, InitTyped, PTL DEF Spec, StreamInv

(* What a connection hears of another one is in the order it was said and  *)
(* never doubled, whichever rooms they share and however the reads cut the *)
(* streams.                                                                *)
THEOREM TextsAreInOrder == Spec => []TextsInOrder
<1>1. StreamInv => TextsInOrder
  BY DEF StreamInv, TextInv
<1> QED
  BY <1>1, StreamInvariant, PTL

(* As long as the server has not closed the connection that asked, nobody  *)
(* else is sent its answer, although the request names only a handle.      *)
THEOREM AnswersGoToTheAsker == Spec => []AnswersToAsker
<1>1. StreamInv => AnswersToAsker
  BY DEF StreamInv, AskInv, AnswersToAsker, In
<1> QED
  BY <1>1, StreamInvariant, PTL
=============================================================================
