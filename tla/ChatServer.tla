------------------------------ MODULE ChatServer ------------------------------
(***************************************************************************)
(* The chat server process (Server/ChatServer.cpp).                        *)
(*                                                                         *)
(* Two threads share the room table without a lock: the main thread runs   *)
(* the select() loop of RunSocket, the authentication thread relays the    *)
(* answers of the authentication server (ReceiveAthSocketMessages).  The   *)
(* main thread is cut where another process or thread can observe it: at   *)
(* select(), at every recv() with the handling of what it returned, at     *)
(* accept(), and between forwarding the first request of a connection and  *)
(* listing the connection in a room.                                       *)
(*                                                                         *)
(* Clients are an environment: client c sends the packets of script[c] in  *)
(* order, waits for the answer to a login or a registration as the client  *)
(* program does, and may close at any time.  A socket is a byte stream:    *)
(* one recv() returns any number of whole packets up to MaxBatch, of which *)
(* the code interprets the first.  Packets are not cut here, and none is   *)
(* larger than a buffer: the exception by which ReadString then ends the   *)
(* process (Buffer.h:94-97) is the subject of Wire.                        *)
(***************************************************************************)
EXTENDS ChatRooms, FiniteSets

CONSTANTS Clients,    \* connections, one per run of the client program
          NoClient,   \* "no connection behind this handle"
          Scripts,    \* the packet sequences a client may send
          MaxBatch,   \* most packets one recv() returns (512 bytes)
          FdSetSize,  \* FD_SETSIZE, the listening socket included
          AuthMayFail \* whether the authentication server may be lost

Requests  == {"LOGIN", "REGISTER"}
Responses == {"LOGIN_RESPONSE", "REGISTER_RESPONSE"}
(* MESSAGE_TYPE; arg holds the rooms a JOIN_ROOM or a LEAVE_ROOM names. *)
Packet == [type : Requests \cup {"NOTIFICATION", "TEXT", "JOIN_ROOM", "LEAVE_ROOM"},
           arg  : Seq(RoomIds)]

ASSUME ServerAssumption ==
  /\ NoClient \notin Clients
  /\ Scripts \subseteq Seq(Packet) \ {<<>>}
  /\ \A s \in Scripts : \A i \in 1..Len(s) : s[i].type = "LEAVE_ROOM" => s[i].arg # <<>>
  /\ MaxBatch \in Nat \ {0}
  /\ FdSetSize \in Nat \ {0}
  /\ AuthMayFail \in BOOLEAN

VARIABLES
  rooms,     \* ChatServer::rooms, by handle
  owner,     \* the connection behind each open handle
  pc,        \* main thread: "select", "scan", "accept", "first", "add"
  cur,       \* <<room, index>> the scan over the rooms has come to
  ready,     \* socketsReadyForReading, without listenSocket
  avail,     \* count > 0 and listenSocket is in socketsReadyForReading
  fresh,     \* newConnection, or {} outside its use
  apc,       \* authentication thread: "recv", "scan"
  amsg,      \* the answers it is relaying: at most one
  raced,     \* the room table changed while it walks the table
  alive,     \* the process has not been ended by that data race
  script, sent,   \* what each client sends and how much of it it has sent
  link,      \* each client's connection
  inq,       \* packets sent by each client and not yet received
  out,       \* everything the server has sent to each client
  backlog,   \* connections waiting for accept()
  toAuth, fromAuth, \* the connection to the authentication server
  authUp     \* it has not been lost

mainVars == <<pc, cur, ready, avail, fresh>>
authVars == <<apc, amsg>>
clientVars == <<script, sent>>
netVars == <<link, inq, out, backlog>>
vars == <<rooms, owner, mainVars, authVars, raced, alive, clientVars, netVars,
          toAuth, fromAuth, authUp>>

Init == /\ rooms = [r \in RoomIds |-> <<>>]
        /\ owner = [h \in Sockets |-> NoClient]
        /\ pc = "select" /\ cur = <<1, 1>> /\ ready = {} /\ avail = FALSE /\ fresh = {}
        /\ apc = "recv" /\ amsg = {} /\ raced = FALSE /\ alive = TRUE
        /\ script \in [Clients -> Scripts] /\ sent = [c \in Clients |-> 0]
        /\ link = [c \in Clients |-> "idle"]
        /\ inq = [c \in Clients |-> <<>>]
        /\ out = [c \in Clients |-> <<>>]
        /\ backlog = <<>> /\ toAuth = <<>> /\ fromAuth = <<>> /\ authUp = TRUE
-----------------------------------------------------------------------------
(* Sockets as the operating system presents them.                          *)

Open(h) == owner[h] # NoClient
HasData(h) == Open(h) /\ link[owner[h]] # "rst" /\ inq[owner[h]] # <<>>
(* recv() returns 0 or SOCKET_ERROR *)
Lost(h) == Open(h) => \/ link[owner[h]] = "rst"
                      \/ link[owner[h]] = "fin" /\ inq[owner[h]] = <<>>
(* send() returns SOCKET_ERROR *)
Broken == {h \in Sockets : ~Open(h) \/ link[owner[h]] = "rst"}

ReceivePeeks(h) ==
  \E n \in 1..MaxBatch :
    /\ n <= Len(inq[owner[h]])
    /\ inq' = [inq EXCEPT ![owner[h]] = SubSeq(@, n, Len(@))]
(* recv() on h: the first packet is all the caller looks at, whatever came *)
(* with it in the buffer is gone.  The packet is taken to be whole.        *)
Receive(h) ==
  \E n \in 1..MaxBatch :
    /\ n <= Len(inq[owner[h]])
    /\ inq' = [inq EXCEPT ![owner[h]] = SubSeq(@, n + 1, Len(@))]

(* send() of one packet to each of the handles `to` *)
SendTo(to, packet) ==
  out' = [c \in Clients |-> IF \E h \in to : owner[h] = c
                            THEN Append(out[c], packet) ELSE out[c]]

Close(h) ==
  /\ owner' = [owner EXCEPT ![h] = NoClient]
  /\ link' = IF Open(h) THEN [link EXCEPT ![owner[h]] = "shut"] ELSE link

Message(type, c, n) == [type |-> type, from |-> c, n |-> n]
Notice(h) == Message("NOTIFICATION", owner[h], 0)

(* The places of the table, in the order in which every loop visits them.  *)
Listed == {h \in Sockets : \E r \in RoomIds : Contains(rooms[r], h)}
Places == UNION {{r} \X (1..Len(rooms[r])) : r \in RoomIds}
At(p) == rooms[p[1]][p[2]]
ListedBefore(g, h) ==
  \E p \in Places : At(p) = g /\ \A q \in Places : At(q) = h => Before(p, q)

BroadcastFirst(table, h, packet) ==
  SendTo({g \in Reached(table, h, Broken) :
            \A f \in Reached(table, h, Broken) \ {g} : ListedBefore(g, f)}, packet)
(* BroadcastMessage; BroadcastLoop shows that the loop has this effect. *)
Broadcast(table, h, packet) == SendTo(Reached(table, h, Broken), packet)

(* Every change of the table races with a walk of the other thread. *)
ChangeRooms(table) ==
  /\ rooms' = table
  /\ raced' = (raced \/ (apc = "scan" /\ table # rooms))
-----------------------------------------------------------------------------
(* The main thread: RunSocket.                                             *)

PolledShort ==
  {h \in Listed : Cardinality({g \in Listed : ListedBefore(g, h)}) < FdSetSize - 2}
(* FD_SET ignores a socket once the set is full. *)
Polled ==
  {h \in Listed : Cardinality({g \in Listed : ListedBefore(g, h)}) < FdSetSize - 1}

(* A handle that is not a socket makes select() fail and leave the sets as *)
(* they were passed; with nothing to report it times out after a second.   *)
Select ==
  /\ alive /\ pc = "select"
  /\ IF Polled \subseteq {h \in Sockets : Open(h)}
     THEN /\ ready' = {h \in Polled : HasData(h) \/ Lost(h)}
          /\ avail' = (backlog # <<>>)
     ELSE ready' = Polled /\ avail' = FALSE
  /\ (ready' # {} \/ avail')
  /\ pc' = "scan" /\ cur' = <<1, 1>>
  /\ UNCHANGED <<rooms, owner, fresh, authVars, raced, alive, clientVars, netVars, toAuth, fromAuth, authUp>>

SelectTimeout ==
  /\ alive /\ pc = "select" /\ backlog = <<>>
  /\ \A h \in Polled : Open(h) /\ ~HasData(h) /\ ~Lost(h)
  /\ UNCHANGED vars

(* The next place of the scan that holds a socket in socketsReadyForReading. *)
Ahead(p) == p \in Places /\ ~Before(p, cur) /\ At(p) \in ready
NextPlace(p) == Ahead(p) /\ \A q \in Places : Ahead(q) => q = p \/ Before(p, q)

FurtherNot(p) == p
Further(p) == <<p[1], p[2] + 1>>       \* i++
AgainTwice(p) == <<p[1], p[2] - 1>>
Again(p) == p                          \* i-- after an erasure, then i++
Removed(p) == [rooms EXCEPT ![p[1]] = EraseFirst(@, At(p))]

DisconnectKeeps(p) ==
  LET h == At(p) IN
  /\ Lost(h)
  /\ Broadcast(rooms, h, Message("NOTIFICATION", NoClient, 0))
  /\ Close(h)
  /\ inq' = IF Open(h) THEN [inq EXCEPT ![owner[h]] = <<>>] ELSE inq
  /\ cur' = Further(p)
  /\ UNCHANGED <<rooms, raced, ready, toAuth>>
(* recv() returned 0 or failed: the two branches do the same.  The socket  *)
(* is erased from this room before "Someone has left" is broadcast.        *)
Disconnect(p) ==
  LET h == At(p) IN
  /\ Lost(h)
  /\ ChangeRooms(Removed(p))
  /\ Broadcast(Removed(p), h, Message("NOTIFICATION", NoClient, 0))
  /\ Close(h)
  /\ inq' = IF Open(h) THEN [inq EXCEPT ![owner[h]] = <<>>] ELSE inq
  /\ cur' = Again(p)
  /\ UNCHANGED <<ready, toAuth>>

Text(p) ==
  LET h == At(p) IN
  /\ HasData(h) /\ Head(inq[owner[h]]).type = "TEXT"
  /\ Receive(h)
  /\ Broadcast(rooms, h, Message("TEXT", owner[h], sent[owner[h]] - Len(inq[owner[h]]) + 1))
  /\ UNCHANGED <<rooms, raced, owner, link, ready, toAuth>>
  /\ cur' = Further(p)

AfterLeaving(room, h) == [rooms EXCEPT ![room] = EraseFirst(@, h)]
(* The leaving is broadcast before the socket is erased. *)
ToldOfLeaving(room, h) == rooms
Leave(p) ==
  LET h == At(p)
      room == Head(Head(inq[owner[h]]).arg)
  IN  /\ HasData(h) /\ Head(inq[owner[h]]).type = "LEAVE_ROOM"
      /\ Broadcast(ToldOfLeaving(room, h), h, Notice(h))
      /\ ChangeRooms(AfterLeaving(room, h))
      /\ IF Contains(rooms[room], h)
         THEN Receive(h) /\ UNCHANGED <<owner, link, ready>>
         ELSE /\ Close(h) /\ ready' = ready \ {h}
              /\ inq' = [inq EXCEPT ![owner[h]] = <<>>]
      /\ cur' = Further(p)
      /\ UNCHANGED toAuth

(* OnLoginRequestReceived, OnRegisterRequestReceived: the request goes to  *)
(* the authentication server with the handle as requestorId.  `by` is the  *)
(* connection it came from, which the program does not record.  Nobody     *)
(* looks at the result of the send(), so that once the authentication      *)
(* server is lost the request is lost too.                                 *)
Forward(h) ==
  toAuth' = IF authUp
            THEN Append(toAuth, [type |-> Head(inq[owner[h]]).type, id |-> h, by |-> owner[h]])
            ELSE toAuth

Request(p) ==
  LET h == At(p) IN
  /\ HasData(h) /\ Head(inq[owner[h]]).type \in Requests
  /\ Forward(h) /\ Receive(h)
  /\ cur' = Further(p)
  /\ UNCHANGED <<rooms, raced, owner, link, out, ready>>

(* NOTIFICATION is printed; JOIN_ROOM is not handled here. *)
Ignore(p) ==
  LET h == At(p) IN
  /\ HasData(h) /\ Head(inq[owner[h]]).type \in {"NOTIFICATION", "JOIN_ROOM"}
  /\ Receive(h)
  /\ cur' = Further(p)
  /\ UNCHANGED <<rooms, raced, owner, link, out, ready, toAuth>>

Scan ==
  /\ alive /\ pc = "scan"
  /\ \E p \in Places : /\ NextPlace(p)
                       /\ Disconnect(p) \/ Text(p) \/ Leave(p) \/ Request(p) \/ Ignore(p)
  /\ UNCHANGED <<pc, avail, fresh, authVars, alive, clientVars, backlog, fromAuth, authUp>>

ScanEnd ==
  /\ alive /\ pc = "scan" /\ ~\E p \in Places : Ahead(p)
  /\ pc' = IF avail THEN "accept" ELSE "select"
  /\ ready' = {} /\ avail' = FALSE
  /\ UNCHANGED <<rooms, owner, cur, fresh, authVars, raced, alive, clientVars, netVars, toAuth, fromAuth, authUp>>

(* accept(); the system hands out any free handle, one closed before too,  *)
(* or reports that the connection has been reset meanwhile.                *)
Accept ==
  /\ alive /\ pc = "accept" /\ backlog # <<>>
  /\ \/ \E h \in Sockets : /\ ~Open(h)
                           /\ owner' = [owner EXCEPT ![h] = Head(backlog)]
                           /\ fresh' = {h}
                           /\ pc' = "first"
     \/ link[Head(backlog)] = "rst" /\ pc' = "select" /\ UNCHANGED <<owner, fresh>>
  /\ backlog' = Tail(backlog)
  /\ UNCHANGED <<rooms, cur, ready, avail, authVars, raced, alive, clientVars, link, inq, out, toAuth, fromAuth, authUp>>

(* The blocking recv() that follows accept().  A connection whose first    *)
(* packet is not one of the three below stays open and in no room.         *)
FirstRequest(h) ==
  /\ HasData(h) /\ Head(inq[owner[h]]).type \in Requests
  /\ Forward(h) /\ Receive(h)
  /\ pc' = "add"
  /\ UNCHANGED <<rooms, raced, out, fresh>>

JoinRoom(h) ==
  LET wanted == Head(inq[owner[h]]).arg
      table == [r \in RoomIds |->
                  rooms[r] \o [i \in 1..Cardinality({j \in 1..Len(wanted) : wanted[j] = r}) |-> h]]
  IN  /\ HasData(h) /\ Head(inq[owner[h]]).type = "JOIN_ROOM"
      /\ Receive(h)
      /\ ChangeRooms(table)
      /\ Broadcast(table, h, Notice(h))
      /\ pc' = "select" /\ fresh' = {}
      /\ UNCHANGED toAuth

FirstIgnored(h) ==
  /\ \/ Lost(h) /\ UNCHANGED inq
     \/ /\ HasData(h) /\ Head(inq[owner[h]]).type \notin Requests \cup {"JOIN_ROOM"}
        /\ Receive(h)
  /\ pc' = "select" /\ fresh' = {}
  /\ UNCHANGED <<rooms, raced, out, toAuth>>

First ==
  /\ alive /\ pc = "first"
  /\ \E h \in fresh : FirstRequest(h) \/ JoinRoom(h) \/ FirstIgnored(h)
  /\ UNCHANGED <<owner, cur, ready, avail, authVars, alive, clientVars, link, backlog, fromAuth, authUp>>

(* rooms[""].clients.push_back(newConnection), after the forwarding *)
Add ==
  /\ alive /\ pc = "add"
  /\ \E h \in fresh : ChangeRooms([rooms EXCEPT ![Lobby] = Append(@, h)])
  /\ pc' = "select" /\ fresh' = {}
  /\ UNCHANGED <<owner, cur, ready, avail, authVars, alive, clientVars, netVars, toAuth, fromAuth, authUp>>

Main == Select \/ SelectTimeout \/ Scan \/ ScanEnd \/ Accept \/ First \/ Add
-----------------------------------------------------------------------------
(* The authentication thread: ReceiveAthSocketMessages, over and over.     *)

(* Blocking recv(): of the answers that came together only the first is    *)
(* looked at.  The walk over the rooms begins.                             *)
AuthReceive ==
  /\ alive /\ apc = "recv"
  /\ \E n \in 1..MaxBatch : n <= Len(fromAuth) /\ fromAuth' = SubSeq(fromAuth, n + 1, Len(fromAuth))
  /\ amsg' = {Head(fromAuth)}
  /\ apc' = "scan" /\ raced' = FALSE
  /\ UNCHANGED <<rooms, owner, mainVars, alive, clientVars, netVars, toAuth, authUp>>

(* A registration answer that cannot be parsed keeps socketId = 0, which   *)
(* is nobody's handle; a login answer is relayed even then.                *)
AddresseesAll(m) == Sockets
Addressees(m) == {h \in Sockets : h = m.id /\ (m.type = "LOGIN_RESPONSE" \/ m.ok)}
Listings(h) == Cardinality({p \in Places : At(p) = h})

(* `copies` times the answer m, to the connection behind its handle now *)
Relay(m, copies) ==
  out' = [c \in Clients |->
            IF \E h \in Addressees(m) : owner[h] = c /\ link[c] # "rst"
            THEN out[c] \o [i \in 1..copies |-> m] ELSE out[c]]

(* One copy for each place of the table that holds the handle.  If the     *)
(* table changed under the walk, that is a data race on std::map and       *)
(* std::vector: the walk may miss places, see one twice, or end the        *)
(* process.                                                                *)
AuthDeliver ==
  /\ alive /\ apc = "scan"
  /\ \E m \in amsg :
       IF ~raced
       THEN Relay(m, Listings(m.id)) /\ UNCHANGED alive
       ELSE \/ \E n \in 0..2 : Relay(m, n) /\ UNCHANGED alive
            \/ alive' = FALSE /\ UNCHANGED out
  /\ apc' = "recv" /\ amsg' = {} /\ raced' = FALSE
  /\ UNCHANGED <<rooms, owner, mainVars, clientVars, link, inq, backlog, toAuth, fromAuth, authUp>>

Auth == AuthReceive \/ AuthDeliver
-----------------------------------------------------------------------------
(* The environment: the authentication server and the clients.             *)

Answer(request, ok) ==
  [type |-> IF request.type = "LOGIN" THEN "LOGIN_RESPONSE" ELSE "REGISTER_RESPONSE",
   id |-> request.id, by |-> request.by, ok |-> ok]

(* The authentication server reads one batch, of which it interprets the   *)
(* first request, and answers it.  What it leaves unset after an SQL error *)
(* makes a registration answer impossible to parse (~ok).                  *)
AuthReply ==
  /\ \E n \in 1..MaxBatch : n <= Len(toAuth) /\ toAuth' = SubSeq(toAuth, n + 1, Len(toAuth))
  /\ \E ok \in BOOLEAN : /\ Head(toAuth).type = "LOGIN" => ok
                         /\ fromAuth' = Append(fromAuth, Answer(Head(toAuth), ok))
  /\ UNCHANGED <<rooms, owner, mainVars, authVars, raced, alive, clientVars, netVars, authUp>>

(* The authentication server ends, or the connection to it breaks: what    *)
(* was under way to it is lost, what was under way from it may be.  From   *)
(* then on every recv() of the authentication thread returns 0 or fails    *)
(* and it calls the next one: a step that changes nothing.                 *)
AuthLost ==
  /\ AuthMayFail /\ authUp
  /\ authUp' = FALSE
  /\ toAuth' = <<>> /\ fromAuth' \in {fromAuth, <<>>}
  /\ UNCHANGED <<rooms, owner, mainVars, authVars, raced, alive, clientVars, netVars>>

ClientConnect(c) ==
  /\ link[c] = "idle"
  /\ link' = [link EXCEPT ![c] = "up"]
  /\ backlog' = Append(backlog, c)
  /\ UNCHANGED <<rooms, owner, mainVars, authVars, raced, alive, clientVars, inq, out, toAuth, fromAuth, authUp>>

IsAnswer(m) == m.type \in Responses
Asked(c) == Cardinality({i \in 1..sent[c] : script[c][i].type \in Requests})
Answered(c) == Cardinality({i \in 1..Len(out[c]) : IsAnswer(out[c][i])})

(* The client program sends a request only when it has been answered as    *)
(* often as it has asked, anything else only when it has been answered at  *)
(* all: see ClientRole, which ChatClient implements.                       *)
MaySend(c, packet) ==
  IF packet.type \in Requests THEN Answered(c) >= Asked(c) ELSE Asked(c) > 0 => Answered(c) > 0

ClientSend(c) ==
  /\ link[c] = "up" /\ sent[c] < Len(script[c]) /\ MaySend(c, script[c][sent[c] + 1])
  /\ sent' = [sent EXCEPT ![c] = @ + 1]
  /\ inq' = [inq EXCEPT ![c] = Append(@, script[c][sent'[c]])]
  /\ UNCHANGED <<rooms, owner, mainVars, authVars, raced, alive, script, link, out, backlog, toAuth, fromAuth, authUp>>

(* The client's socket is closed in order ("fin"), or is reset and takes   *)
(* with it what the server has not read yet ("rst").                       *)
ClientClose(c) ==
  /\ \/ link[c] = "up" /\ link' = [link EXCEPT ![c] = "fin"] /\ UNCHANGED inq
     \/ /\ link[c] \in {"up", "fin"} /\ link' = [link EXCEPT ![c] = "rst"]
        /\ inq' = [inq EXCEPT ![c] = <<>>]
  /\ UNCHANGED <<rooms, owner, mainVars, authVars, raced, alive, clientVars, out, backlog, toAuth, fromAuth, authUp>>

Client(c) == ClientConnect(c) \/ ClientSend(c) \/ ClientClose(c)

(* After the data race has ended the process nothing need happen any more. *)
Ended == ~alive /\ UNCHANGED vars

Next == Main \/ Auth \/ AuthReply \/ AuthLost \/ (\E c \in Clients : Client(c)) \/ Ended

Spec == Init /\ [][Next]_vars

(* Both threads and the authentication server keep running; nothing is     *)
(* assumed of the clients, not even that they ever send a first packet:    *)
(* the client program connects before it reads from the console.           *)
ServerFairness == WF_vars(Main) /\ WF_vars(Auth) /\ WF_vars(AuthReply)
FairSpec == Spec /\ ServerFairness
-----------------------------------------------------------------------------
Forwarded == [type : Requests, id : Sockets, by : Clients]
Response == [type : Responses, id : Sockets, by : Clients, ok : BOOLEAN]
Chat == [type : {"TEXT", "NOTIFICATION"}, from : Clients \cup {NoClient}, n : Nat]

(* Types, with two facts that tie the variables of the main thread: it     *)
(* holds a connection exactly between accept() and the end of its handling. *)
TypeOK ==
  /\ rooms \in RoomTable
  /\ owner \in [Sockets -> Clients \cup {NoClient}]
  /\ pc \in {"select", "scan", "accept", "first", "add"}
  /\ cur \in RoomIds \X (Nat \ {0})
  /\ ready \in SUBSET Sockets /\ avail \in BOOLEAN
  /\ fresh \in SUBSET Sockets /\ (fresh # {} <=> pc \in {"first", "add"})
  /\ apc \in {"recv", "scan"}
  /\ amsg \in SUBSET Response /\ (amsg # {} <=> apc = "scan")
  /\ raced \in BOOLEAN /\ alive \in BOOLEAN
  /\ script \in [Clients -> Scripts] /\ sent \in [Clients -> Nat]
  /\ link \in [Clients -> {"idle", "up", "fin", "rst", "shut"}]
  /\ inq \in [Clients -> Seq(Packet)]
  /\ out \in [Clients -> Seq(Chat \cup Response)]
  /\ backlog \in Seq(Clients)
  /\ toAuth \in Seq(Forwarded) /\ fromAuth \in Seq(Response) /\ authUp \in BOOLEAN

(* The room that the first packet puts a connection into, the first one if *)
(* it names several (RunSocket, lines 277-314).                            *)
Home(s) == IF s[1].type = "JOIN_ROOM" THEN s[1].arg[1] ELSE Lobby
JoinedSeveral(c) == sent[c] > 0 /\ script[c][1].type = "JOIN_ROOM" /\ Len(script[c][1].arg) > 1
LeftElsewhere(c) ==
  \E i \in 1..sent[c] : script[c][i].type = "LEAVE_ROOM" /\ script[c][i].arg[1] # Home(script[c])

(* A connection has been closed that had joined several rooms, or was to   *)
(* leave another room than its own: its handle may have stayed behind in   *)
(* the table (RunSocket, lines 132-141 and 230-233).                       *)
Stray == \E c \in Clients : link[c] = "shut" /\ (JoinedSeveral(c) \/ LeftElsewhere(c))

(* Whenever the main thread is about to call select(), every handle in the *)
(* room table is an open socket, and stands there once unless its          *)
(* connection has joined several rooms, in spite of the erasures in other  *)
(* places and of the late listing after a login; until a connection that   *)
(* makes it Stray is closed (RunSocket, lines 117-175 and 277-284).        *)
RoomsHoldLiveSockets ==
  pc = "select" =>
    \/ Stray
    \/ \A p \in Places :
         /\ Open(At(p))
         /\ \A q \in Places : At(p) = At(q) => p = q \/ JoinedSeveral(owner[At(p)])

(* Until then the main thread calls recv() in the scan on a socket that    *)
(* has nothing to read only if it stands in several rooms: every other     *)
(* socket still to come in the scan has data or is lost, in spite of the   *)
(* erasures under the loop (RunSocket, lines 129-175).                     *)
ScanNeverBlocks ==
  pc = "scan" =>
    \/ Stray
    \/ \A p \in Places :
         Ahead(p) => HasData(At(p)) \/ Lost(At(p)) \/ JoinedSeveral(owner[At(p)])

(* What a connection hears from another one comes in the order it was      *)
(* said, nothing twice, whichever rooms they share (RunSocket, TEXT).      *)
TextsInOrder ==
  \A c, d \in Clients : \A i, j \in 1..Len(out[c]) :
    /\ i < j
    /\ out[c][i].type = "TEXT" /\ out[c][j].type = "TEXT"
    /\ out[c][i].from = d /\ out[c][j].from = d
    => out[c][i].n < out[c][j].n

(* An answer comes to a connection that did not ask for it only if the     *)
(* server has closed the one that did: requestorId is the handle, and the  *)
(* system may have given it to another connection meanwhile (RunSocket,    *)
(* line 348; ReceiveAthSocketMessages, lines 565-573).                     *)
AnswersToAsker ==
  \A c \in Clients : \A i \in 1..Len(out[c]) :
    IsAnswer(out[c][i]) /\ out[c][i].by # c => link[out[c][i].by] = "shut"

(* ChatHall: what a client says is taken in order; who joins or leaves a   *)
(* room is announced to the others in it and a text is heard by all the    *)
(* others in the speaker's rooms, unless one of their connections is       *)
(* broken; a login puts into the lobby, silently; only who has closed is   *)
(* removed unasked, and only when all that it sent is read; an answer      *)
(* comes to one connection.  Whoever holds a listed handle is in the room. *)
(* It holds until a handle may be left behind in the table, or a first     *)
(* JOIN_ROOM names a room twice and stands in it twice (RunSocket;         *)
(* JoinRoom; BroadcastMessage; ReceiveAthSocketMessages).                  *)
Members == [r \in RoomIds |->
              {c \in Clients : \E h \in Sockets : owner[h] = c /\ Contains(rooms[r], h)}]
Cut == {c \in Clients : link[c] = "rst"}
Gone == {c \in Clients : link[c] \in {"fin", "rst", "shut"}}
Waiting == {c \in Clients : pc = "add" /\ \E h \in fresh : owner[h] = c}
Words == UNION {{s[i] : i \in 1..Len(s)} : s \in Scripts}
Hall == INSTANCE ChatHall WITH
          People <- Clients, Rooms <- RoomIds, Most <- MaxBatch, Answers <- Response,
          members <- Members, waiting <- Waiting, gone <- Gone, cut <- Cut,
          wishes <- inq, spoken <- sent, heard <- out
NamedTwice == \E c \in Clients : /\ JoinedSeveral(c)
                                 /\ \E i, j \in 1..Len(script[c][1].arg) :
                                      i # j /\ script[c][1].arg[i] = script[c][1].arg[j]
ImplementsHall == Hall!Init /\ [][(Stray \/ NamedTwice)' \/ Hall!Next]_(Hall!hallVars)

(* RunSocket, line 265: the recv() after accept() has nothing to return.   *)
WaitsForFirst == pc = "first" /\ \A h \in fresh : ~HasData(h) /\ ~Lost(h)

(* Every packet sent to the server is read in the end: the scan serves all *)
(* listed sockets and new connections alike, also when a LEAVE_ROOM erases *)
(* an entry under it (line 223) and when the authentication server is      *)
(* lost, provided FD_SETSIZE suffices; or else the main thread stays in    *)
(* the recv() after accept() for ever, for a connection that sends nothing *)
(* and does not close.                                                     *)
PacketsConsumed ==
  (\A c \in Clients : inq[c] # <<>> ~> inq[c] = <<>> \/ ~alive) \/ <>[]WaitsForFirst

(* "Use a timeval to prevent select from waiting forever"                  *)
(* (ChatServer.cpp:111): the main loop keeps coming round, unless that     *)
(* recv() stops it.                                                        *)
MainLoopTurns == []<>(pc = "select" \/ ~alive) \/ <>[]WaitsForFirst

(* "Someone has left the room." (ChatServer.cpp:154) reaches the others in *)
(* the room of a lost connection ("Broadcast message to the other          *)
(* connections in the room", ChatServer.cpp:393).                          *)
DisconnectTellsRoom ==
  [][\A p \in Places :
       pc = "scan" /\ NextPlace(p) /\ rooms' # rooms /\ Lost(At(p))
       => \A i \in 1..Len(rooms[p[1]]) :
            LET h == rooms[p[1]][i] IN
            h # At(p) /\ h \notin Broken => Len(out'[owner[h]]) > Len(out[owner[h]])]_vars

(* "Enter the name of an existing chat room or create a new room"          *)
(* (READ_ME.md:31): once the server has read a JOIN_ROOM, the connection   *)
(* is in the rooms it names.                                               *)
Consumed(c) == IF link[c] \in {"up", "fin"} THEN sent[c] - Len(inq[c]) ELSE 0
JoinTakesEffect ==
  \A h \in Sockets : Open(h) =>
    LET c == owner[h] IN
    \A i \in 1..Consumed(c) : script[c][i].type = "JOIN_ROOM" =>
      \A k \in 1..Len(script[c][i].arg) :
        \/ Contains(rooms[script[c][i].arg[k]], h)
        \/ \E j \in 1..sent[c] : script[c][j].type = "LEAVE_ROOM"

(* "Type-1 to Login or Type-2 to Register" (READ_ME.md:29): a client that  *)
(* asks and stays connected is answered, data races apart.                 *)
LoginAnswered ==
  \A c \in Clients :
    Asked(c) = 1 ~> Answered(c) >= 1 \/ link[c] # "up" \/ raced \/ ~alive

(* "Start typing messages and press 'Enter' to send messages to the chat   *)
(* room" (READ_ME.md:33): whatever recv() takes from a member's stream,    *)
(* each text in it reaches the other members whose connection works.       *)
TextReachesRoom ==
  [][\A h \in Listed :
       LET c == owner[h] IN
       pc = "scan" /\ Open(h) /\ link[c] = "up" /\ Broken \cap Listed = {} /\ inq'[c] # inq[c]
       /\ sent' = sent /\ link' = link
       => \A i \in (sent[c] - Len(inq[c]) + 1)..(sent[c] - Len(inq'[c])) :
            script[c][i].type = "TEXT" =>
              \A g \in Roommates(rooms, h) :
                Message("TEXT", c, i) \in {out'[owner[g]][k] : k \in 1..Len(out'[owner[g]])}]_vars
=============================================================================
