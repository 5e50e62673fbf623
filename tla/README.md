# A verification of the chat system

The repository is a chat system of three Windows programs: a chat server
(`src/Server`), an authentication server (`src/AuthenticationServer`) with a
MySQL database, and a console client (`src/Client`).  This directory holds TLA+
modules that model the three programs and the packets between them, the TLC
configurations that check them, and proofs of their theorems that TLAPS checks.

To check a model: `tlc -workers 2 -config MCChatLobby.cfg MCChatServer.tla`.
To check a proof: `tlapm AuthServerProofs.tla`.

## 1. The system

    client --.                        .-- MySQL: web_auth, user
    client ----> chat server <---> authentication server
    client --'   main thread           one thread
                 relay thread

Everything goes over TCP, in packets of four 32-bit numbers (size, type, length
of the message, length of the name) and two strings (`Message.h`, `Buffer.h`).
Login and registration messages are protocol buffers
(`authentication.proto`) inside such a packet.

| Component | State | Operations | Talks to |
|---|---|---|---|
| Room table (`ChatServer::rooms`) | map from room name to the vector of its sockets | find, push_back, erase | shared by both threads of the chat server, no lock |
| Broadcast (`BroadcastMessage`) | local set `sentSockets` | send one message to every roommate of a socket | clients |
| Main loop (`ChatServer::RunSocket`) | the sets of `select()`, the place of the scan | poll, read and dispatch a packet, drop lost sockets, accept and read a first packet | clients, room table, authentication server |
| Relay thread (`ReceiveAthSocketMessages`) | one answer | read an answer, give it to every place that lists its handle | authentication server, room table, clients |
| Authentication server loop (`AuthServer::RunSocket`) | `clients` | poll, read, dispatch, answer, accept | chat servers |
| Accounts (`Authenticate`, `RecordLogin`, `CreateAccount`, `Database`) | tables `web_auth` and `user` | register, log in, record a login | MySQL |
| Client (`ChatClient`) | flags `isLoggedIn`, `isWaitingForResponse`, `isRunning`, list `chatRooms` | log in, register, join, talk, leave; a thread that receives | chat server |
| Packets (`Buffer`, `Message.h`) | bytes and indices | read and write numbers and strings, compute sizes | all three programs |

What is hard here, and what each part has to achieve:

* *Room table, main loop.*  The table is erased under the loop that scans it,
  handles are closed and reused by the system, and `recv()` is blocking: one
  handle too many in the table, or one `recv()` too many, stops the server.
  Correct: the table holds open sockets, `recv()` is called only where it
  cannot wait, everything sent is read, the loop keeps turning.
* *Broadcast.*  Rooms overlap and sends fail.  Correct: every roommate once,
  nobody else.
* *Relay thread.*  It races with the main thread, both in the order of their
  steps and on the memory of the table.  Correct: who asks is answered.
* *Streams.*  One `recv()` may return several packets, and every reader
  interprets only the first.  Correct: messages reach the room, in order, once.
* *Accounts.*  Every SQL statement may fail before or after its effect, and the
  process may be killed between any two.  Correct: one account per email, a
  success is reported only for what is in the tables, and at most once.
* *Authentication server loop.*  Connections closed by their peer are never
  removed.  Correct: the others are served nevertheless, and answers follow
  their requests.
* *Client.*  Two threads share three flags without synchronisation, answers may
  be lost or doubled, and a list is erased under the loop over it.  Correct: it
  waits only for what is still to come, nobody gets in without a login, its
  rooms are those the server was told of, and it ends when asked to.
* *Packets.*  TCP cuts and joins packets, lengths come from the network, and the
  broadcast computes a size of its own.  Correct: packets that fit and come whole
  are read in order, without an exception and with nothing lost but what the
  count leaves out; a sender stays in its buffer.

`PROJECT.json` lists these hazards at the lines where they bite.

## 2. The modules

| Module | What it is |
|---|---|
| `ChatRooms` | the room table and its operations, as functions; what a broadcast should achieve (`Roommates`, `Reached`) |
| `BroadcastLoop` | `BroadcastMessage`, one step per turn of the inner loop |
| `BroadcastLoopProofs` | its theorems |
| `ChatHall` | abstract: what people say, who is in a room, who is told what |
| `ChatServer` | the chat server: both threads, the sockets, clients and authentication server as environment |
| `ChatServerProofs` | its type theorem |
| `ChatStreamsProofs` | what is sent to whom: order of texts, addressees of answers |
| `ChatScanProofs` | which connection a handle is of, what lies unread, which texts reach a room; the room table under the scan, and who can hold up the scan |
| `ChatRoomsProofs` | the server implements `ChatHall` |
| `AccountBook` | abstract: what the authentication server promises about accounts |
| `AuthServer` | the authentication server, its tables, kills and restarts, chat servers as environment |
| `AuthServerProofs` | its theorems, among them that it implements `AccountBook`; what a first login records, the order of answers |
| `ClientRole` | abstract: what a server may rely on from one connection of the client program |
| `ChatClient` | the client program: both threads and the flags between them, the user and the servers as environment |
| `ChatClientProofs` | its theorems, among them that it implements `ClientRole` |
| `Wire` | one direction of one connection, byte by byte: `Buffer`, sizes, cut and joined packets |
| `WireProofs` | its theorems: sizes of packets and buffers, what four bytes carry, whole packets |
| `MCBroadcastLoop`, `MCChatServer`, `MCAuthServer`, `MCChatClient`, `MCWire` | values of the constants for TLC |

How they hang together: `BroadcastLoop` shows that a broadcast has the effect
that `ChatServer` takes as one step; `ChatClient` implements `ClientRole`, which
is how `ChatServer` takes its clients to behave (`MaySend`); `AuthServer`
answers requests in order and at most once (`AnswersFollowRequests`), which is
how `ChatServer` takes the authentication server to behave (`AuthReply`), but
for its loss (`AuthLost`); `Wire` says when packets may be taken to be whole.

### ChatRooms, BroadcastLoop

A room is its position in the order of `std::map`; the room with the empty name,
where logins and registrations put a connection, is `Lobby` and comes first.  A
room that does not exist behaves like one without clients, so `JoinRoom` and
`CreateRooms` need no creation of rooms.

`BroadcastLoop` is the call seen from inside: `Skip`, `Send`, `SendFails` (the
`return` in the loop), `NextRoom`, `Return`.  Its table, its sender and the set
of sockets on which `send()` fails are chosen in `Init`.  `DeliversReached` says
that the call has the effect that `ChatServer` takes as one step, `Reached`.

### ChatServer

The main thread is cut where something else can happen in between: `Select`,
one `Scan` step per socket that is read (with everything the code does about
what it read: `Disconnect`, `Text`, `Leave`, `Request`, `Ignore`), `ScanEnd`,
`Accept`, `First` (the blocking first `recv()` with the forwarding of a request
or the whole of `JoinRoom`) and `Add` (the `push_back` after the forwarding).
The relay thread is cut into `AuthReceive` and `AuthDeliver`.

* `rooms` and `ready` are the table and the set that `select()` left; `cur` is
  the position `(room, i)` of the two loops, so that `i--` and its absence after
  an erasure are visible (`Again`, `Further`).
* `owner` says which connection is behind a handle, so that closed handles and
  reused handles exist; `select()` on a closed handle fails and leaves the sets
  as they were passed, as the code then finds them.
* A stream is a sequence of packets.  `recv()` returns one to `MaxBatch` of
  them, and only the first is interpreted (`Receive`).
* A change of the table while the relay thread walks it is a data race
  (`raced`): the walk may then miss places, deliver twice, or end the process
  (`alive`).
* `avail` is the listening socket in the set together with `count > 0`.

Clients send the packets of a script in order, wait for the answer to each login
or registration as `LoginClient` does, and may close (`fin`) or be reset (`rst`)
at any time.  The authentication server answers a batch of requests once, until
the connection to it is lost (`AuthLost`): from then on requests go nowhere, and
every `recv()` of the relay thread fails at once.

Clients send nothing until they do: a client may connect and stay silent, as the
client program does until its user has typed something.  `Receive` takes packets
to be whole; that `Buffer::ReadString` ends the process when one is not, or is
larger than the buffer, is modelled in `Wire` only.

`ChatHall` knows members of rooms, people who have hung up, what each person has
said and nobody has attended to yet (`wishes`), and what each person has been
told.  What a person says is taken from the front, with as much of the rest as
one `recv()` returns, and is one of: `Say` (a text), `Join`, `Leave`, `Call` (a
login or a registration; a `Seat` in the lobby follows), or to be ignored.  All
others in the rooms of who says a text, joins or leaves are told, no more and no
fewer; while the connection of one of them is broken some may miss it, because
the broadcast ends at the first `send()` that fails.  There is no step that
enters or leaves unheard but `Seat`, which announces nobody, and `Vanish`, which
removes who has hung up when all that was said before is taken.  `ChatServer`
implements it with the owners of the handles in a room as its members, `inq` as
the wishes and `out` as what is heard.  The refinement holds for every script
until one of two things has happened, which `ImplementsHall` names: a handle may
have been left behind in the table (`Stray`: a connection was closed that had
joined several rooms, or was to leave another room than its own), after which
handles of one connection may be heard as another's; or a first JOIN_ROOM names
a room twice (`NamedTwice`), so that one LEAVE_ROOM does not take it out.

### AuthServer, AccountBook

The loop (`Select`, `Receive`, `ReceiveNothing`, `ReceiveFails`, `ScanEnd`,
`Accept`) and the handlers, cut at every SQL statement: `Find`, `Insert`
(`CreateAccount`); `Lookup`, `Check` (`Authenticate`); `Record`, `Touch`,
`Enter` (`RecordLogin`); and `Send`.  A statement that writes may fail without
or with its effect.  `Crash` is possible at any time, `Restart` finds the tables
and loses the connections.  `ReceiveFails` ends in `down` too: the code closes
the listening socket and calls `WSACleanup`, after which no socket call works.
Where the code runs the same `SELECT` twice the model has one.  The date that
`RecordLogin` writes is the local time it takes before its first statement
(`stamp`), and the local time may be set back at any moment (`Tick`), as it is
when summer time ends.  A salted hash
stands for the password it was made from: two hashes are equal exactly when the
passwords are.

`AccountBook` has four operations: `Open` an account that does not exist,
`Enrol` a member, `Welcome` somebody (once per account), `Admit` to an account
with its password and only after enrolment.  `AuthServer` implements it with
`account` as `web_auth`, `member` as the emails of `user`, and `welcomed` and
`admitted` read off the responses sent so far.

### ChatClient, ClientRole

The main thread (`LoginClient`, `JoinRoom`, `RunSocket`) and the receiving thread
(`ReceiveMessages`) are cut at each access of `isLoggedIn`,
`isWaitingForResponse` and `isRunning`, so that an answer may be handled between
the sending of a request and the setting of the flag, or between the two reads of
the login loop.  `ReceiveAnswer` and `ClearWaiting` are the two writes of
`OnLoginResponse` and `OnRegisterResponse`.  `Exit`, `LeaveNext` and `LeaveEnd`
are the range-`for` over `chatRooms` from which `SendLeaveMessage` erases: its
end is taken once, so that with several rooms some are skipped and the last turns
read past what is left, which is undefined (`LeaveNext` reads an empty name or
ends the process).  `LeaveNameless` is the exception that a bare `\LR` throws.
Requests are answered zero to `MaxCopies` times, because the chat server drops
and doubles answers; each copy knows which request it answers (`to`).
`TestRunning` reads `isRunning` before `recv()` waits, so that one packet may
still be handled after it was cleared.  Histories (`heard`, `admitted`, `had`,
`lost`, `overtaken`, `late`, `told`) are read by properties only; `had`, `lost`
and `overtaken` are about the last request alone.

`ClientRole` sees the same on the connection: requests sent, answers received,
whether rooms have been joined, packets sent after that.

### Wire

A packet is written as the code writes it: `Number` is `WriteUInt32LE`, which
shifts the number and keeps one byte of it four times, `EnsureCapacity` grows the buffer, `PacketSize` is what the
header says and what is passed to `send()`.  `SendChatMessage` of both programs
and `SendResponseMessage` count what they write; `BroadcastMessage` counts
`sizeof(std::string)` for the name instead of its length and the length field.
`Receive` reads one to `BufSize` bytes of the stream into a zeroed buffer and
interprets them as one packet, whatever they are; `ReadString` checks
`at + length` modulo 2^32, as `Buffer.h:94` does, throws, or reads on behind the
buffer when the sum has wrapped (`overread`).  Messages and names are any bytes.

## 3. The runs

Violations are disagreements of the code with what a document or a comment of
the repository says.  They are listed as findings.

| Run | Bounds | What it shows |
|---|---|---|
| `broadcast` | 3 sockets, 2 rooms of up to 3 entries, every sender, every set of failing sockets | nobody twice; a complete call reaches exactly the roommates; an aborted call exactly those listed before the failure |
| `chat_lobby` | 3 clients that join the lobby with their first packet and talk, 3 handles, one packet per `recv()` | no dead or double handle at `select()`; the scan never waits in `recv()`; a text reaches all other members; the hall is implemented (nothing is excepted here: no script leaves or joins several rooms) |
| `chat_rooms` | 2 clients with any of six scripts (all packet types, a room joined and another left, two rooms joined, one room joined twice, the client program's own script), 2 rooms, 2 handles, up to 2 packets per `recv()` | types; texts in order and never twice, and answers only to who asked or to who got the handle of a closed connection, in spite of overlapping rooms, reused handles and the data race; until the server is `Stray`, no dead handle, waiting in the scan only on connections in several rooms, and the hall is implemented |
| `chat_live` | 2 clients that log in and talk or join a room and leave it, 2 rooms, up to 2 packets per `recv()`, FD_SET of 3, the authentication server may be lost | everything sent is read and the main loop keeps turning, or else stays in the first `recv()` of a connection that neither sends nor closes; no dead or double handle, no waiting in the scan, when a connection is listed only after its request was forwarded |
| `login_unanswered` | 1 client | violated: a login may never be answered |
| `join_ignored` | 1 client with the client program's script | violated: JOIN_ROOM after a login has no effect |
| `text_lost` | 2 clients, up to 2 packets per `recv()` | violated: the second of two texts read together reaches nobody |
| `leave_unheard` | 2 clients | violated: the room of a lost connection is not told |
| `auth_server` | 1 email, 2 passwords, 2 connections with up to 2 requests each and 3 in all, a local time of 2 values | types; sound logins; one winner; answers follow requests; what a first login recorded stays, its date included; the book is implemented |
| `auth_live` | 3 connections, FD_SET of 3, 2 requests, up to 2 per `recv()` | every request is read unless the server goes down or the connection is listed beyond the FD_SET |
| `chat_client` | 3 requests, each answered up to twice, 2 packets in the chat and 1 from others, up to 2 packets per `recv()`, 5 lists of up to three different rooms | types; while it waits, the answer to the last request is still to come unless it was lost or was handled before the flag was set; no entry without a login; at most one late prompt; rooms as told to the server; the role is implemented; the wait and the exit end |
| `wire` | 16 values of a byte, buffer of 24 bytes, `std::string` of 8, 8 messages, 2 sends | types; whole packets that fit are read in order without an exception, and of a broadcast's name exactly what the count leaves out is lost; the sender stays in its buffer unless a broadcast counts too much |

Why the bounds are enough.  A broadcast involves a sender, a client that is
reached and one whose send fails: three sockets; two rooms that overlap in any
way, with duplicates.  An erasure under the scan needs an entry before and an
entry after the one that is erased: three clients.  Reordering and coalescing
need two packets of one client.  A leaving of another room than the one that is
being scanned needs two rooms.  The relay race needs one client, reuse of a
handle two.  For an email, a conflict needs two requests; the third
is the login, or the retry after a failure or a restart, and accounts of different emails
share nothing.  `FdSetSize` of 64 stands for a set that is never full; 3 is one
place for the listening socket and one for each of two clients, the tightest set
that still serves everybody in `chat_live`, and one too small in `auth_live`,
where a third connection can be listed behind two dead ones.  `MaxBatch` of 1 is used where a property is about
something else than coalescing, and both `text_lost` and `chat_lobby` check
`TextReachesRoom`: it holds when `recv()` returns one packet and fails when it
returns two.
Symmetry of clients, handles and connections is used in safety runs only.

In `chat_client`, three requests are one that is answered late, one in between and
one that lets the user in; an answer handled too early or twice needs two; and
erasing under the loop over three rooms skips one and reads past the end once,
as with any longer list.  In `wire` every size stands just below, at and just
above a limit: the buffer, its double, the count of the broadcast; two packets
are what cutting and joining needs, since a reader keeps nothing from one
`recv()` to the next.  The messages hold the highest value of a byte too, so that
a cut stream yields lengths at which `at + length` wraps; no property is
restricted to others.

Bounds that are not in the code: the length of the scripts, `MaxBatch`,
`MaxAsked`, `MaxTotal`, `MaxTime`, `MaxAsks`, `MaxSaid`, `MaxChats`,
`MaxCopies`, `MaxSends`.

Fairness.  `FairSpec` of the chat server assumes that the main thread, the relay
thread and the authentication server keep running; the first two are loops over
`isRunning`, which nothing ever clears.  Nothing is assumed of clients, so
`LoginAnswered` is refuted without their help, and `PacketsConsumed` and
`MainLoopTurns` except the behaviours in which the main thread ends up in the
`recv()` after `accept()` for ever (`WaitsForFirst`): the client program connects
before its user has typed anything, and one that stays silent stops the server
for all.  `FairSpec` of the authentication server assumes that its thread
keeps running until it is down; kills and restarts are not assumed.  `FairSpec`
of the client assumes that both its threads run, and that the compiler leaves
the reads of the flags in their loops (they are plain `bool`s); nothing is
assumed of the user, who need not type anything, nor of the servers, who need
not answer.

Deadlock is checked in all passing runs but `broadcast`, where the call ends;
the runs that expect a violation are about one property and do not check it.
Steps that stutter for ever in the code too (`SelectTimeout`, `Ended`, `Idle`)
are actions, so that a deadlock is a state in which a thread waits for what
nobody can provide any more.

## 4. The proofs

TLAPS proves the following for every number of clients, sockets, rooms, emails,
passwords, connections and requests, every script and every `MaxBatch` and
`FdSetSize`, from the named assumptions on the constants only (sets the inputs
are drawn from, positive bounds, model values that are none of the ordinary
values).

* `BroadcastLoopProofs`: the inductive invariant relates the position of the
  loop to what has been sent: `sentSockets` is exactly the set of sockets at
  places before the position, in rooms of the sender, the sender excepted, and
  none of them is in `dead`.  `NobodyTwice` is part of it; `BroadcastExact` and
  `BroadcastReaches` follow when the loop has come to its end or to a failing
  send.
* `ChatServerProofs`: type correctness, `Typed`.  `TypeOK` alone is not
  inductive, because the number of a text is a difference of counters; the
  strengthening `UnreadWasSent` says that no more packets wait than were sent.
* `ChatStreamsProofs`: `TextsAreInOrder` and `AnswersGoToTheAsker`, whatever the
  scripts, and through the data race.  Of a text, the invariant `TextInv` says
  that nobody has heard a number higher than what has been read of its author
  (`Read`), so that the next one is new; of an answer, `AskInv` says that
  wherever it is on its way, the asker is still behind the handle it carries or
  has been closed by the server.  `Effects` states once what every action does to
  streams, queues and links, and the invariants are shown to follow from it.
* `ChatScanProofs` is about all clients and all scripts.  Its invariants:
  `OwnersInv`, no connection has two handles, and one in the backlog has none,
  so that closing a handle and reusing it disturbs nobody else; `SentInv` and
  `UnreadInv`, what is unread of a client is the end of what it has sent of its
  script.  `HeldInv` says that the server is `Stray` or the table is tidy: it
  never gets tidy again once a handle may have been left behind.  Tidy means
  (`TidyInv`) that a listed handle is open (`OpenInv`) and stands in the table
  once unless its connection joined several rooms (`Once`, with `Spread`); that
  of what the scan has still to come to, the sockets in `ready` have data or are
  lost, again but for those in several rooms (`AheadInv`); and that a handle is
  listed only in the rooms its connection's first packet names (`HomeInv`; with
  `FirstInv`, what is read first of a connection is that packet).  The last makes
  a LEAVE_ROOM erase the entry that is being read and not close a handle that
  stays listed, or else makes the server `Stray` (`LeavingElsewhere`).  The
  erasure of a lost socket keeps `AheadInv` because it takes the index back, and
  that of a leaving one because it skips an entry and adds none.
  `HandlesInRoomsAreOpen` and `ScanIsNeverHeldUp` follow, with no hypothesis.
  `SingleTextsReachRoom` is `TextReachesRoom` under `MaxBatch = 1`: the text at
  the head of a stream is then what `recv()` returns, alone, and the broadcast
  reaches the others.  Without the hypothesis the property is false, as the run
  `text_lost` shows, so that the two together say exactly what is lost.
* `ChatRoomsProofs` adds to `HeldInv` that a handle stands in each room once
  until the server is `Stray` or a room was named twice (`HallInv`), and maps the
  steps: `Text` is `Say`, `JoinRoom` is `Join`,
  `Leave` is `Leave` when the connection is in the room and makes the server
  `Stray` when not, `Request` and `Ignore` and what is read first are `Call`,
  `Ignore` or, when the connection had closed before its first packet, a stutter,
  `Add` is `Seat`, `Disconnect` is `Vanish` (it tells nobody, since the handle is
  in one room, and leaves nothing unread), sending is `Wish`, closing `HangUp` or
  `Break`, `AuthDeliver` is `Answered` or a stutter, all else stutters.
  `BroadcastTold` says that a broadcast over the table tells exactly the others
  in the rooms of the sender's connection; `GrownMembers` and `MembersErased`
  what appending and erasing handles do to the members.  `ServerImplementsHall`
  has no hypothesis: the exceptions are in the property.
* `AuthServerProofs`: `AuthServerInvariant` is the inductive invariant.
  `TaskInv` carries what a handler has found in the tables from one statement to
  the next (an account that did not exist at `Find` still does not at `Insert`,
  because there is one thread); `AnswerInv` says that the response about to be
  sent is true and, if it reports a new account, that no earlier one did;
  `CountInv` keeps one request unanswered while it is handled.  From it follow
  `Typed`, `LoginsAreSound` and `OneRegistrationWins`, and
  `ServerImplementsBook`: `Insert` is `Open` or a stutter, `Enter` is `Enrol` or
  a stutter, `Send` is `Welcome`, `Admit` or a stutter, all else stutters.
  `MembersKeepAccounts` is an action property: a step that writes `user` is
  `Touch`, which rewrites `last_login` only, or `Enter`, which finds no row
  because `Record` found none and there is one thread; and one that writes
  `web_auth` is `Insert`, which finds no account there.  `AnswersKeepOrder` needs
  that the request at hand has been taken from its stream and is later than all
  that have been answered on it (`FollowInv`).
* `ChatClientProofs`: `WaitJustified`, `EnteredAfterLogin`, `PromptedOnceMore`
  and `ClientImplementsRole`, for any number of requests, answers and rooms.
  `WaitJustified` has the invariant `AnswerInv`: once something has been asked,
  the answer to the last request is to come, lost, or had; when the flag is set
  and it was had, the wait counts as overtaken, and `ClearWaiting` is the only
  step after which it was had and the flag is clear.  What a `recv()` drops is
  followed packet by packet (`ReceivedAnswer`).  The
  invariant of the others counts: all requests but the last are answered and their answers
  handled to the end, and so is the last when the program does not wait and is
  not between sending and setting the flag (`WaitInv`); a request sent while
  logged in can only be the one that the pair of reads let through (`LateInv`).
  `ClientTypes` and `RoomsKeptAsTold` are about the list of rooms: `ListInv`
  says that `chatRooms` repeats no room and that its rooms are the ones in
  `told`.  `NamedKept` is what `JoinRoom` makes of a list of any length, empty
  and repeated names included; `ErasedOnce` what `SendLeaveMessage` leaves, in the
  loop of `exit` too; `CountedOnce` turns "no room twice" into a cardinality.
* `WireProofs`: `SendersStayInBuffer`, because `EnsureCapacity` makes room for
  all that is written (`WrittenIsHeld`), whatever the lengths; and
  `FittingIsReadable`, why the limits in `Fits` are the right ones.
  `NumberRead` says that `ReadUInt32LE` reads from four bytes what
  `WriteUInt32LE` wrote, below 2^32, for any size of a byte; `WireTypes` and
  what follows rest on it.  `WholePacketsArrive` has the invariant `InStep`: as
  long as every `recv()` returned one packet and all messages fit, the bytes in
  the stream are exactly the packets that have not been read, one behind the
  other (`Aligned`), and nothing has been thrown.  Then the next packet starts
  where the reader starts, and the reader finds the packet and, behind the bytes
  of the name that were sent, zeros (`ReadsBack`).  `ByteAssumption` (a byte has
  more than 8 values, and two bytes can count to `BufSize`) and `SizeAssumption`
  (a `std::string` is no smaller than a number, four numbers fit into a buffer)
  hold of the program's 256, 512 and any `sizeof(std::string)`, and of the run.

Induction.  The library's induction theorems take an operator as a parameter,
which the provers cannot instantiate.  Where a recursive definition is the
model's own (`Named`), it is written as a recursive function, and its value is
shown by induction over a set: the numbers for which a statement holds contain 0
and the successor of each, so they are all numbers, since otherwise there would
be a least exception (`Numbers`, `LeastOf`).

Only model-checked is liveness (`PacketsConsumed`, `MainLoopTurns`,
`RequestsServed`, `WaitEnds`, `ExitEnds`), which is beyond the prover.  Every
other property of the passing runs is a theorem, and one of them has a hypothesis
of its own: `TextReachesRoom` (`MaxBatch = 1`).

Where the code does not do what one would like to state, the property names the
exception as a formula: `Stray`, `NamedTwice`, `JoinedSeveral`, `WaitsForFirst`,
`BeyondFdSet`, `overtaken`, `lost`, `whole`, `Fits`.  None of them is assumed
not to happen: a run reaches each.

## 5. What is not modelled

* *Generated and vendored code.*  The programs' own code is about 2,000 lines
  in `src/Server`, `src/AuthenticationServer`, `src/Client` and four headers of
  `src/Dev/include`; nearly all of it that changes state is modelled.  The rest
  of the repository, some 327,000 lines, is protocol buffers, OpenSSL and the
  MySQL connector as their vendors ship them, with their tests, and what
  `protoc` generated.  The modules speak of them only as the source uses them,
  so the share of all lines in the repository that the modules stand for is, and
  has to be, small.
* *Cut and oversized packets in the chat server.*  `Buffer::ReadString` throws
  when the lengths in a packet do not fit into its buffer (`Buffer.h:94`), and
  nobody catches it, so that such a packet ends the process that reads it.
  `ChatServer`, `AuthServer` and `ChatClient` take packets to be whole and to
  fit; `Wire` has the exception, and says when it cannot happen.
* *Blocking sends.*  `send()` succeeds or fails at once.
* *Running out of handles* makes `Accept` wait instead of fail.
* *Contents.*  Hashes and salts; names and texts, but for their lengths in
  `Wire`; what is printed.  That the answer to a failed registration lacks a
  required field (`AuthServer.cpp:134`, `authentication.proto:33`) is in
  `ChatServer` as an answer the relay cannot parse (`ok`).
* *Start-up and console*: opening the sockets, the failed connect to the
  database, waiting for a key.
* *Code without a caller*: `Select`, `Update` and `Insert` of `Database`,
  `WriteUInt16LE` and `ReadUInt16LE` of `Buffer`.

## 6. Plan

Done: all components that keep state, with an abstract specification for each of
the three programs (`ChatHall`, `AccountBook`, `ClientRole`) that it is proved to
implement.  What would be next:

1. `ChatSystem`: `ChatServer`, `AuthServer` and several `ChatClient`s as one
   specification.  The parts meet today through what each assumes of the others;
   the composition would be too large for TLC with more than one client and
   would have to be carried by the proofs.
2. The hall after a handle was left behind: `ImplementsHall` ends where the server
   is `Stray`.  What then still holds (`TextsInOrder` and `AnswersToAsker` do)
   could be a hall whose members are handles and not people.
