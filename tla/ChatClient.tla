------------------------------ MODULE ChatClient ------------------------------
(***************************************************************************)
(* The client program (Client/ChatClient.cpp, client_main.cpp).            *)
(*                                                                         *)
(* The main thread logs in, joins rooms and reads lines from the console;  *)
(* a second thread receives.  They share three flags without a lock, so    *)
(* each access of a flag is a step of its own.  The user and the servers   *)
(* are the environment: a request is answered any number of times up to    *)
(* MaxCopies, in order; zero times is an answer that was lost.             *)
(***************************************************************************)
EXTENDS Integers, SequencesExt

CONSTANTS Rooms,      \* names of rooms
          NoName,     \* the empty string
          RoomChoices,    \* what a user may enter as rooms: sequences of names
          MaxAsks,    \* bound: requests the user makes
          MaxSaid,    \* bound: packets sent in the chat
          MaxChats,   \* bound: texts and notifications from others
          MaxCopies,  \* most answers to one request
          MaxBatch    \* most packets one recv() returns (512 bytes)

ASSUME ClientAssumption == /\ NoName \notin Rooms
                           /\ RoomChoices \subseteq Seq(Rooms \cup {NoName})
                           /\ MaxAsks \in Nat /\ MaxSaid \in Nat /\ MaxChats \in Nat
                           /\ MaxCopies \in Nat /\ MaxBatch \in Nat \ {0}

Requests == {"LOGIN", "REGISTER"}
(* MESSAGE_TYPE of what is received; ok: the answer carries no `reason`;   *)
(* to: the number of the request it answers, which only the model knows.   *)
Packet == [type : {"LOGIN_RESPONSE", "REGISTER_RESPONSE", "CHAT"}, ok : BOOLEAN, to : Nat]

VARIABLES
  isLoggedIn, isWaitingForResponse, isRunning,   \* the flags
  chatRooms,   \* ChatClient::chatRooms
  pc,          \* the main thread
  it, end,     \* the range-for over chatRooms when the user exits
  rpc,         \* the receiving thread: "test", "recv", "clear", "off"
  inbox,       \* packets from the server, not yet received
  owed,        \* requests not yet answered
  chats,       \* texts and notifications that came
  asked, said, \* requests sent; packets sent after joining
  heard,       \* answers the receiving thread has looked at (history)
  admitted,    \* one of them was a successful login (history)
  had,         \* an answer to the last request has been looked at (history)
  lost,        \* an answer to the last request never comes (history)
  overtaken,   \* the last wait began after its answer was handled (history)
  late,        \* requests sent since isLoggedIn was last set (history)
  told         \* rooms the server was told of and not told to leave (history)

flags == <<isLoggedIn, isWaitingForResponse, isRunning>>
loopVars == <<it, end>>
netVars == <<inbox, owed, chats>>
answers == <<heard, had, lost, admitted>>
history == <<asked, said, answers, overtaken, late, told>>
vars == <<flags, chatRooms, pc, loopVars, rpc, netVars, history>>

Init == /\ isLoggedIn = FALSE /\ isWaitingForResponse = FALSE /\ isRunning = TRUE
        /\ chatRooms = <<>> /\ pc = "login" /\ it = 0 /\ end = 0
        /\ rpc = "test" /\ inbox = <<>> /\ owed = <<>> /\ chats = 0
        /\ asked = 0 /\ said = 0 /\ heard = 0 /\ had = FALSE /\ lost = FALSE
        /\ admitted = FALSE /\ overtaken = FALSE /\ late = 0 /\ told = {}

(* Answers whose handling is complete. *)
Handled == IF rpc = "clear" THEN heard - 1 ELSE heard
(* The answer to the last request: it has been handled to the end; it is   *)
(* not yet made, on its way, or being handled.                             *)
AnswerHandled == had /\ rpc # "clear"
AnswerComing == \/ owed # <<>>
                \/ \E i \in 1..Len(inbox) : inbox[i].to = asked
                \/ had /\ rpc = "clear"
-----------------------------------------------------------------------------
(* LoginClient.                                                            *)

(* while (!isLoggedIn) *)
CheckLogin ==
  /\ pc = "login"
  /\ pc' = IF isLoggedIn THEN "join" ELSE "poll"
  /\ UNCHANGED <<flags, chatRooms, loopVars, rpc, netVars, history>>

CheckWaitingNot ==
  /\ pc = "poll" /\ pc' = "prompt"
  /\ UNCHANGED <<flags, chatRooms, loopVars, rpc, netVars, history>>
(* if (!isWaitingForResponse): the loop is a busy wait. *)
CheckWaiting ==
  /\ pc = "poll"
  /\ pc' = IF isWaitingForResponse THEN "login" ELSE "prompt"
  /\ UNCHANGED <<flags, chatRooms, loopVars, rpc, netVars, history>>

(* The user chooses 1 or 2, and the request is sent ... *)
SendRequest ==
  /\ pc = "prompt" /\ asked < MaxAsks
  /\ \E request \in Requests : owed' = Append(owed, request)
  /\ asked' = asked + 1 /\ had' = FALSE /\ lost' = FALSE
  /\ late' = IF isLoggedIn THEN late + 1 ELSE 0
  /\ pc' = "sent"
  /\ UNCHANGED <<flags, chatRooms, loopVars, rpc, inbox, chats, said, heard, admitted, overtaken,
                 told>>

(* ... or something else, and is asked again. *)
NoChoice ==
  /\ pc = "prompt" /\ pc' = "login"
  /\ UNCHANGED <<flags, chatRooms, loopVars, rpc, netVars, history>>

SetWaitingRepolls ==
  /\ pc = "sent"
  /\ isWaitingForResponse' = TRUE
  /\ overtaken' = AnswerHandled
  /\ pc' = "poll"
  /\ UNCHANGED <<isLoggedIn, isRunning, chatRooms, loopVars, rpc, netVars, asked, said, answers,
                 late, told>>
(* isWaitingForResponse = true, after the request was sent. *)
SetWaiting ==
  /\ pc = "sent"
  /\ isWaitingForResponse' = TRUE
  /\ overtaken' = AnswerHandled
  /\ pc' = "login"
  /\ UNCHANGED <<isLoggedIn, isRunning, chatRooms, loopVars, rpc, netVars, asked, said, answers,
                 late, told>>
-----------------------------------------------------------------------------
(* main and RunSocket.                                                     *)

AddedAll(list, name) == IF name \in ToSet(list) THEN list ELSE Append(list, name)
(* A name of the user's list is kept once, and none if it is empty. *)
Added(list, name) ==
  IF name = NoName \/ name \in ToSet(list) THEN list ELSE Append(list, name)
(* The names chatRooms takes over from the user's list. *)
Named(choice) ==
  LET named[n \in 0..Len(choice)] ==
        IF n = 0 THEN <<>> ELSE Added(named[n - 1], choice[n])
  IN  named[Len(choice)]

(* JoinRoom; the server is sent the list as the user typed it. *)
JoinRoom ==
  /\ pc = "join"
  /\ \E choice \in RoomChoices : /\ chatRooms' = Named(choice)
                             /\ told' = ToSet(choice) \ {NoName}
  /\ pc' = "run"
  /\ UNCHANGED <<flags, loopVars, rpc, netVars, asked, said, answers, overtaken, late>>

(* while (isRunning) if (isLoggedIn): a busy wait while it is false. *)
CheckRunning ==
  /\ pc = "run"
  /\ pc' = IF ~isRunning THEN "close" ELSE IF isLoggedIn THEN "line" ELSE "run"
  /\ UNCHANGED <<flags, chatRooms, loopVars, rpc, netVars, history>>

SayText ==
  /\ pc = "line" /\ said < MaxSaid
  /\ said' = said + 1 /\ pc' = "run"
  /\ UNCHANGED <<flags, chatRooms, loopVars, rpc, netVars, asked, answers, overtaken, late, told>>

(* An empty line, or "\LR" when no room is left, sends nothing. *)
SayNothing ==
  /\ pc = "line" /\ pc' = "run"
  /\ UNCHANGED <<flags, chatRooms, loopVars, rpc, netVars, history>>

(* chatRooms.erase(it), when the name is there *)
EraseKeeps(name) == UNCHANGED chatRooms
Erase(name) == chatRooms' = RemoveFirst(chatRooms, name)
(* SendLeaveMessage *)
SendLeave(name) ==
  /\ Erase(name)
  /\ told' = told \ {name}
  /\ said' = said + 1
  /\ UNCHANGED <<asked, answers, overtaken, late>>

(* "\LR name": the client ends when it has left its last room. *)
LeaveRoom ==
  /\ pc = "line" /\ chatRooms # <<>> /\ said < MaxSaid
  /\ \E name \in Rooms \cup {NoName} : SendLeave(name)
  /\ isRunning' = (chatRooms' # <<>>)
  /\ pc' = "run"
  /\ UNCHANGED <<isLoggedIn, isWaitingForResponse, loopVars, rpc, netVars>>

(* "\LR" alone: substr(4) of a string of three throws, nobody catches. *)
LeaveNameless ==
  /\ pc = "line" /\ chatRooms # <<>>
  /\ pc' = "aborted"
  /\ UNCHANGED <<flags, chatRooms, loopVars, rpc, netVars, history>>

(* "exit": for (roomName : chatRooms) SendLeaveMessage(roomName).  The end *)
(* of the loop is taken once, the erasures move the names under it.        *)
Exit ==
  /\ pc = "line"
  /\ pc' = "exit" /\ it' = 1 /\ end' = Len(chatRooms)
  /\ UNCHANGED <<flags, chatRooms, rpc, netVars, history>>

(* Past the names that are left stands a destroyed string: empty in one    *)
(* build, the end of the process in another; so may be any use of the      *)
(* iterator after an erasure.                                              *)
LeaveNext ==
  /\ pc = "exit" /\ it <= end
  /\ \/ /\ SendLeave(IF it <= Len(chatRooms) THEN chatRooms[it] ELSE NoName)
        /\ it' = it + 1
        /\ UNCHANGED pc
     \/ /\ it > 1
        /\ pc' = "aborted"
        /\ UNCHANGED <<it, chatRooms, history>>
  /\ UNCHANGED <<flags, end, rpc, netVars>>

LeaveEndRuns ==
  /\ pc = "exit" /\ it > end
  /\ pc' = "run"
  /\ UNCHANGED <<flags, chatRooms, loopVars, rpc, netVars, history>>
LeaveEnd ==
  /\ pc = "exit" /\ it > end
  /\ isRunning' = FALSE /\ pc' = "run"
  /\ UNCHANGED <<isLoggedIn, isWaitingForResponse, chatRooms, loopVars, rpc, netVars, history>>

(* CloseSocketConnection; the return from main ends the other thread too. *)
CloseSocketConnection ==
  /\ pc = "close" /\ pc' = "done"
  /\ UNCHANGED <<flags, chatRooms, loopVars, rpc, netVars, history>>

Login == CheckLogin \/ CheckWaiting \/ SendRequest \/ NoChoice \/ SetWaiting
Chatting == CheckRunning \/ SayText \/ SayNothing \/ LeaveRoom \/ LeaveNameless \/ Exit
Leaving == LeaveNext \/ LeaveEnd \/ CloseSocketConnection
Main == Login \/ JoinRoom \/ Chatting \/ Leaving
-----------------------------------------------------------------------------
(* The receiving thread: ReceiveMessages, over and over while isRunning.   *)

InProcess == pc \notin {"done", "aborted"}

(* while (isRunning): the flag is tested before recv() waits. *)
TestRunning ==
  /\ InProcess /\ rpc = "test"
  /\ rpc' = IF isRunning THEN "recv" ELSE "off"
  /\ UNCHANGED <<flags, chatRooms, pc, loopVars, netVars, history>>

(* recv() returns n packets; those behind the first are gone. *)
Received(n) ==
  /\ n <= Len(inbox) /\ inbox' = SubSeq(inbox, n + 1, Len(inbox))
  /\ lost' = (lost \/ \E i \in 2..n : inbox[i].to = asked)

AdmitsEither(answer) == answer.ok
(* isLoggedIn = true only for a login answer without a reason *)
Admits(answer) == answer.type = "LOGIN_RESPONSE" /\ answer.ok

(* OnLoginResponse, OnRegisterResponse, up to isWaitingForResponse = false *)
ReceiveAnswer ==
  /\ InProcess /\ rpc = "recv"
  /\ \E n \in 1..MaxBatch : Received(n)
  /\ Head(inbox).type # "CHAT"
  /\ isLoggedIn' = Admits(Head(inbox))
  /\ heard' = heard + 1 /\ had' = (had \/ Head(inbox).to = asked)
  /\ admitted' = (admitted \/ (Head(inbox).type = "LOGIN_RESPONSE" /\ Head(inbox).ok))
  /\ late' = IF isLoggedIn /\ isLoggedIn' THEN late ELSE 0
  /\ rpc' = "clear"
  /\ UNCHANGED <<isWaitingForResponse, isRunning, chatRooms, pc, loopVars, owed, chats, asked,
                 said, overtaken, told>>

ClearWaitingNot ==
  /\ rpc = "clear" /\ rpc' = "test"
  /\ UNCHANGED <<flags, chatRooms, pc, loopVars, netVars, history>>
(* isWaitingForResponse = false *)
ClearWaiting ==
  /\ InProcess /\ rpc = "clear" /\ rpc' = "test"
  /\ isWaitingForResponse' = FALSE
  /\ UNCHANGED <<isLoggedIn, isRunning, chatRooms, pc, loopVars, netVars, history>>

(* NOTIFICATION and TEXT are printed. *)
ReceiveChat ==
  /\ InProcess /\ rpc = "recv"
  /\ \E n \in 1..MaxBatch : Received(n)
  /\ Head(inbox).type = "CHAT"
  /\ rpc' = "test"
  /\ UNCHANGED <<flags, chatRooms, pc, loopVars, owed, chats, asked, said, heard, had, admitted,
                 overtaken, late, told>>

Receiver == TestRunning \/ ReceiveAnswer \/ ClearWaiting \/ ReceiveChat
-----------------------------------------------------------------------------
(* The environment.                                                        *)

Response(request, ok, n) ==
  [type |-> IF request = "LOGIN" THEN "LOGIN_RESPONSE" ELSE "REGISTER_RESPONSE",
   ok |-> ok, to |-> n]

Answer ==
  /\ owed # <<>> /\ owed' = Tail(owed)
  /\ LET n == asked - Len(owed) + 1
     IN  \E copies \in 0..MaxCopies, ok \in BOOLEAN :
           /\ inbox' = inbox \o [i \in 1..copies |-> Response(Head(owed), ok, n)]
           /\ lost' = (lost \/ (copies = 0 /\ n = asked))
  /\ UNCHANGED <<flags, chatRooms, pc, loopVars, rpc, chats, asked, said, heard, had, admitted,
                 overtaken, late, told>>

OthersTalk ==
  /\ chats < MaxChats /\ chats' = chats + 1
  /\ inbox' = Append(inbox, [type |-> "CHAT", ok |-> TRUE, to |-> 0])
  /\ UNCHANGED <<flags, chatRooms, pc, loopVars, rpc, owed, history>>

Ended == ~InProcess /\ UNCHANGED vars

Next == Main \/ Receiver \/ Answer \/ OthersTalk \/ Ended

Spec == Init /\ [][Next]_vars

(* Both threads keep running, and the accesses of the flags are not moved  *)
(* out of the loops; nothing is assumed of the user and of the servers.    *)
FairSpec == /\ Spec
            /\ WF_vars(CheckLogin \/ CheckWaiting \/ SetWaiting \/ CheckRunning \/ Leaving)
            /\ WF_vars(Receiver)
-----------------------------------------------------------------------------
Entered == {"join", "run", "line", "exit", "close", "done", "aborted"}

TypeOK ==
  /\ isLoggedIn \in BOOLEAN /\ isWaitingForResponse \in BOOLEAN /\ isRunning \in BOOLEAN
  /\ chatRooms \in Seq(Rooms)
  /\ pc \in {"login", "poll", "prompt", "sent"} \cup Entered
  /\ it \in Nat /\ end \in Nat
  /\ rpc \in {"test", "recv", "clear", "off"}
  /\ inbox \in Seq(Packet) /\ owed \in Seq(Requests) /\ chats \in Nat
  /\ asked \in Nat /\ said \in Nat /\ heard \in Nat /\ had \in BOOLEAN /\ lost \in BOOLEAN
  /\ admitted \in BOOLEAN /\ overtaken \in BOOLEAN /\ late \in Nat
  /\ told \in SUBSET Rooms

(* While the program waits, the answer to its last request is still to be  *)
(* made, on its way or being handled, with two exceptions.  An answer to   *)
(* it was lost: by the servers, or by the client, which drops what comes   *)
(* behind the first packet of a recv().  Or the answer was handled to the  *)
(* end between the sending of this request and the setting of              *)
(* isWaitingForResponse (LoginClient, lines 294-295 and 306-307): then the *)
(* program waits for an answer it has had.                                 *)
WaitsForAnAnswer ==
  isWaitingForResponse => AnswerComing \/ lost \/ overtaken

(* The user chats only after an answer has let him in; a registration, a   *)
(* rejection or the initial value of a flag never does (LoginClient,       *)
(* OnLoginResponse, OnRegisterResponse).                                   *)
EntryAfterLogin == pc \in Entered => admitted

(* The login loop may prompt once more although the user is logged in,     *)
(* when isLoggedIn is set between its two reads; it does so at most once   *)
(* (LoginClient, lines 270-272).                                           *)
OneLatePrompt == late <= 1

(* chatRooms is what the server has been told, at every moment of joining, *)
(* leaving and exiting: the client ends by itself only when it has told    *)
(* the server to take it out of its last room (JoinRoom, SendLeaveMessage).*)
RoomsAsTold == ToSet(chatRooms) = told /\ Len(chatRooms) = Cardinality(told)

(* What the server may rely on.  *)
Role == INSTANCE ClientRole WITH
          asks <- asked, answers <- heard, joined <- pc \in Entered \ {"join"}, said <- said,
          open <- InProcess
(* On its connection the program behaves as ChatServer assumes clients to. *)
ImplementsRole == Role!Spec

(* When the answer to the last request has been handled, the user is       *)
(* prompted again or let in, unless this answer overtook the flag.         *)
WaitEnds ==
  pc \in {"login", "poll"} /\ AnswerHandled ~>
  pc \in {"prompt", "join"} \/ overtaken

(* The loop over chatRooms ends in spite of the erasures in it (RunSocket, *)
(* lines 244-248): who types "exit" gets out.                              *)
ExitEnds == pc = "exit" ~> pc \in {"done", "aborted"}
=============================================================================
