--------------------------- MODULE ChatClientProofs ---------------------------
(***************************************************************************)
(* Proofs about the client program for any rooms, any user and any server: *)
(* whatever the bounds, the number of answers to a request and the order   *)
(* of the two threads' steps.  The list of rooms is a recursive function   *)
(* of what the user entered: what it computes is shown by induction over a *)
(* set of numbers (Numbers), each of which has a least element.            *)
(***************************************************************************)
EXTENDS ChatClient, WellFoundedInduction, FiniteSetTheorems, FunctionTheorems, TLAPS

Labels == {"login", "poll", "prompt", "sent"} \cup Entered

(* What the two threads need to know of each other's variables. *)
ControlTypes ==
  /\ isLoggedIn \in BOOLEAN /\ isWaitingForResponse \in BOOLEAN
  /\ pc \in Labels /\ rpc \in {"test", "recv", "clear", "off"}
  /\ inbox \in Seq(Packet) /\ owed \in Seq(Requests)
  /\ asked \in Nat /\ said \in Nat /\ heard \in Nat /\ late \in Nat
  /\ overtaken \in BOOLEAN /\ admitted \in BOOLEAN /\ had \in BOOLEAN /\ lost \in BOOLEAN
  /\ rpc = "clear" => heard > 0
  /\ Len(owed) <= asked

(* The wait and the answers: every request but the last is answered and    *)
(* its answer handled to the end; so is the last one when the program does *)
(* not wait.                                                               *)
WaitInv ==
  /\ Handled + 1 >= asked
  /\ pc = "prompt" => Handled >= asked
  /\ ~isWaitingForResponse /\ pc # "sent" => Handled >= asked

EntryInv ==
  /\ isLoggedIn => admitted
  /\ EntryAfterLogin
  /\ admitted => heard > 0

LateInv ==
  /\ ~isLoggedIn \/ pc \in {"poll", "prompt"} => late = 0
  /\ OneLatePrompt

ClientInv == ControlTypes /\ WaitInv /\ EntryInv /\ LateInv

LEMMA HandledNatural ==
  ASSUME ControlTypes
  PROVE  Handled \in Nat /\ Handled <= heard
  BY DEF ControlTypes, Handled

LEMMA ReceivedTyped ==
  ASSUME ControlTypes, NEW n \in 1..MaxBatch, Received(n)
  PROVE  inbox' \in Seq(Packet) /\ Head(inbox) \in Packet /\ lost' \in BOOLEAN
<1>1. /\ n \in Nat \ {0} /\ n <= Len(inbox) /\ inbox' = SubSeq(inbox, n + 1, Len(inbox))
      /\ lost' = (lost \/ \E i \in 2..n : inbox[i].to = asked)
  BY ClientAssumption DEF Received
<1>2. inbox \in Seq(Packet) /\ inbox # <<>>
  BY <1>1 DEF ControlTypes
<1> QED
  BY <1>1, <1>2

LEMMA ClientInit == Init => ClientInv
<1> SUFFICES ASSUME Init PROVE ClientInv
  OBVIOUS
<1>1. ControlTypes
  <2>1. <<>> \in Seq(Packet) /\ <<>> \in Seq(Requests) /\ Len(<<>>) <= 0
    OBVIOUS
  <2> QED
    BY <2>1 DEF Init, ControlTypes, Labels
<1>2. WaitInv
  BY DEF Init, WaitInv, Handled
<1>3. EntryInv /\ LateInv
  BY DEF Init, EntryInv, EntryAfterLogin, Entered, LateInv, OneLatePrompt
<1> QED
  BY <1>1, <1>2, <1>3 DEF ClientInv

(* The steps of the main thread that only move it on. *)
LEMMA LoginKeeps ==
  ASSUME ClientInv, Login
  PROVE  ClientInv'
<1> USE DEF flags, loopVars, netVars, history, answers
<1>1. CASE CheckLogin
  BY <1>1 DEF CheckLogin, ClientInv, ControlTypes, Labels, WaitInv, Handled,
              EntryInv, EntryAfterLogin, Entered, LateInv, OneLatePrompt
<1>2. CASE CheckWaiting
  BY <1>2 DEF CheckWaiting, ClientInv, ControlTypes, Labels, WaitInv, Handled, EntryInv, EntryAfterLogin, Entered, LateInv, OneLatePrompt
<1>3. CASE SendRequest
  <2>1. PICK request \in Requests : owed' = Append(owed, request)
    BY <1>3 DEF SendRequest
  <2>2. owed' \in Seq(Requests) /\ Len(owed') = Len(owed) + 1 /\ Len(owed) \in Nat
    BY <2>1 DEF ClientInv, ControlTypes
  <2>3. /\ pc = "prompt" /\ pc' = "sent" /\ asked' = asked + 1
        /\ late' = (IF isLoggedIn THEN late + 1 ELSE 0)
        /\ had' = FALSE /\ lost' = FALSE
        /\ UNCHANGED <<isLoggedIn, isWaitingForResponse, rpc, inbox, said, heard, admitted,
                       overtaken>>
    BY <1>3 DEF SendRequest
  <2>4. ControlTypes'
    <3>1. late' \in Nat /\ asked' \in Nat /\ Len(owed') <= asked'
      BY <2>2, <2>3 DEF ClientInv, ControlTypes
    <3> QED
      BY <2>2, <2>3, <3>1 DEF ClientInv, ControlTypes, Labels
  <2>5. WaitInv'
    BY <2>3, HandledNatural DEF ClientInv, ControlTypes, WaitInv, Handled
  <2>6. EntryInv'
    BY <2>3 DEF ClientInv, EntryInv, EntryAfterLogin, Entered
  <2>7. LateInv'
    <3>1. late = 0 /\ isLoggedIn \in BOOLEAN
      BY <2>3 DEF ClientInv, ControlTypes, LateInv
    <3>2. late' \in {0, 1} /\ (~isLoggedIn' => late' = 0)
      BY <2>3, <3>1
    <3> QED
      BY <2>3, <3>2 DEF LateInv, OneLatePrompt
  <2> QED
    BY <2>4, <2>5, <2>6, <2>7 DEF ClientInv
<1>4. CASE NoChoice
  BY <1>4 DEF NoChoice, ClientInv, ControlTypes, Labels, WaitInv, Handled,
              EntryInv, EntryAfterLogin, Entered, LateInv, OneLatePrompt
<1>5. CASE SetWaiting
  <2>1. /\ pc = "sent" /\ pc' = "login" /\ isWaitingForResponse' = TRUE
        /\ overtaken' = AnswerHandled
        /\ UNCHANGED <<isLoggedIn, rpc, inbox, owed, asked, said, heard, had, lost, admitted, late>>
    BY <1>5 DEF SetWaiting
  <2>2. ControlTypes'
    BY <2>1 DEF ClientInv, ControlTypes, Labels, AnswerHandled
  <2>3. WaitInv'
    <3>1. Handled' = Handled /\ asked' = asked
      BY <2>1 DEF Handled
    <3>2. Handled \in Nat /\ asked \in Nat /\ Handled + 1 >= asked
      BY HandledNatural DEF ClientInv, ControlTypes, WaitInv
    <3> QED
      BY <2>1, <3>1, <3>2 DEF WaitInv
  <2>4. isLoggedIn \in BOOLEAN /\ admitted \in BOOLEAN
    BY DEF ClientInv, ControlTypes
  <2>5. EntryInv'
    BY <2>1, <2>4 DEF ClientInv, EntryInv, EntryAfterLogin, Entered
  <2>6. LateInv'
    BY <2>1, <2>4 DEF ClientInv, LateInv, OneLatePrompt
  <2> QED
    BY <2>2, <2>3, <2>5, <2>6 DEF ClientInv
<1> QED
  BY <1>1, <1>2, <1>3, <1>4, <1>5 DEF Login

(* After entry the main thread stays there; of what the invariant is about *)
(* it changes only its place and the number of packets.                    *)
LEMMA ChatStep ==
  ASSUME ClientInv, JoinRoom \/ Chatting \/ Leaving
  PROVE  /\ pc \in Entered /\ pc' \in Entered
         /\ said' \in Nat
         /\ UNCHANGED <<isLoggedIn, isWaitingForResponse, rpc, inbox, owed, asked, heard, had,
                        lost, admitted, overtaken, late>>
<1> USE DEF flags, loopVars, netVars, history, answers, ClientInv, ControlTypes, Entered
<1>1. CASE JoinRoom
  BY <1>1 DEF JoinRoom
<1>2. CASE CheckRunning \/ SayText \/ SayNothing \/ LeaveNameless \/ Exit
  BY <1>2 DEF CheckRunning, SayText, SayNothing, LeaveNameless, Exit
<1>3. CASE LeaveRoom
  BY <1>3 DEF LeaveRoom, SendLeave
<1>4. CASE LeaveNext
  BY <1>4 DEF LeaveNext, SendLeave
<1>5. CASE LeaveEnd \/ CloseSocketConnection
  BY <1>5 DEF LeaveEnd, CloseSocketConnection
<1> QED
  BY <1>1, <1>2, <1>3, <1>4, <1>5 DEF Chatting, Leaving

LEMMA ChatKeeps ==
  ASSUME ClientInv, JoinRoom \/ Chatting \/ Leaving
  PROVE  ClientInv'
<1>1. /\ pc \in Entered /\ pc' \in Entered
      /\ said' \in Nat
      /\ UNCHANGED <<isLoggedIn, isWaitingForResponse, rpc, inbox, owed, asked, heard, had, lost,
                     admitted, overtaken, late>>
  BY ChatStep
<1>2. ControlTypes'
  BY <1>1 DEF ClientInv, ControlTypes, Labels
<1>3. WaitInv'
  BY <1>1 DEF ClientInv, WaitInv, Handled, Entered
<1>4. EntryInv' /\ LateInv'
  BY <1>1 DEF ClientInv, EntryInv, EntryAfterLogin, LateInv, OneLatePrompt, Entered
<1> QED
  BY <1>2, <1>3, <1>4 DEF ClientInv

LEMMA ReceiverKeeps ==
  ASSUME ClientInv, Receiver
  PROVE  ClientInv'
<1> USE DEF flags, loopVars, netVars, history, answers
<1>1. CASE ReceiveAnswer
  <2>1. PICK n \in 1..MaxBatch : Received(n)
    BY <1>1 DEF ReceiveAnswer
  <2>2. inbox' \in Seq(Packet) /\ Head(inbox) \in Packet /\ lost' \in BOOLEAN
    BY <2>1, ReceivedTyped DEF ClientInv
  <2>3. Admits(Head(inbox)) \in BOOLEAN
    BY <2>2 DEF Admits, Packet
  <2>4. Admits(Head(inbox)) => Head(inbox).type = "LOGIN_RESPONSE" /\ Head(inbox).ok
    BY <2>2 DEF Admits, Packet
  <2>5. /\ rpc = "recv" /\ rpc' = "clear" /\ heard' = heard + 1
        /\ isLoggedIn' = Admits(Head(inbox))
        /\ admitted' = (admitted \/ (Head(inbox).type = "LOGIN_RESPONSE" /\ Head(inbox).ok))
        /\ had' = (had \/ Head(inbox).to = asked)
        /\ late' = (IF isLoggedIn /\ isLoggedIn' THEN late ELSE 0)
        /\ UNCHANGED <<isWaitingForResponse, pc, owed, asked, said, overtaken>>
    BY <1>1 DEF ReceiveAnswer
  <2>6. ControlTypes'
    <3>1. admitted' \in BOOLEAN
      BY <2>2, <2>5 DEF ClientInv, ControlTypes, Packet
    <3> QED
      BY <2>2, <2>3, <2>5, <3>1 DEF ClientInv, ControlTypes, Labels
  <2>7. Handled' = Handled
    BY <2>5 DEF ClientInv, ControlTypes, Handled
  <2>8. WaitInv'
    BY <2>5, <2>7 DEF ClientInv, WaitInv
  <2>9. EntryInv'
    <3>1. admitted \in BOOLEAN /\ heard \in Nat
      BY DEF ClientInv, ControlTypes
    <3>2. isLoggedIn' => admitted'
      BY <2>4, <2>5
    <3>3. pc' \in Entered => admitted'
      BY <2>5, <3>1 DEF ClientInv, EntryInv, EntryAfterLogin
    <3>4. admitted' => heard' > 0
      BY <2>5, <3>1
    <3> QED
      BY <3>2, <3>3, <3>4 DEF EntryInv, EntryAfterLogin
  <2>10. LateInv'
    <3>1. late' = 0 \/ (late' = late /\ isLoggedIn /\ isLoggedIn')
      BY <2>3, <2>5
    <3> QED
      BY <2>5, <3>1 DEF ClientInv, LateInv, OneLatePrompt
  <2> QED
    BY <2>6, <2>8, <2>9, <2>10 DEF ClientInv
<1>2. CASE ClearWaiting
  <2>1. /\ rpc = "clear" /\ rpc' = "test" /\ isWaitingForResponse' = FALSE
        /\ UNCHANGED <<isLoggedIn, pc, inbox, owed, asked, said, heard, had, lost, admitted,
                       overtaken, late>>
    BY <1>2 DEF ClearWaiting
  <2>2. ControlTypes'
    BY <2>1 DEF ClientInv, ControlTypes, Labels
  <2>3. Handled' = Handled + 1
    BY <2>1 DEF ClientInv, ControlTypes, Handled
  <2>4. WaitInv'
    BY <2>1, <2>3, HandledNatural DEF ClientInv, ControlTypes, WaitInv
  <2>5. EntryInv' /\ LateInv'
    BY <2>1 DEF ClientInv, EntryInv, EntryAfterLogin, LateInv, OneLatePrompt
  <2> QED
    BY <2>2, <2>4, <2>5 DEF ClientInv
<1>3. CASE ReceiveChat \/ TestRunning
  <2>1. /\ rpc \in {"test", "recv"} /\ rpc' \in {"test", "recv", "off"}
        /\ UNCHANGED <<isLoggedIn, isWaitingForResponse, pc, owed, asked, said, heard, had, admitted,
                       overtaken, late>>
    BY <1>3 DEF ReceiveChat, TestRunning
  <2>2. inbox' \in Seq(Packet) /\ lost' \in BOOLEAN
    BY <1>3, ReceivedTyped DEF ReceiveChat, TestRunning, ClientInv, ControlTypes
  <2>3. ControlTypes'
    BY <2>1, <2>2 DEF ClientInv, ControlTypes, Labels
  <2>4. WaitInv' /\ EntryInv' /\ LateInv'
    BY <2>1 DEF ClientInv, WaitInv, Handled, EntryInv, EntryAfterLogin,
                LateInv, OneLatePrompt
  <2> QED
    BY <2>3, <2>4 DEF ClientInv
<1> QED
  BY <1>1, <1>2, <1>3 DEF Receiver

LEMMA EnvironmentKeeps ==
  ASSUME ClientInv, Answer \/ OthersTalk
  PROVE  ClientInv'
<1> USE DEF flags, loopVars, history, answers
<1>1. /\ UNCHANGED <<isLoggedIn, isWaitingForResponse, pc, rpc, asked, said, heard, had, admitted,
                     overtaken, late>>
  BY DEF Answer, OthersTalk
<1>2. /\ inbox' \in Seq(Packet) /\ owed' \in Seq(Requests) /\ lost' \in BOOLEAN
      /\ Len(owed') <= Len(owed) /\ Len(owed) \in Nat
  <2>1. CASE Answer
    <3> DEFINE n == asked - Len(owed) + 1
    <3>1. PICK copies \in 0..MaxCopies, ok \in BOOLEAN :
            /\ inbox' = inbox \o [i \in 1..copies |-> Response(Head(owed), ok, n)]
            /\ lost' = (lost \/ (copies = 0 /\ n = asked))
      BY <2>1 DEF Answer
    <3>2. /\ owed # <<>> /\ owed' = Tail(owed) /\ owed \in Seq(Requests) /\ asked \in Nat
          /\ Len(owed) <= asked
      BY <2>1 DEF Answer, ClientInv, ControlTypes
    <3>3. Len(owed) \in Nat /\ n \in Nat /\ owed' \in Seq(Requests) /\ Len(owed') <= Len(owed)
      BY <3>2
    <3> HIDE DEF n
    <3>4. Response(Head(owed), ok, n) \in Packet
      BY <3>3 DEF Response, Packet
    <3>5. [i \in 1..copies |-> Response(Head(owed), ok, n)] \in Seq(Packet)
      BY <3>4, ClientAssumption
    <3> QED
      BY <3>1, <3>3, <3>5 DEF ClientInv, ControlTypes
  <2>2. CASE OthersTalk
    BY <2>2 DEF OthersTalk, Packet, ClientInv, ControlTypes
  <2> QED
    BY <2>1, <2>2
<1>3. ControlTypes'
  BY <1>1, <1>2 DEF ClientInv, ControlTypes, Labels
<1>4. WaitInv' /\ EntryInv' /\ LateInv'
  BY <1>1 DEF ClientInv, WaitInv, Handled, EntryInv, EntryAfterLogin, LateInv,
              OneLatePrompt
<1> QED
  BY <1>3, <1>4 DEF ClientInv

LEMMA StutterKeeps ==
  ASSUME ClientInv, UNCHANGED vars
  PROVE  ClientInv'
<1> USE DEF vars, flags, loopVars, netVars, history, answers
<1>1. ControlTypes'
  BY DEF ClientInv, ControlTypes, Labels
<1>2. WaitInv' /\ EntryInv' /\ LateInv'
  BY DEF ClientInv, WaitInv, Handled, EntryInv, EntryAfterLogin, LateInv,
         OneLatePrompt
<1> QED
  BY <1>1, <1>2 DEF ClientInv

LEMMA ClientNext == ClientInv /\ [Next]_vars => ClientInv'
  BY LoginKeeps, ChatKeeps, ReceiverKeeps, EnvironmentKeeps, StutterKeeps
     DEF Next, Main, Ended

LEMMA ClientInvariant == Spec => []ClientInv
  BY ClientInit, ClientNext, PTL DEF Spec

(* Nobody chats who was not let in by a login answer. *)
THEOREM EnteredAfterLogin == Spec => []EntryAfterLogin
<1>1. ClientInv => EntryAfterLogin
  BY DEF ClientInv, EntryInv
<1> QED
  BY <1>1, ClientInvariant, PTL

(* A user who is logged in is prompted at most once more. *)
THEOREM PromptedOnceMore == Spec => []OneLatePrompt
<1>1. ClientInv => OneLatePrompt
  BY DEF ClientInv, LateInv
<1> QED
  BY <1>1, ClientInvariant, PTL
-----------------------------------------------------------------------------
(* The answer to the last request.                                         *)

AnswerInv ==
  /\ \A i \in 1..Len(inbox) : inbox[i].type = "CHAT" => inbox[i].to = 0
  /\ isWaitingForResponse \/ pc = "sent" => asked > 0
  /\ asked > 0 => AnswerComing \/ lost \/ had
  /\ WaitsForAnAnswer

(* What recv() takes from the stream of answers. *)
LEMMA ReceivedAnswer ==
  ASSUME ClientInv, AnswerInv, NEW n \in 1..MaxBatch, Received(n), asked > 0,
         rpc = "recv", UNCHANGED <<owed, asked>>, AnswerComing
  PROVE  AnswerComing' \/ lost' \/ (Head(inbox).type # "CHAT" /\ Head(inbox).to = asked)
<1>1. /\ n \in Nat \ {0} /\ n <= Len(inbox) /\ inbox' = SubSeq(inbox, n + 1, Len(inbox))
      /\ lost' = (lost \/ \E i \in 2..n : inbox[i].to = asked)
      /\ inbox \in Seq(Packet) /\ asked \in Nat
  BY ClientAssumption DEF Received, ClientInv, ControlTypes
<1>2. CASE owed # <<>>
  BY <1>2 DEF AnswerComing
<1>3. ASSUME NEW i \in 1..Len(inbox), inbox[i].to = asked
      PROVE  AnswerComing' \/ lost' \/ (Head(inbox).type # "CHAT" /\ Head(inbox).to = asked)
  <2>1. i \in 2..n => lost'
    BY <1>1, <1>3
  <2>2. i > n => AnswerComing'
    <3> SUFFICES ASSUME i > n PROVE AnswerComing'
      OBVIOUS
    <3>1. i - n \in 1..Len(inbox') /\ inbox'[i - n] = inbox[i]
      BY <1>1
    <3> QED
      BY <1>3, <3>1 DEF AnswerComing
  <2>3. inbox[i].type # "CHAT"
    BY <1>3 DEF AnswerInv
  <2>4. i = 1 => Head(inbox) = inbox[i]
    BY <1>1
  <2>5. i = 1 \/ i \in 2..n \/ i > n
    BY <1>1
  <2> QED
    BY <1>3, <2>1, <2>2, <2>3, <2>4, <2>5
<1> QED
  BY <1>2, <1>3 DEF AnswerComing

(* What stands behind the packets that were taken stays what it was. *)
LEMMA ChatsBehind ==
  ASSUME ClientInv, AnswerInv, NEW n \in 1..MaxBatch, Received(n)
  PROVE  \A i \in 1..Len(inbox') : inbox'[i].type = "CHAT" => inbox'[i].to = 0
<1>1. /\ n \in Nat \ {0} /\ n <= Len(inbox) /\ inbox' = SubSeq(inbox, n + 1, Len(inbox))
      /\ inbox \in Seq(Packet)
  BY ClientAssumption DEF Received, ClientInv, ControlTypes
<1>2. ASSUME NEW i \in 1..Len(inbox') PROVE n + i \in 1..Len(inbox) /\ inbox'[i] = inbox[n + i]
  BY <1>1
<1> QED
  BY <1>2 DEF AnswerInv

LEMMA AnswerMade ==
  ASSUME ClientInv, AnswerInv, Answer
  PROVE  AnswerInv'
<1> DEFINE n == asked - Len(owed) + 1
<1>1. PICK copies \in 0..MaxCopies, ok \in BOOLEAN :
        /\ inbox' = inbox \o [i \in 1..copies |-> Response(Head(owed), ok, n)]
        /\ lost' = (lost \/ (copies = 0 /\ n = asked))
  BY DEF Answer
<1>2. /\ owed # <<>> /\ owed' = Tail(owed)
      /\ UNCHANGED <<isWaitingForResponse, pc, rpc, asked, had, overtaken>>
  BY DEF Answer, flags
<1>3. /\ owed \in Seq(Requests) /\ asked \in Nat /\ inbox \in Seq(Packet) /\ lost \in BOOLEAN
      /\ copies \in Nat
  BY ClientAssumption DEF ClientInv, ControlTypes
<1> DEFINE m == Response(Head(owed), ok, n)
           y == Len(inbox)
<1>4. m.type # "CHAT" /\ m.to = n
  BY DEF Response
<1> HIDE DEF m
<1>5. /\ Len(inbox') = y + copies /\ y \in Nat
      /\ \A i \in 1..Len(inbox') : inbox'[i] = IF i <= y THEN inbox[i] ELSE m
  BY <1>1, <1>3 DEF m
<1>6. \A i \in 1..Len(inbox') : inbox'[i].type = "CHAT" => inbox'[i].to = 0
  <2> SUFFICES ASSUME NEW i \in 1..Len(inbox'), inbox'[i].type = "CHAT" PROVE inbox'[i].to = 0
    OBVIOUS
  <2>1. i <= y /\ inbox'[i] = inbox[i]
    BY <1>4, <1>5
  <2>2. i \in 1..Len(inbox)
    BY <1>5, <2>1
  <2> QED
    BY <2>1, <2>2 DEF AnswerInv
<1>7. AnswerComing' \/ lost'
  <2>1. CASE Len(owed) = 1
    <3>1. n = asked
      BY <1>3, <2>1
    <3>2. copies # 0 => y + 1 \in 1..Len(inbox') /\ inbox'[y + 1].to = asked
      BY <1>3, <1>4, <1>5, <3>1
    <3> QED
      BY <1>1, <1>2, <3>1, <3>2 DEF AnswerComing
  <2>2. CASE Len(owed) # 1
    <3>1. Len(owed') = Len(owed) - 1 /\ Len(owed) \in Nat /\ Len(owed) > 0
      BY <1>2, <1>3
    <3>2. Len(owed') > 0
      BY <2>2, <3>1
    <3>3. owed' # <<>>
      BY <3>2
    <3> QED
      BY <3>3 DEF AnswerComing
  <2> QED
    BY <2>1, <2>2
<1> QED
  BY <1>2, <1>6, <1>7 DEF AnswerInv, WaitsForAnAnswer

LEMMA AnswerStill ==
  ASSUME AnswerInv, UNCHANGED <<inbox, owed, asked, had, lost, overtaken, isWaitingForResponse>>,
         UNCHANGED rpc \/ rpc # "clear", pc' = "sent" => pc = "sent"
  PROVE  AnswerInv'
<1>1. AnswerComing => AnswerComing'
  BY DEF AnswerComing
<1> QED
  BY <1>1 DEF AnswerInv, WaitsForAnAnswer

LEMMA AnswerKept ==
  ASSUME ClientInv, AnswerInv, [Next]_vars
  PROVE  AnswerInv'
<1> USE DEF flags, loopVars, netVars, history, answers
<1>1. CASE CheckLogin \/ CheckWaiting \/ NoChoice
  BY <1>1, AnswerStill DEF CheckLogin, CheckWaiting, NoChoice
<1>2. CASE SendRequest
  <2>1. /\ pc' = "sent" /\ asked' = asked + 1
        /\ UNCHANGED <<inbox, rpc, isWaitingForResponse, overtaken>>
    BY <1>2 DEF SendRequest
  <2>2. owed' # <<>>
    BY <1>2 DEF SendRequest, ClientInv, ControlTypes
  <2>3. asked' > 0
    BY <2>1 DEF ClientInv, ControlTypes
  <2> QED
    BY <2>1, <2>2, <2>3 DEF AnswerInv, AnswerComing, WaitsForAnAnswer
<1>3. CASE SetWaiting
  <2>1. /\ pc = "sent" /\ pc' = "login" /\ overtaken' = AnswerHandled
        /\ UNCHANGED <<inbox, owed, rpc, asked, had, lost>>
    BY <1>3 DEF SetWaiting
  <2>2. asked > 0 /\ (AnswerComing \/ lost \/ had) /\ (AnswerComing => AnswerComing')
    BY <2>1 DEF AnswerInv, AnswerComing
  <2>3. had => AnswerComing \/ overtaken'
    BY <2>1 DEF AnswerComing, AnswerHandled
  <2> QED
    BY <2>1, <2>2, <2>3 DEF AnswerInv, WaitsForAnAnswer
<1>4. CASE JoinRoom \/ Chatting \/ Leaving
  <2>1. /\ UNCHANGED <<isWaitingForResponse, rpc, inbox, owed, asked, had, lost, overtaken>>
        /\ pc' # "sent"
    BY <1>4, ChatStep DEF Entered
  <2> QED
    BY <2>1, AnswerStill
<1>5. CASE TestRunning
  BY <1>5, AnswerStill DEF TestRunning
<1>6. CASE ReceiveAnswer
  <2>1. PICK n \in 1..MaxBatch : Received(n)
    BY <1>6 DEF ReceiveAnswer
  <2>2. /\ rpc = "recv" /\ rpc' = "clear" /\ had' = (had \/ Head(inbox).to = asked)
        /\ UNCHANGED <<isWaitingForResponse, pc, owed, asked, overtaken>>
    BY <1>6 DEF ReceiveAnswer
  <2>3. lost => lost'
    BY <2>1 DEF Received
  <2>4. asked > 0 /\ AnswerComing => AnswerComing' \/ lost'
    <3> SUFFICES ASSUME asked > 0, AnswerComing PROVE AnswerComing' \/ lost'
      OBVIOUS
    <3>1. AnswerComing' \/ lost' \/ (Head(inbox).type # "CHAT" /\ Head(inbox).to = asked)
      BY <2>1, <2>2, ReceivedAnswer
    <3> QED
      BY <2>2, <3>1 DEF AnswerComing
  <2>5. asked > 0 => AnswerComing' \/ lost' \/ had'
    BY <2>2, <2>3, <2>4 DEF AnswerInv
  <2>6. WaitsForAnAnswer'
    BY <2>2, <2>3, <2>4 DEF AnswerInv, WaitsForAnAnswer
  <2> QED
    BY <2>1, <2>2, <2>5, <2>6, ChatsBehind DEF AnswerInv
<1>7. CASE ReceiveChat
  <2>1. PICK n \in 1..MaxBatch : Received(n)
    BY <1>7 DEF ReceiveChat
  <2>2. /\ rpc = "recv" /\ Head(inbox).type = "CHAT"
        /\ UNCHANGED <<isWaitingForResponse, pc, owed, asked, had, overtaken>>
    BY <1>7 DEF ReceiveChat
  <2>3. lost => lost'
    BY <2>1 DEF Received
  <2>4. asked > 0 /\ AnswerComing => AnswerComing' \/ lost'
    BY <2>1, <2>2, ReceivedAnswer
  <2>5. asked > 0 => AnswerComing' \/ lost' \/ had'
    BY <2>2, <2>3, <2>4 DEF AnswerInv
  <2>6. WaitsForAnAnswer'
    BY <2>2, <2>3, <2>4 DEF AnswerInv, WaitsForAnAnswer
  <2> QED
    BY <2>1, <2>2, <2>5, <2>6, ChatsBehind DEF AnswerInv
<1>8. CASE ClearWaiting
  <2>1. /\ rpc = "clear" /\ isWaitingForResponse' = FALSE
        /\ UNCHANGED <<pc, inbox, owed, asked, had, lost>>
    BY <1>8 DEF ClearWaiting
  <2>2. AnswerComing => AnswerComing' \/ had
    BY <2>1 DEF AnswerComing
  <2> QED
    BY <2>1, <2>2 DEF AnswerInv, WaitsForAnAnswer
<1>9. CASE Answer
  BY <1>9, AnswerMade
<1>10. CASE OthersTalk
  <2>1. /\ inbox' = Append(inbox, [type |-> "CHAT", ok |-> TRUE, to |-> 0])
        /\ UNCHANGED <<isWaitingForResponse, pc, rpc, owed, asked, had, lost, overtaken>>
    BY <1>10 DEF OthersTalk
  <2>2. inbox \in Seq(Packet)
    BY DEF ClientInv, ControlTypes
  <2>3. /\ Len(inbox') = Len(inbox) + 1 /\ Len(inbox) \in Nat
        /\ \A i \in 1..Len(inbox) : inbox'[i] = inbox[i]
        /\ inbox'[Len(inbox) + 1].to = 0
    BY <2>1, <2>2
  <2>4. \A i \in 1..Len(inbox') : i \in 1..Len(inbox) \/ i = Len(inbox) + 1
    BY <2>3
  <2>5. \A i \in 1..Len(inbox) : i \in 1..Len(inbox')
    BY <2>3
  <2>6. AnswerComing => AnswerComing'
    BY <2>1, <2>3, <2>5 DEF AnswerComing
  <2> QED
    BY <2>1, <2>3, <2>4, <2>6 DEF AnswerInv, WaitsForAnAnswer
<1>11. CASE Ended \/ UNCHANGED vars
  BY <1>11, AnswerStill DEF Ended, vars
<1> QED
  BY <1>1, <1>2, <1>3, <1>4, <1>5, <1>6, <1>7, <1>8, <1>9, <1>10, <1>11
     DEF Next, Main, Login, Receiver

(* The client waits only while the answer to its last request is still to  *)
(* come, unless one to it was lost or it overtook the setting of the flag. *)
THEOREM WaitJustified == Spec => []WaitsForAnAnswer
<1>1. Init => AnswerInv
  BY DEF Init, AnswerInv, WaitsForAnAnswer
<1>2. ClientInv /\ AnswerInv /\ [Next]_vars => AnswerInv'
  BY AnswerKept
<1>3. AnswerInv => WaitsForAnAnswer
  BY DEF AnswerInv
<1> QED
  BY <1>1, <1>2, <1>3, ClientInvariant, PTL DEF Spec
-----------------------------------------------------------------------------
(* The list of rooms.                                                      *)

(* Every name of a list stands there once. *)
NoRepeat(list) == \A i, j \in 1..Len(list) : list[i] = list[j] => i = j

LEMMA LeastOf ==
  ASSUME NEW T \in SUBSET Nat, T # {}
  PROVE  \E x \in T : \A y \in T : x <= y
<1> DEFINE R == OpToRel(<, Nat)
<1>1. IsWellFoundedOn(R, Nat)
  BY NatLessThanWellFounded
<1>2. \A x, y \in Nat : <<x, y>> \in R <=> x < y
  BY DEF OpToRel
<1> HIDE DEF R
<1>3. \E x \in T : \A y \in T : ~(<<y, x>> \in R)
  BY <1>1, WFMin
<1>4. PICK x \in T : \A y \in T : ~(<<y, x>> \in R)
  BY <1>3
<1>5. \A y \in T : ~(y < x) /\ x \in Nat /\ y \in Nat
  BY <1>2, <1>4
<1>6. \A y \in T : x <= y
  BY <1>5
<1> QED
  BY <1>6

(* Induction for a set of numbers. *)
LEMMA Numbers ==
  ASSUME NEW S \in SUBSET Nat, 0 \in S, \A n \in S : n + 1 \in S
  PROVE  S = Nat
<1> SUFFICES ASSUME Nat \ S # {} PROVE FALSE
  OBVIOUS
<1>1. PICK x \in Nat \ S : \A y \in Nat \ S : x <= y
  BY LeastOf
<1>2. x # 0 /\ x \in Nat
  BY <1>1
<1>3. x - 1 \in Nat /\ ~(x <= x - 1) /\ (x - 1) + 1 = x
  BY <1>2
<1>4. x - 1 \in S
  BY <1>1, <1>3
<1>5. (x - 1) + 1 \in S
  BY <1>4
<1> QED
  BY <1>1, <1>3, <1>5

LEMMA ToSetOf ==
  ASSUME NEW S, NEW s \in Seq(S)
  PROVE  /\ ToSet(s) \subseteq S
         /\ \A x : x \in ToSet(s) <=> \E i \in 1..Len(s) : s[i] = x
  BY DEF ToSet

LEMMA AppendedOnce ==
  ASSUME NEW S, NEW s \in Seq(S), NoRepeat(s), NEW x \in S, x \notin ToSet(s)
  PROVE  /\ Append(s, x) \in Seq(S)
         /\ NoRepeat(Append(s, x))
         /\ ToSet(Append(s, x)) = ToSet(s) \cup {x}
<1> DEFINE t == Append(s, x)
<1>1. /\ t \in Seq(S) /\ Len(s) \in Nat /\ Len(t) = Len(s) + 1
      /\ \A i \in 1..Len(s) : t[i] = s[i]
      /\ t[Len(s) + 1] = x
  OBVIOUS
<1>2. \A i \in 1..Len(s) : s[i] # x
  BY ToSetOf
<1> HIDE DEF t
<1>3. NoRepeat(t)
  <2> SUFFICES ASSUME NEW i \in 1..Len(t), NEW j \in 1..Len(t), t[i] = t[j] PROVE i = j
    BY DEF NoRepeat
  <2>1. (i \in 1..Len(s) \/ i = Len(s) + 1) /\ (j \in 1..Len(s) \/ j = Len(s) + 1)
    BY <1>1
  <2> QED
    BY <1>1, <1>2, <2>1 DEF NoRepeat
<1>4. ToSet(t) = ToSet(s) \cup {x}
  <2>1. \A y : y \in ToSet(t) <=> \E i \in 1..Len(t) : t[i] = y
    BY <1>1, ToSetOf
  <2>2. \A y : y \in ToSet(s) <=> \E i \in 1..Len(s) : s[i] = y
    BY ToSetOf
  <2>3. \A i : i \in 1..Len(t) <=> i \in 1..Len(s) \/ i = Len(s) + 1
    BY <1>1
  <2>4. \A y : y \in ToSet(t) <=> y \in ToSet(s) \/ y = x
    BY <1>1, <2>1, <2>2, <2>3
  <2> QED
    BY <2>4
<1> QED
  BY <1>1, <1>3, <1>4 DEF t

(* What erasing a name of a list without repetition leaves. *)
LEMMA ErasedOnce ==
  ASSUME NEW S, NEW s \in Seq(S), NoRepeat(s), NEW e
  PROVE  /\ RemoveFirst(s, e) \in Seq(S)
         /\ NoRepeat(RemoveFirst(s, e))
         /\ ToSet(RemoveFirst(s, e)) = ToSet(s) \ {e}
<1>1. CASE ~ \E i \in 1..Len(s) : s[i] = e
  <2>1. RemoveFirst(s, e) = s
    BY <1>1 DEF RemoveFirst
  <2>2. e \notin ToSet(s)
    BY <1>1, ToSetOf
  <2> QED
    BY <2>1, <2>2
<1>2. CASE \E i \in 1..Len(s) : s[i] = e
  <2> DEFINE I == {i \in 1..Len(s) : s[i] = e}
             t == RemoveFirst(s, e)
  <2>1. PICK m \in I : Min(I) = m
    <3>1. I \in SUBSET Nat /\ I # {}
      BY <1>2
    <3>2. \E x \in I : \A y \in I : x =< y
      <4> HIDE DEF I
      <4> QED
        BY <3>1, LeastOf
    <3>3. Min(I) \in I
      <4> HIDE DEF I
      <4> QED
        BY <3>2 DEF Min
    <3> QED
      BY <3>3
  <2>2. SelectInSeq(s, LAMBDA v : v = e) = m
    BY <1>2, <2>1 DEF SelectInSeq
  <2>3. t = SubSeq(s, 1, m - 1) \o SubSeq(s, m + 1, Len(s))
    BY <1>2, <2>2 DEF RemoveFirst, RemoveAt
  <2>4. m \in 1..Len(s) /\ s[m] = e /\ Len(s) \in Nat
    BY <2>1
  <2> HIDE DEF I, t
  <2>5. /\ t \in Seq(S) /\ Len(t) = Len(s) - 1
        /\ \A i \in 1..Len(t) : t[i] = IF i < m THEN s[i] ELSE s[i + 1]
    <3> DEFINE a == SubSeq(s, 1, m - 1)
               b == SubSeq(s, m + 1, Len(s))
    <3>1. /\ a \in Seq(S) /\ Len(a) = m - 1
          /\ \A i \in 1..(m - 1) : a[i] = s[i]
      BY <2>4
    <3>2. /\ b \in Seq(S) /\ Len(b) = Len(s) - m
          /\ \A i \in 1..(Len(s) - m) : b[i] = s[i + m]
      BY <2>4
    <3>3. t = a \o b
      BY <2>3
    <3> HIDE DEF a, b
    <3>4. t \in Seq(S) /\ Len(t) = Len(a) + Len(b)
      BY <3>1, <3>2, <3>3
    <3>5. Len(t) = Len(s) - 1
      BY <2>4, <3>1, <3>2, <3>4
    <3>6. ASSUME NEW i \in 1..Len(t) PROVE t[i] = IF i < m THEN s[i] ELSE s[i + 1]
      <4>1. t[i] = IF i <= Len(a) THEN a[i] ELSE b[i - Len(a)]
        BY <3>1, <3>2, <3>3
      <4>2. CASE i < m
        BY <2>4, <3>1, <4>1, <4>2
      <4>3. CASE ~(i < m)
        <5>1. i - Len(a) \in 1..(Len(s) - m) /\ ~(i <= Len(a)) /\ (i - Len(a)) + m = i + 1
          BY <2>4, <3>1, <3>5, <4>3
        <5> QED
          BY <3>2, <4>1, <4>3, <5>1
      <4> QED
        BY <4>2, <4>3
    <3> QED
      BY <3>4, <3>5, <3>6
  <2>6. \A i \in 1..Len(t) : i \in 1..Len(s) /\ i + 1 \in 1..Len(s)
    BY <2>4, <2>5
  <2>7. NoRepeat(t)
    <3> SUFFICES ASSUME NEW i \in 1..Len(t), NEW j \in 1..Len(t), t[i] = t[j] PROVE i = j
      BY DEF NoRepeat
    <3> DEFINE p(k) == IF k < m THEN k ELSE k + 1
    <3>1. t[i] = s[p(i)] /\ t[j] = s[p(j)] /\ p(i) \in 1..Len(s) /\ p(j) \in 1..Len(s)
      BY <2>5, <2>6
    <3>2. p(i) = p(j)
      <4> HIDE DEF p
      <4> QED
        BY <3>1 DEF NoRepeat
    <3> QED
      BY <2>4, <2>6, <3>2
  <2>8. ToSet(t) = ToSet(s) \ {e}
    <3>1. \A y : y \in ToSet(t) <=> \E i \in 1..Len(t) : t[i] = y
      BY <2>5, ToSetOf
    <3>2. \A y : y \in ToSet(s) <=> \E i \in 1..Len(s) : s[i] = y
      BY ToSetOf
    <3>3. ASSUME NEW y \in ToSet(t) PROVE y \in ToSet(s) /\ y # e
      <4>1. PICK i \in 1..Len(t) : t[i] = y
        BY <3>1
      <4> DEFINE k == IF i < m THEN i ELSE i + 1
      <4>2. k \in 1..Len(s) /\ s[k] = y /\ k # m
        BY <2>4, <2>5, <2>6, <4>1
      <4> QED
        BY <2>4, <3>2, <4>2 DEF NoRepeat
    <3>4. ASSUME NEW y \in ToSet(s), y # e PROVE y \in ToSet(t)
      <4>1. PICK i \in 1..Len(s) : s[i] = y
        BY <3>2
      <4>2. i # m
        BY <2>4, <3>4, <4>1
      <4> DEFINE k == IF i < m THEN i ELSE i - 1
      <4>3. k \in 1..Len(t) /\ (IF k < m THEN k ELSE k + 1) = i
        BY <2>4, <2>5, <4>2
      <4>4. t[k] = y
        BY <2>5, <4>1, <4>3
      <4> QED
        BY <3>1, <4>3, <4>4
    <3> QED
      BY <3>3, <3>4
  <2> QED
    BY <2>5, <2>7, <2>8 DEF t
<1> QED
  BY <1>1, <1>2

(* A list without repetition has as many names as its set. *)
LEMMA CountedOnce ==
  ASSUME NEW S, NEW s \in Seq(S), NoRepeat(s)
  PROVE  Len(s) = Cardinality(ToSet(s))
<1>1. Len(s) \in Nat /\ \A i \in 1..Len(s) : s[i] \in ToSet(s)
  BY ToSetOf
<1>2. s \in [1..Len(s) -> ToSet(s)]
  BY <1>1
<1>3. \A y \in ToSet(s) : \E i \in 1..Len(s) : s[i] = y
  BY ToSetOf
<1>4. s \in Bijection(1..Len(s), ToSet(s))
  BY <1>2, <1>3, Fun_IsBij DEF NoRepeat
<1>5. ExistsBijection(1..Len(s), ToSet(s))
  BY <1>4 DEF ExistsBijection
<1> QED
  BY <1>1, <1>5, FS_CountingElements

(* f holds the list after each of the first k names of a choice. *)
Naming(f, choice, k) ==
  f = [n \in 0..k |-> IF n = 0 THEN <<>> ELSE Added(f[n - 1], choice[n])]

Names == Rooms \cup {NoName}

(* The list keeps each of the first k names once, and no empty one. *)
Kept(list, choice, k) ==
  /\ list \in Seq(Rooms) /\ NoRepeat(list)
  /\ ToSet(list) = {choice[i] : i \in 1..k} \ {NoName}

LEMMA NamingFound ==
  ASSUME NEW choice
  PROVE  \A k \in Nat : \E f : Naming(f, choice, k)
<1> DEFINE S == {k \in Nat : \E f : Naming(f, choice, k)}
<1>1. 0 \in S
  <2> DEFINE f == [n \in 0..0 |-> <<>>]
  <2>1. f = [n \in 0..0 |-> IF n = 0 THEN <<>> ELSE Added(f[n - 1], choice[n])]
    OBVIOUS
  <2>2. Naming(f, choice, 0)
    BY <2>1 DEF Naming
  <2> QED
    BY <2>2
<1>2. ASSUME NEW k \in S PROVE k + 1 \in S
  <2>1. PICK f : Naming(f, choice, k)
    OBVIOUS
  <2> DEFINE g == [n \in 0..(k + 1) |-> IF n <= k THEN f[n] ELSE Added(f[k], choice[k + 1])]
  <2>2. \A n \in 0..k : f[n] = IF n = 0 THEN <<>> ELSE Added(f[n - 1], choice[n])
    BY <2>1 DEF Naming
  <2>3. ASSUME NEW n \in 0..(k + 1)
        PROVE  g[n] = IF n = 0 THEN <<>> ELSE Added(g[n - 1], choice[n])
    <3>1. CASE n <= k
      <4>1. g[n] = f[n] /\ n \in 0..k
        BY <3>1
      <4>2. n # 0 => g[n - 1] = f[n - 1]
        BY <3>1
      <4> HIDE DEF g
      <4> QED
        BY <2>2, <4>1, <4>2
    <3>2. CASE ~(n <= k)
      <4>1. n = k + 1 /\ n # 0 /\ k \in Nat
        BY <3>2
      <4>2. g[n] = Added(f[k], choice[k + 1]) /\ g[k] = f[k] /\ n - 1 = k
        BY <4>1
      <4> HIDE DEF g
      <4> QED
        BY <4>1, <4>2
    <3> QED
      BY <3>1, <3>2
  <2>4. g = [n \in 0..(k + 1) |-> IF n = 0 THEN <<>> ELSE Added(g[n - 1], choice[n])]
    <3> DEFINE h == [n \in 0..(k + 1) |-> IF n = 0 THEN <<>> ELSE Added(g[n - 1], choice[n])]
    <3>1. \A n \in 0..(k + 1) : h[n] = IF n = 0 THEN <<>> ELSE Added(g[n - 1], choice[n])
      <4> HIDE DEF g
      <4> QED
        OBVIOUS
    <3>2. DOMAIN g = 0..(k + 1) /\ g = [n \in 0..(k + 1) |-> g[n]]
      OBVIOUS
    <3>3. DOMAIN h = 0..(k + 1) /\ h = [n \in 0..(k + 1) |-> h[n]]
      OBVIOUS
    <3>4. \A n \in 0..(k + 1) : g[n] = h[n]
      <4> HIDE DEF g, h
      <4> QED
        BY <2>3, <3>1
    <3> HIDE DEF g, h
    <3>5. g = h
      BY <3>2, <3>3, <3>4
    <3> QED
      BY <3>5 DEF h
  <2>5. Naming(g, choice, k + 1)
    BY <2>4 DEF Naming
  <2> QED
    BY <2>5
<1>3. S \in SUBSET Nat
  OBVIOUS
<1> HIDE DEF S
<1>4. S = Nat
  BY <1>1, <1>2, <1>3, Numbers
<1> QED
  BY <1>4 DEF S

LEMMA NamedOf ==
  ASSUME NEW choice, Len(choice) \in Nat
  PROVE  \E f : Naming(f, choice, Len(choice)) /\ Named(choice) = f[Len(choice)]
<1> DEFINE f == CHOOSE f : Naming(f, choice, Len(choice))
<1>1. \E g : Naming(g, choice, Len(choice))
  BY NamingFound
<1>2. Naming(f, choice, Len(choice))
  BY <1>1
<1>3. Named(choice) = f[Len(choice)]
  BY DEF Named, Naming
<1> QED
  BY <1>2, <1>3

LEMMA AddedKept ==
  ASSUME NEW choice \in Seq(Names), NEW k \in Nat, k + 1 <= Len(choice),
         NEW list, Kept(list, choice, k)
  PROVE  Kept(Added(list, choice[k + 1]), choice, k + 1)
<1> DEFINE x == choice[k + 1]
<1>1. x \in Names
  OBVIOUS
<1>2. {choice[i] : i \in 1..(k + 1)} = {choice[i] : i \in 1..k} \cup {x}
  <2>1. 1..(k + 1) = (1..k) \cup {k + 1}
    OBVIOUS
  <2> QED
    BY <2>1
<1> HIDE DEF x
<1>3. list \in Seq(Rooms) /\ NoRepeat(list)
      /\ ToSet(list) = {choice[i] : i \in 1..k} \ {NoName}
  BY DEF Kept
<1>4. CASE x = NoName \/ x \in ToSet(list)
  <2>1. Added(list, x) = list
    BY <1>4 DEF Added
  <2>2. ToSet(list) = {choice[i] : i \in 1..(k + 1)} \ {NoName}
    BY <1>2, <1>3, <1>4
  <2>3. Kept(list, choice, k + 1)
    BY <1>3, <2>2 DEF Kept
  <2> QED
    BY <2>1, <2>3 DEF x
<1>5. CASE ~(x = NoName \/ x \in ToSet(list))
  <2>1. Added(list, x) = Append(list, x) /\ x \in Rooms
    BY <1>1, <1>5 DEF Added, Names
  <2>2. /\ Append(list, x) \in Seq(Rooms) /\ NoRepeat(Append(list, x))
        /\ ToSet(Append(list, x)) = ToSet(list) \cup {x}
    BY <1>3, <1>5, <2>1, AppendedOnce
  <2>3. ToSet(Append(list, x)) = {choice[i] : i \in 1..(k + 1)} \ {NoName}
    BY <1>2, <1>3, <1>5, <2>2
  <2>4. Kept(Append(list, x), choice, k + 1)
    BY <2>2, <2>3 DEF Kept
  <2> QED
    BY <2>1, <2>4 DEF x
<1> QED
  BY <1>4, <1>5

(* chatRooms takes over the names of the list, each once, no empty one. *)
LEMMA NamedKept ==
  ASSUME NEW choice \in Seq(Names)
  PROVE  /\ Named(choice) \in Seq(Rooms) /\ NoRepeat(Named(choice))
         /\ ToSet(Named(choice)) = ToSet(choice) \ {NoName}
<1> DEFINE N == Len(choice)
<1>1. N \in Nat
  OBVIOUS
<1>2. PICK f : Naming(f, choice, N) /\ Named(choice) = f[N]
  BY <1>1, NamedOf
<1> DEFINE S == {k \in Nat : k <= N => Kept(f[k], choice, k)}
<1>3. \A n \in 0..N : f[n] = IF n = 0 THEN <<>> ELSE Added(f[n - 1], choice[n])
  <2> HIDE DEF N
  <2> QED
    BY <1>2 DEF Naming
<1>4. 0 \in S
  <2>1. f[0] = <<>>
    BY <1>1, <1>3
  <2>2. {choice[i] : i \in 1..0} = {}
    OBVIOUS
  <2>3. <<>> \in Seq(Rooms) /\ NoRepeat(<<>>) /\ ToSet(<<>>) = {}
    BY DEF NoRepeat, ToSet
  <2>4. Kept(<<>>, choice, 0)
    BY <2>2, <2>3 DEF Kept
  <2> QED
    BY <2>1, <2>4
<1>5. ASSUME NEW k \in S PROVE k + 1 \in S
  <2>1. CASE k + 1 <= N
    <3>1. k \in Nat /\ Kept(f[k], choice, k)
      BY <1>1, <2>1
    <3>2. k + 1 \in 0..N /\ k + 1 # 0 /\ (k + 1) - 1 = k
      BY <1>1, <2>1
    <3>3. f[k + 1] = Added(f[k], choice[k + 1])
      BY <1>3, <3>2
    <3>4. Kept(Added(f[k], choice[k + 1]), choice, k + 1)
      BY <2>1, <3>1, AddedKept
    <3> QED
      BY <3>3, <3>4
  <2>2. CASE ~(k + 1 <= N)
    BY <2>2
  <2> QED
    BY <2>1, <2>2
<1>6. S \in SUBSET Nat
  OBVIOUS
<1>7. S = Nat
  <2> HIDE DEF S
  <2> QED
    BY <1>4, <1>5, <1>6, Numbers
<1>8. Kept(f[N], choice, N)
  BY <1>1, <1>7
<1>9. ToSet(choice) = {choice[i] : i \in 1..N}
  BY DEF ToSet
<1> QED
  BY <1>2, <1>8, <1>9 DEF Kept

(* chatRooms has each room once, the rooms the server was told of. *)
ListInv ==
  /\ isRunning \in BOOLEAN /\ it \in Nat /\ end \in Nat /\ chats \in Nat
  /\ chatRooms \in Seq(Rooms) /\ NoRepeat(chatRooms)
  /\ told = ToSet(chatRooms)

LEMMA ListInit == Init => ListInv
<1> SUFFICES ASSUME Init PROVE ListInv
  OBVIOUS
<1>1. <<>> \in Seq(Rooms) /\ NoRepeat(<<>>) /\ ToSet(<<>>) = {}
  BY DEF NoRepeat, ToSet
<1> QED
  BY <1>1 DEF Init, ListInv

LEMMA LeaveKeepsList ==
  ASSUME ListInv, NEW name, SendLeave(name)
  PROVE  /\ chatRooms' \in Seq(Rooms) /\ NoRepeat(chatRooms')
         /\ told' = ToSet(chatRooms')
<1>1. chatRooms' = RemoveFirst(chatRooms, name) /\ told' = told \ {name}
  BY DEF SendLeave, Erase
<1>2. chatRooms \in Seq(Rooms) /\ NoRepeat(chatRooms) /\ told = ToSet(chatRooms)
  BY DEF ListInv
<1>3. /\ RemoveFirst(chatRooms, name) \in Seq(Rooms) /\ NoRepeat(RemoveFirst(chatRooms, name))
      /\ ToSet(RemoveFirst(chatRooms, name)) = ToSet(chatRooms) \ {name}
  BY <1>2, ErasedOnce
<1> QED
  BY <1>1, <1>2, <1>3

LEMMA ListNext ==
  ASSUME ListInv, [Next]_vars
  PROVE  ListInv'
<1> USE DEF flags, loopVars, netVars, history, answers
<1>1. CASE Login
  BY <1>1 DEF Login, CheckLogin, CheckWaiting, SendRequest, NoChoice, SetWaiting, ListInv
<1>2. CASE JoinRoom
  <2>1. PICK choice \in RoomChoices : /\ chatRooms' = Named(choice)
                                      /\ told' = ToSet(choice) \ {NoName}
    BY <1>2 DEF JoinRoom
  <2>2. choice \in Seq(Names)
    BY ClientAssumption DEF Names
  <2>3. chatRooms' \in Seq(Rooms) /\ NoRepeat(chatRooms') /\ told' = ToSet(chatRooms')
    BY <2>1, <2>2, NamedKept
  <2>4. UNCHANGED <<isRunning, it, end, chats>>
    BY <1>2 DEF JoinRoom
  <2> QED
    BY <2>3, <2>4 DEF ListInv
<1>3. CASE CheckRunning \/ SayText \/ SayNothing \/ LeaveNameless
  BY <1>3 DEF CheckRunning, SayText, SayNothing, LeaveNameless, ListInv
<1>4. CASE LeaveRoom
  <2>1. PICK name \in Rooms \cup {NoName} : SendLeave(name)
    BY <1>4 DEF LeaveRoom
  <2>2. chatRooms' \in Seq(Rooms) /\ NoRepeat(chatRooms') /\ told' = ToSet(chatRooms')
    BY <2>1, LeaveKeepsList
  <2>3. isRunning' \in BOOLEAN /\ UNCHANGED <<it, end, chats>>
    BY <1>4 DEF LeaveRoom
  <2> QED
    BY <2>2, <2>3 DEF ListInv
<1>5. CASE Exit
  BY <1>5 DEF Exit, ListInv
<1>6. CASE LeaveNext
  <2>1. UNCHANGED <<isRunning, end, chats>> /\ it' \in Nat
    BY <1>6 DEF LeaveNext, ListInv
  <2>2. CASE UNCHANGED <<chatRooms, told>>
    BY <2>1, <2>2 DEF ListInv
  <2>3. CASE SendLeave(IF it <= Len(chatRooms) THEN chatRooms[it] ELSE NoName)
    BY <2>1, <2>3, LeaveKeepsList DEF ListInv
  <2> QED
    BY <1>6, <2>2, <2>3 DEF LeaveNext
<1>7. CASE LeaveEnd \/ CloseSocketConnection
  BY <1>7 DEF LeaveEnd, CloseSocketConnection, ListInv
<1>8. CASE Receiver
  BY <1>8 DEF Receiver, ReceiveAnswer, ClearWaiting, ReceiveChat, TestRunning, ListInv
<1>9. CASE Answer \/ OthersTalk
  BY <1>9 DEF Answer, OthersTalk, ListInv
<1>10. CASE UNCHANGED vars
  BY <1>10 DEF vars, ListInv
<1> QED
  BY <1>1, <1>2, <1>3, <1>4, <1>5, <1>6, <1>7, <1>8, <1>9, <1>10
     DEF Next, Main, Chatting, Leaving, Ended

LEMMA ListInvariant == Spec => []ListInv
  BY ListInit, ListNext, PTL DEF Spec

(* Type correctness of the client program. *)
THEOREM ClientTypes == Spec => []TypeOK
<1>1. ClientInv /\ ListInv => TypeOK
  <2> SUFFICES ASSUME ClientInv, ListInv PROVE TypeOK
    OBVIOUS
  <2>1. told \in SUBSET Rooms
    BY ToSetOf DEF ListInv
  <2> QED
    BY <2>1 DEF ClientInv, ControlTypes, ListInv, TypeOK, Labels
<1> QED
  BY <1>1, ClientInvariant, ListInvariant, PTL

(* The rooms the client remembers are, each once, those the server has been *)
(* told of and not told to leave.                                           *)
THEOREM RoomsKeptAsTold == Spec => []RoomsAsTold
<1>1. ListInv => RoomsAsTold
  BY CountedOnce DEF ListInv, RoomsAsTold
<1> QED
  BY <1>1, ListInvariant, PTL
-----------------------------------------------------------------------------
LEMMA RoleInit == Init => Role!Init
  BY DEF Init, Role!Init, Entered, InProcess

LEMMA RoleStep ==
  ASSUME ClientInv, [Next]_vars
  PROVE  [Role!Next]_<<asked, heard, pc \in Entered \ {"join"}, said, InProcess>>
<1> DEFINE Joined == pc \in Entered \ {"join"}
<1> USE DEF flags, loopVars, netVars, history, answers, InProcess
<1>1. CASE CheckLogin \/ CheckWaiting \/ NoChoice \/ SetWaiting
  BY <1>1 DEF CheckLogin, CheckWaiting, NoChoice, SetWaiting, Entered
<1>2. CASE SendRequest
  <2>1. /\ pc = "prompt" /\ pc' = "sent" /\ asked' = asked + 1 /\ heard >= asked
        /\ UNCHANGED <<heard, said>>
    BY <1>2, HandledNatural DEF SendRequest, ClientInv, ControlTypes, WaitInv
  <2>2. Role!Ask
    BY <2>1 DEF Role!Ask, Entered
  <2> QED
    BY <2>2 DEF Role!Next
<1>3. CASE JoinRoom
  <2>1. pc = "join" /\ pc' = "run" /\ heard > 0 /\ UNCHANGED <<asked, heard, said>>
    BY <1>3 DEF JoinRoom, ClientInv, EntryInv, EntryAfterLogin, Entered
  <2>2. Role!Join
    BY <2>1 DEF Role!Join, Entered
  <2> QED
    BY <2>2 DEF Role!Next
<1>4. CASE CheckRunning \/ SayNothing \/ Exit \/ LeaveEnd
  BY <1>4 DEF CheckRunning, SayNothing, Exit, LeaveEnd, Entered
<1>5. CASE SayText \/ LeaveRoom
  <2>1. pc = "line" /\ pc' = "run" /\ said' = said + 1 /\ UNCHANGED <<asked, heard>>
    BY <1>5 DEF SayText, LeaveRoom, SendLeave
  <2>2. Role!Say
    BY <2>1 DEF Role!Say, Entered
  <2> QED
    BY <2>2 DEF Role!Next
<1>6. CASE LeaveNext
  <2>1. CASE said' = said + 1 /\ pc = "exit" /\ UNCHANGED <<asked, heard, pc>>
    <3>1. Role!Say
      BY <2>1 DEF Role!Say, Entered
    <3> QED
      BY <3>1 DEF Role!Next
  <2>2. CASE pc = "exit" /\ pc' = "aborted" /\ UNCHANGED history
    <3>1. Role!HangUp
      BY <2>2 DEF Role!HangUp, Entered
    <3> QED
      BY <3>1 DEF Role!Next
  <2> QED
    BY <1>6, <2>1, <2>2 DEF LeaveNext, SendLeave
<1>7. CASE LeaveNameless \/ CloseSocketConnection
  <2>1. pc \in {"line", "close"} /\ pc' \in {"aborted", "done"} /\ UNCHANGED history
    BY <1>7 DEF LeaveNameless, CloseSocketConnection
  <2>2. Role!HangUp
    BY <2>1 DEF Role!HangUp, Entered
  <2> QED
    BY <2>2 DEF Role!Next
<1>8. CASE ReceiveAnswer
  <2>1. heard' = heard + 1 /\ UNCHANGED <<asked, said, pc>>
    BY <1>8 DEF ReceiveAnswer
  <2>2. Role!Hear
    BY <2>1 DEF Role!Hear
  <2> QED
    BY <2>2 DEF Role!Next
<1>9. CASE ClearWaiting \/ ReceiveChat \/ TestRunning \/ Answer \/ OthersTalk
  BY <1>9 DEF ClearWaiting, ReceiveChat, TestRunning, Answer, OthersTalk
<1>10. CASE Ended \/ UNCHANGED vars
  BY <1>10 DEF Ended, vars
<1> QED
  BY <1>1, <1>2, <1>3, <1>4, <1>5, <1>6, <1>7, <1>8, <1>9, <1>10
     DEF Next, Main, Login, Chatting, Leaving, Receiver

(* On its connection the client program behaves as the chat server assumes *)
(* clients to: it asks when it has been answered, joins once, then talks.  *)
THEOREM ClientImplementsRole == Spec => ImplementsRole
<1>1. ClientInv /\ [Next]_vars => [Role!Next]_Role!roleVars
  BY RoleStep DEF Role!roleVars
<1> QED
  BY <1>1, RoleInit, ClientInvariant, PTL DEF Spec, ImplementsRole, Role!Spec
=============================================================================
