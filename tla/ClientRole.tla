------------------------------ MODULE ClientRole ------------------------------
(***************************************************************************)
(* What the chat server may rely on from one connection of the client      *)
(* program, as seen on the connection: a request is sent only when no      *)
(* fewer answers have come than requests were sent, rooms are joined once  *)
(* and only after an answer, and texts and leaving come after that.        *)
(* ChatServer takes its clients to behave like this (ClientSend);          *)
(* ChatClient implements it.                                               *)
(***************************************************************************)
EXTENDS Naturals

VARIABLES
  asks,     \* requests sent (LOGIN, REGISTER)
  answers,  \* answers received
  joined,   \* JOIN_ROOM has been sent
  said,     \* packets sent after it (TEXT, LEAVE_ROOM)
  open      \* the connection is in use

roleVars == <<asks, answers, joined, said, open>>

Init == asks = 0 /\ answers = 0 /\ joined = FALSE /\ said = 0 /\ open = TRUE

Hear == answers' = answers + 1 /\ UNCHANGED <<asks, joined, said, open>>

Ask == /\ open /\ ~joined /\ answers >= asks
       /\ asks' = asks + 1
       /\ UNCHANGED <<answers, joined, said, open>>

Join == /\ open /\ ~joined /\ answers > 0
        /\ joined' = TRUE
        /\ UNCHANGED <<asks, answers, said, open>>

Say == /\ open /\ joined
       /\ said' = said + 1
       /\ UNCHANGED <<asks, answers, joined, open>>

HangUp == open' = FALSE /\ UNCHANGED <<asks, answers, joined, said>>

Next == Hear \/ Ask \/ Join \/ Say \/ HangUp

Spec == Init /\ [][Next]_roleVars
=============================================================================
