--------------------------- MODULE AuthServerProofs ---------------------------
(***************************************************************************)
(* The authentication server keeps its promises for every number of        *)
(* emails, passwords, connections and requests, every failure of a         *)
(* statement and every restart, and implements the book of accounts.  The  *)
(* last part is about it over time: the dates in its tables and the order  *)
(* of its answers.                                                         *)
(***************************************************************************)
EXTENDS AuthServer, TLAPS

(* What a handler knows about the tables where it stands. *)
TaskInv ==
  /\ \A r, s \in task : r = s
  /\ \A r \in task :
       /\ pc \in {"find", "insert"} => r.type = "REGISTER"
       /\ pc \in {"lookup", "check", "record", "touch", "enter"} => r.type = "LOGIN"
       /\ pc = "insert" => webAuth[r.email] = NoRow
       /\ pc \in {"record", "touch", "enter"} => webAuth[r.email] = r.pw
       /\ pc = "touch" => user[r.email] # NoRow
       /\ pc = "enter" => user[r.email] = NoRow

(* What it is about to say is so, and news. *)
Truthful(m) ==
  /\ Admitting(m) => /\ webAuth[m.email] = m.pw
                     /\ user[m.email] # NoRow
                     /\ user[m.email].created = m.created
  /\ Welcoming(m) => webAuth[m.email] = m.pw

AnswerInv ==
  pc = "send" =>
    \A m \in answer :
      /\ Truthful(m)
      /\ Welcoming(m) =>
           \A a \in Sent : Welcoming(Answered(a)) => Answered(a).email # m.email

(* The positions of answers stay within the requests that were sent: one   *)
(* is still unanswered while it is handled.                                *)
InHand(k) == pc \in Handling /\ clients[idx] = k
CountInv ==
  \A k \in Conns : /\ Len(out[k]) + Len(inq[k]) <= asked[k]
                   /\ InHand(k) => Len(out[k]) + Len(inq[k]) < asked[k]
                   /\ asked[k] <= MaxAsked

AuthInv == TypeOK /\ TaskInv /\ AnswerInv /\ CountInv /\ LoginSound /\ OneWinner

LEMMA SentPlaces ==
  ASSUME NEW a
  PROVE  a \in Sent <=> \E k \in Conns : \E i \in 1..Len(out[k]) : a = <<k, i>>
  BY DEF Sent

LEMMA InitInv == Init => AuthInv
<1> SUFFICES ASSUME Init PROVE AuthInv
  OBVIOUS
<1>1. TypeOK
  <2>1. /\ webAuth \in [Emails -> Passwords \cup {NoRow}]
        /\ user \in [Emails -> Rows \cup {NoRow}]
        /\ asked \in [Conns -> Nat]
        /\ link \in [Conns -> {"idle", "up", "fin", "rst"}]
    BY DEF Init
  <2>2. inq \in [Conns -> Seq(Request)] /\ out \in [Conns -> Seq(Response)]
    BY DEF Init
  <2>3. clients \in Seq(Conns) /\ backlog \in Seq(Conns) /\ ready \in SUBSET (1..Len(clients))
    BY DEF Init
  <2>4. task \in SUBSET Request /\ answer \in SUBSET Response /\ avail \in BOOLEAN
    BY DEF Init
  <2>5. now \in Nat /\ stamp \in Nat /\ idx \in Nat \ {0}
    BY DEF Init
  <2>6. pc = "select" /\ pc \notin Handling /\ task = {}
    BY DEF Init, Handling
  <2> QED
    BY <2>1, <2>2, <2>3, <2>4, <2>5, <2>6 DEF TypeOK
<1>2. Sent = {}
  BY DEF Init, Sent
<1>3. TaskInv /\ AnswerInv
  BY DEF Init, TaskInv, AnswerInv
<1>4. CountInv
  BY AuthAssumption DEF Init, CountInv, InHand, Handling
<1> QED
  BY <1>1, <1>2, <1>3, <1>4 DEF AuthInv, LoginSound, OneWinner

(* A step that neither answers nor writes a table disturbs nothing that    *)
(* has been said.                                                          *)
LEMMA SaidStays ==
  ASSUME AuthInv, UNCHANGED <<webAuth, user, out>>
  PROVE  LoginSound' /\ OneWinner'
  BY DEF AuthInv, LoginSound, OneWinner, Sent, Answered, Admitting, Welcoming

(* A step outside the handlers: of the loop or of the environment. *)
LEMMA QuietStep ==
  ASSUME AuthInv, UNCHANGED <<webAuth, user, out>>, TypeOK', CountInv',
         \/ pc' \notin Handling /\ (task' = {} \/ task' = task)
         \/ UNCHANGED <<pc, task, answer>>
  PROVE  AuthInv'
<1>1. AnswerInv'
  BY DEF AuthInv, AnswerInv, Truthful, Sent, Answered, Admitting, Welcoming, Handling
<1>2. TaskInv'
  BY DEF AuthInv, TaskInv, Handling
<1> QED
  BY <1>1, <1>2, SaidStays DEF AuthInv

LEMMA ReplyTyped ==
  ASSUME NEW r \in Request, NEW field \in {"plain", "hash", "unset"},
         NEW reason \in {"NONE", "INVALID_CREDENTIALS", "ACCOUNT_ALREADY_EXISTS",
                         "INTERNAL_SERVER_ERROR"},
         NEW created \in Nat
  PROVE  /\ Reply(r, field, reason, created) \in Response
         /\ Reply(r, field, reason, created).email = r.email
         /\ Reply(r, field, reason, created).pw = r.pw
         /\ Reply(r, field, reason, created).reason = reason
         /\ Reply(r, field, reason, created).created = created
         /\ r.type # "LOGIN" => Reply(r, field, reason, created).type = "REGISTER_RESPONSE"
         /\ r.type = "LOGIN" => Reply(r, field, reason, created).type = "LOGIN_RESPONSE"
  BY DEF Reply, Request, Response

LEMMA CountTyped ==
  ASSUME TypeOK, NEW c \in Conns
  PROVE  Len(out[c]) \in Nat /\ Len(inq[c]) \in Nat /\ asked[c] \in Nat
<1>1. out[c] \in Seq(Response) /\ inq[c] \in Seq(Request) /\ asked[c] \in Nat
  BY DEF TypeOK
<1> QED
  BY <1>1

LEMMA Fewer ==
  ASSUME NEW a \in Nat, NEW b \in Nat, NEW m \in Nat, NEW n \in Nat \ {0}, a + b <= m
  PROVE  a + (b - n) < m /\ a + (b - n) <= m
  OBVIOUS

LEMMA NoMore ==
  ASSUME NEW a \in Nat, NEW b \in Nat, NEW m \in Nat, NEW n \in Nat, n <= b, a + b <= m
  PROVE  a + n <= m /\ (a + b < m => a + n < m)
  OBVIOUS

LEMMA Successor ==
  ASSUME NEW a \in Nat, NEW b \in Nat, NEW m \in Nat, a + b < m
  PROVE  (a + 1) + b <= m
  OBVIOUS

LEMMA Position ==
  ASSUME NEW a \in Nat, NEW b \in Nat, NEW m \in Nat, NEW bound \in Nat, a + b < m, m <= bound
  PROVE  a + 1 \in 1..bound
  OBVIOUS

LEMMA OneMore ==
  ASSUME NEW a \in Nat, NEW b \in Nat, NEW m \in Nat, a + b <= m
  PROVE  a + (b + 1) <= m + 1 /\ (a + b < m => a + (b + 1) < m + 1)
  OBVIOUS

(* The environment and the loop leave the counts right. *)
LEMMA ReceiveInv ==
  ASSUME AuthInv, Receive
  PROVE  AuthInv'
<1> USE DEF AuthInv, loop, net, tables, clock
<1> PICK i \in ready, n \in 1..MaxBatch :
       LET k == clients[i] IN
       /\ NextReady(i) /\ link[k] # "rst" /\ n <= Len(inq[k])
       /\ inq' = [inq EXCEPT ![k] = Taken(@, n)]
       /\ IF Head(inq[k]).type = "OTHER"
          THEN idx' = i + 1 /\ UNCHANGED <<pc, task>>
          ELSE /\ idx' = i
               /\ task' = {Head(inq[k])}
               /\ pc' = IF Head(inq[k]).type = "LOGIN" THEN "lookup" ELSE "find"
  BY DEF Receive
<1> DEFINE k == clients[i]
<1>1. /\ pc = "scan" /\ task = {}
      /\ UNCHANGED <<webAuth, user, now, stamp, clients, ready, avail, answer, link, asked,
                     backlog, out>>
  BY DEF Receive, TypeOK, Handling
<1>2. i \in 1..Len(clients) /\ k \in Conns /\ n \in Nat \ {0} /\ i \in Nat \ {0}
  BY AuthAssumption DEF TypeOK
<1>3. inq[k] \in Seq(Request) /\ n <= Len(inq[k]) /\ inq[k] # <<>>
  BY <1>2 DEF TypeOK
<1>4. /\ Taken(inq[k], n) \in Seq(Request) /\ Len(Taken(inq[k], n)) = Len(inq[k]) - n
      /\ Head(inq[k]) \in Request
  BY <1>2, <1>3 DEF Taken
<1>5. inq' = [inq EXCEPT ![k] = Taken(inq[k], n)] /\ inq' \in [Conns -> Seq(Request)]
  BY <1>2, <1>4 DEF TypeOK
<1>6. TypeOK'
  <2>1. CASE Head(inq[k]).type = "OTHER"
    <3>1. idx' = i + 1 /\ pc' = "scan" /\ task' = {}
      BY <1>1, <2>1
    <3>2. pc' \notin Handling /\ idx' \in Nat \ {0}
      BY <1>2, <3>1 DEF Handling
    <3> QED
      BY <1>1, <1>5, <3>1, <3>2 DEF TypeOK
  <2>2. CASE Head(inq[k]).type # "OTHER"
    <3>1. idx' = i /\ pc' \in {"lookup", "find"} /\ task' = {Head(inq[k])}
      BY <2>2
    <3> QED
      BY <1>1, <1>2, <1>4, <1>5, <3>1 DEF TypeOK, Handling
  <2> QED
    BY <2>1, <2>2
<1>7. CountInv'
  <2> SUFFICES ASSUME NEW c \in Conns
               PROVE  /\ Len(out[c]) + Len(inq'[c]) <= asked[c]
                      /\ InHand(c)' => Len(out[c]) + Len(inq'[c]) < asked[c]
                      /\ asked[c] <= MaxAsked
    BY <1>1 DEF CountInv
  <2>1. Len(out[c]) + Len(inq[c]) <= asked[c] /\ asked[c] <= MaxAsked
    BY DEF CountInv
  <2>2. Len(out[c]) \in Nat /\ Len(inq[c]) \in Nat /\ asked[c] \in Nat
    BY CountTyped
  <2>3. CASE c = k
    <3>1. Len(inq'[c]) = Len(inq[c]) - n
      BY <1>4, <1>5, <2>3 DEF TypeOK
    <3>2. /\ Len(out[c]) + (Len(inq[c]) - n) < asked[c]
          /\ Len(out[c]) + (Len(inq[c]) - n) <= asked[c]
      BY <1>2, <2>1, <2>2, Fewer
    <3>3. /\ Len(out[c]) + Len(inq'[c]) < asked[c]
          /\ Len(out[c]) + Len(inq'[c]) <= asked[c]
      BY <3>1, <3>2
    <3> QED
      BY <2>1, <3>3
  <2>4. CASE c # k
    <3>1. inq'[c] = inq[c]
      BY <1>5, <2>4 DEF TypeOK
    <3>2. ~InHand(c)'
      BY <1>1, <2>4 DEF InHand, Handling
    <3> QED
      BY <2>1, <2>2, <3>1, <3>2
  <2> QED
    BY <2>3, <2>4
<1>8. AnswerInv'
  BY <1>1 DEF AnswerInv
<1>9. TaskInv'
  <2>1. CASE Head(inq[k]).type = "OTHER"
    BY <1>1, <2>1 DEF TaskInv
  <2>2. CASE Head(inq[k]).type # "OTHER"
    <3>1. /\ pc' = IF Head(inq[k]).type = "LOGIN" THEN "lookup" ELSE "find"
          /\ task' = {Head(inq[k])}
      BY <2>2
    <3>2. Head(inq[k]).type \in {"LOGIN", "REGISTER"}
      BY <1>4, <2>2 DEF Request, Types
    <3> QED
      BY <3>1, <3>2 DEF TaskInv
  <2> QED
    BY <2>1, <2>2
<1> QED
  BY <1>1, <1>6, <1>7, <1>8, <1>9, SaidStays

(* The counts stay right when nothing is read, sent or answered and no     *)
(* request is taken up.                                                    *)
LEMMA SameCounts ==
  ASSUME CountInv, UNCHANGED <<out, inq, asked>>,
         pc' \notin Handling \/ UNCHANGED <<pc, clients, idx>>
  PROVE  CountInv'
  BY DEF CountInv, InHand

LEMMA LoopInv ==
  ASSUME AuthInv,
         Select \/ SelectTimeout \/ ReceiveFails \/ ReceiveNothing \/ ScanEnd \/ Accept
  PROVE  AuthInv'
<1> USE DEF AuthInv, loop, net, tables, clock
<1>1. CASE Select
  <2>1. /\ pc' = "scan" /\ pc' \notin Handling /\ task = {} /\ idx' = 1
        /\ UNCHANGED <<webAuth, user, now, stamp, clients, task, answer, link, inq, asked,
                       backlog, out>>
    BY <1>1 DEF Select, TypeOK, Handling
  <2>2. ready' \in SUBSET (1..Len(clients)) /\ avail' \in BOOLEAN
    BY <1>1 DEF Select
  <2>3. TypeOK'
    BY <2>1, <2>2 DEF TypeOK
  <2> QED
    BY <2>1, <2>3, SameCounts, QuietStep
<1>2. CASE SelectTimeout
  <2>1. UNCHANGED vars
    BY <1>2 DEF SelectTimeout
  <2>2. TypeOK' /\ CountInv'
    BY <2>1 DEF vars, clock, TypeOK, CountInv, InHand
  <2> QED
    BY <2>1, <2>2, QuietStep DEF vars, clock
<1>3. CASE ReceiveFails
  <2>1. /\ pc' = "down" /\ pc' \notin Handling
        /\ UNCHANGED <<webAuth, user, now, stamp, clients, idx, ready, avail, task, answer,
                       link, inq, asked, backlog, out>>
    BY <1>3 DEF ReceiveFails, Handling
  <2>2. TypeOK'
    BY <2>1 DEF TypeOK
  <2> QED
    BY <2>1, <2>2, SameCounts, QuietStep
<1>4. CASE ReceiveNothing
  <2>1. /\ pc = "scan" /\ pc \notin Handling
        /\ UNCHANGED <<webAuth, user, now, stamp, clients, ready, avail, pc, task, answer,
                       link, inq, asked, backlog, out>>
    BY <1>4 DEF ReceiveNothing, Handling
  <2>2. idx' \in Nat \ {0}
    BY <1>4 DEF ReceiveNothing, TypeOK
  <2>3. TypeOK'
    BY <2>1, <2>2 DEF TypeOK
  <2> QED
    BY <2>1, <2>3, SameCounts, QuietStep
<1>5. CASE ScanEnd
  <2>1. /\ pc' \in {"accept", "select"} /\ pc' \notin Handling /\ task = {}
        /\ ready' = {} /\ avail' = FALSE
        /\ UNCHANGED <<webAuth, user, now, stamp, clients, idx, task, answer, link, inq,
                       asked, backlog, out>>
    BY <1>5 DEF ScanEnd, TypeOK, Handling
  <2>2. TypeOK'
    BY <2>1 DEF TypeOK
  <2> QED
    BY <2>1, <2>2, SameCounts, QuietStep
<1>6. CASE Accept
  <2>1. /\ pc' = "select" /\ pc' \notin Handling /\ task = {} /\ backlog # <<>>
        /\ clients' = Append(clients, Head(backlog)) \/ clients' = clients
        /\ backlog' = Tail(backlog)
        /\ UNCHANGED <<webAuth, user, now, stamp, idx, ready, avail, task, answer, link, inq,
                       asked, out>>
    BY <1>6 DEF Accept, TypeOK, Handling
  <2>2. clients' \in Seq(Conns) /\ backlog' \in Seq(Conns) /\ Len(clients') >= Len(clients)
    <3>1. clients \in Seq(Conns) /\ backlog \in Seq(Conns) /\ Head(backlog) \in Conns
      BY <2>1 DEF TypeOK
    <3>2. backlog' \in Seq(Conns)
      BY <2>1, <3>1
    <3>3. CASE clients' = Append(clients, Head(backlog))
      <4>1. clients' \in Seq(Conns) /\ Len(clients') = Len(clients) + 1 /\ Len(clients) \in Nat
        BY <3>1, <3>3
      <4> QED
        BY <3>2, <4>1
    <3> QED
      BY <2>1, <3>1, <3>2, <3>3
  <2>3. ready' \in SUBSET (1..Len(clients'))
    BY <2>1, <2>2 DEF TypeOK
  <2>4. TypeOK'
    BY <2>1, <2>2, <2>3 DEF TypeOK
  <2> QED
    BY <2>1, <2>4, SameCounts, QuietStep
<1> QED
  BY <1>1, <1>2, <1>3, <1>4, <1>5, <1>6

LEMMA EnvironmentInv ==
  ASSUME AuthInv,
         Crash \/ Restart \/ Tick \/ \E k \in Conns : Connect(k) \/ Ask(k) \/ Hangup(k)
  PROVE  AuthInv'
<1> USE DEF AuthInv, loop, net, tables, clock
<1>1. CASE Crash
  <2>1. /\ pc' = "down" /\ pc' \notin Handling
        /\ UNCHANGED <<webAuth, user, now, stamp, clients, idx, ready, avail, task, answer,
                       link, inq, asked, backlog, out>>
    BY <1>1 DEF Crash, Handling
  <2>2. TypeOK'
    BY <2>1 DEF TypeOK
  <2> QED
    BY <2>1, <2>2, SameCounts, QuietStep
<1>2. CASE Restart
  <2>1. /\ pc' = "select" /\ pc' \notin Handling /\ task' = {} /\ answer' = {}
        /\ clients' = <<>> /\ idx' = 1 /\ ready' = {} /\ avail' = FALSE /\ backlog' = <<>>
        /\ stamp' \in Nat /\ UNCHANGED <<webAuth, user, now, asked, out>>
    BY <1>2 DEF Restart, Handling, tables
  <2>2. /\ link' \in [Conns -> {"idle", "up", "fin", "rst"}]
        /\ inq' \in [Conns -> Seq(Request)] /\ \A k \in Conns : inq'[k] = <<>>
    BY <1>2 DEF Restart, TypeOK
  <2>3. /\ clients' \in Seq(Conns) /\ backlog' \in Seq(Conns)
        /\ ready' \in SUBSET (1..Len(clients')) /\ avail' \in BOOLEAN
        /\ idx' \in Nat \ {0} /\ task' \in SUBSET Request /\ answer' \in SUBSET Response
    <3>1. clients' \in Seq(Conns) /\ backlog' \in Seq(Conns)
      BY <2>1
    <3>2. ready' \in SUBSET (1..Len(clients')) /\ avail' \in BOOLEAN
      BY <2>1
    <3>3. idx' \in Nat \ {0} /\ task' \in SUBSET Request /\ answer' \in SUBSET Response
      BY <2>1
    <3> QED
      BY <3>1, <3>2, <3>3
  <2>4. TypeOK'
    BY <2>1, <2>2, <2>3 DEF TypeOK
  <2>5. CountInv'
    BY <2>1, <2>2 DEF CountInv, InHand, TypeOK
  <2> QED
    BY <2>1, <2>4, <2>5, QuietStep
<1>3. CASE Tick
  <2>1. /\ now' \in 0..MaxTime
        /\ UNCHANGED <<webAuth, user, stamp, clients, idx, ready, avail, pc, task, answer,
                       link, inq, asked, backlog, out>>
    BY <1>3 DEF Tick
  <2>2. now' \in Nat
    BY <2>1
  <2>3. TypeOK'
    BY <2>1, <2>2 DEF TypeOK
  <2> QED
    BY <2>1, <2>3, SameCounts, QuietStep
<1>4. ASSUME NEW k \in Conns, Connect(k) PROVE AuthInv'
  <2>1. /\ link' = [link EXCEPT ![k] = "up"] /\ backlog' = Append(backlog, k)
        /\ UNCHANGED <<webAuth, user, now, stamp, clients, idx, ready, avail, pc, task,
                       answer, inq, asked, out>>
    BY <1>4 DEF Connect
  <2>2. link' \in [Conns -> {"idle", "up", "fin", "rst"}] /\ backlog' \in Seq(Conns)
    BY <2>1 DEF TypeOK
  <2>3. TypeOK'
    BY <2>1, <2>2 DEF TypeOK
  <2> QED
    BY <2>1, <2>3, SameCounts, QuietStep
<1>5. ASSUME NEW k \in Conns, Ask(k) PROVE AuthInv'
  <2> PICK r \in Asks :
        inq' = [inq EXCEPT ![k] = Append(@, [type |-> r.type, n |-> asked[k] + 1,
                                             email |-> r.email, pw |-> r.pw])]
    BY <1>5 DEF Ask
  <2> DEFINE q == [type |-> r.type, n |-> asked[k] + 1, email |-> r.email, pw |-> r.pw]
  <2>1. /\ asked[k] < MaxAsked /\ asked' = [asked EXCEPT ![k] = @ + 1]
        /\ UNCHANGED <<webAuth, user, now, stamp, clients, idx, ready, avail, pc, task,
                       answer, link, backlog, out>>
    BY <1>5 DEF Ask
  <2>2. q \in Request
    <3>1. r.type \in Types /\ r.email \in Emails /\ r.pw \in Passwords
      BY AuthAssumption
    <3>2. asked[k] + 1 \in Nat
      BY DEF TypeOK
    <3> QED
      BY <3>1, <3>2 DEF Request
  <2>3. inq[k] \in Seq(Request)
    BY DEF TypeOK
  <2> HIDE DEF q
  <2>4. Append(inq[k], q) \in Seq(Request) /\ Len(Append(inq[k], q)) = Len(inq[k]) + 1
    BY <2>2, <2>3
  <2>5. inq' = [inq EXCEPT ![k] = Append(inq[k], q)]
    BY DEF q
  <2>6. inq' \in [Conns -> Seq(Request)] /\ asked' \in [Conns -> Nat]
    BY <2>1, <2>4, <2>5 DEF TypeOK
  <2>7. TypeOK'
    BY <2>1, <2>6 DEF TypeOK
  <2>8. CountInv'
    <3> SUFFICES ASSUME NEW c \in Conns
                 PROVE  /\ Len(out[c]) + Len(inq'[c]) <= asked'[c]
                        /\ InHand(c) => Len(out[c]) + Len(inq'[c]) < asked'[c]
                        /\ asked'[c] <= MaxAsked
      BY <2>1 DEF CountInv, InHand
    <3>1. /\ Len(out[c]) + Len(inq[c]) <= asked[c] /\ asked[c] <= MaxAsked
          /\ InHand(c) => Len(out[c]) + Len(inq[c]) < asked[c]
      BY DEF CountInv
    <3>2. Len(out[c]) \in Nat /\ Len(inq[c]) \in Nat /\ asked[c] \in Nat
      BY CountTyped
    <3>3. CASE c = k
      <4>1. Len(inq'[c]) = Len(inq[c]) + 1 /\ asked'[c] = asked[c] + 1
        BY <2>1, <2>4, <2>5, <3>3 DEF TypeOK
      <4>2. /\ Len(out[c]) + (Len(inq[c]) + 1) <= asked[c] + 1
            /\ Len(out[c]) + Len(inq[c]) < asked[c]
                 => Len(out[c]) + (Len(inq[c]) + 1) < asked[c] + 1
        BY <3>1, <3>2, OneMore
      <4>3. asked[c] + 1 <= MaxAsked
        BY <2>1, <3>2, <3>3, AuthAssumption
      <4> QED
        BY <3>1, <4>1, <4>2, <4>3
    <3>4. CASE c # k
      <4>1. inq'[c] = inq[c] /\ asked'[c] = asked[c]
        BY <2>1, <2>5, <3>4 DEF TypeOK
      <4> QED
        BY <3>1, <4>1
    <3> QED
      BY <3>3, <3>4
  <2> QED
    BY <2>1, <2>7, <2>8, QuietStep
<1>6. ASSUME NEW k \in Conns, Hangup(k) PROVE AuthInv'
  <2>1. /\ \E s \in {"fin", "rst"} : link' = [link EXCEPT ![k] = s]
        /\ inq' = inq \/ inq' = [inq EXCEPT ![k] = <<>>]
        /\ UNCHANGED <<webAuth, user, now, stamp, clients, idx, ready, avail, pc, task,
                       answer, asked, backlog, out>>
    BY <1>6 DEF Hangup
  <2>2. link' \in [Conns -> {"idle", "up", "fin", "rst"}]
    BY <2>1 DEF TypeOK
  <2>3. inq' \in [Conns -> Seq(Request)]
    <3>1. inq \in [Conns -> Seq(Request)] /\ <<>> \in Seq(Request)
      BY DEF TypeOK
    <3> QED
      BY <2>1, <3>1
  <2>4. \A c \in Conns : inq'[c] = inq[c] \/ inq'[c] = <<>>
    BY <2>1 DEF TypeOK
  <2>5. TypeOK'
    BY <2>1, <2>2, <2>3 DEF TypeOK
  <2>6. CountInv'
    <3> SUFFICES ASSUME NEW c \in Conns
                 PROVE  /\ Len(out[c]) + Len(inq'[c]) <= asked[c]
                        /\ InHand(c) => Len(out[c]) + Len(inq'[c]) < asked[c]
                        /\ asked[c] <= MaxAsked
      BY <2>1 DEF CountInv, InHand
    <3>1. /\ Len(out[c]) + Len(inq[c]) <= asked[c] /\ asked[c] <= MaxAsked
          /\ InHand(c) => Len(out[c]) + Len(inq[c]) < asked[c]
      BY DEF CountInv
    <3>2. Len(out[c]) \in Nat /\ Len(inq[c]) \in Nat /\ asked[c] \in Nat
      BY CountTyped
    <3>3. Len(inq'[c]) \in Nat /\ Len(inq'[c]) <= Len(inq[c])
      BY <2>4, <3>2
    <3>4. /\ Len(out[c]) + Len(inq'[c]) <= asked[c]
          /\ Len(out[c]) + Len(inq[c]) < asked[c] => Len(out[c]) + Len(inq'[c]) < asked[c]
      BY <3>1, <3>2, <3>3, NoMore
    <3> QED
      BY <3>1, <3>4
  <2> QED
    BY <2>1, <2>5, <2>6, QuietStep
<1> QED
  BY <1>1, <1>2, <1>3, <1>4, <1>5, <1>6

(* What is said stays true when no account and no row of user is changed   *)
(* but for its last login.                                                 *)
Grows ==
  /\ \A e \in Emails : webAuth[e] # NoRow => webAuth'[e] = webAuth[e]
  /\ \A e \in Emails : user[e] # NoRow =>
       user'[e] # NoRow /\ user'[e].created = user[e].created

LEMMA AnsweredTyped ==
  ASSUME TypeOK, NEW a \in Sent
  PROVE  Answered(a) \in Response
<1>1. PICK k \in Conns : \E i \in 1..Len(out[k]) : a = <<k, i>>
  BY SentPlaces
<1>2. PICK i \in 1..Len(out[k]) : a = <<k, i>>
  BY <1>1
<1>3. out[k] \in Seq(Response)
  BY DEF TypeOK
<1>4. out[k][i] \in Response
  BY <1>3
<1> QED
  BY <1>2, <1>4 DEF Answered

LEMMA ResponseFields ==
  ASSUME NEW m \in Response
  PROVE  m.email \in Emails /\ m.pw \in Passwords /\ m.pw # NoRow
  BY AuthAssumption DEF Response

LEMMA SaidGrows ==
  ASSUME AuthInv, Grows, UNCHANGED out
  PROVE  LoginSound' /\ OneWinner'
<1> USE DEF AuthInv
<1>1. Sent' = Sent /\ \A a : Answered(a)' = Answered(a)
  BY DEF Sent, Answered
<1>2. \A m : Admitting(m)' = Admitting(m) /\ Welcoming(m)' = Welcoming(m)
  BY DEF Admitting, Welcoming
<1>3. \A a \in Sent : /\ Answered(a).email \in Emails
                      /\ Answered(a).pw # NoRow
  BY AnsweredTyped, ResponseFields
<1>4. LoginSound'
  <2> SUFFICES ASSUME NEW a \in Sent, Admitting(Answered(a))
               PROVE  /\ webAuth'[Answered(a).email] = Answered(a).pw
                      /\ user'[Answered(a).email] # NoRow
                      /\ user'[Answered(a).email].created = Answered(a).created
    BY <1>1, <1>2 DEF LoginSound
  <2> QED
    BY <1>3 DEF LoginSound, Grows
<1>5. OneWinner'
  <2> SUFFICES ASSUME NEW a \in Sent, NEW b \in Sent, Welcoming(Answered(a))
               PROVE  /\ webAuth'[Answered(a).email] = Answered(a).pw
                      /\ Welcoming(Answered(b)) /\ Answered(b).email = Answered(a).email => a = b
    BY <1>1, <1>2 DEF OneWinner
  <2> QED
    BY <1>3 DEF OneWinner, Grows
<1> QED
  BY <1>4, <1>5

(* A handler goes on to its next statement. *)
LEMMA GoesOn ==
  ASSUME AuthInv, NEW r \in task, pc \in Handling,
         NEW label \in Handling \ {"send"}, Goto(label),
         UNCHANGED <<tables, now, loop, net, out>>, stamp' \in Nat, TaskInv'
  PROVE  AuthInv'
<1> USE DEF AuthInv, Goto, tables, loop, net
<1>1. TypeOK'
  BY DEF TypeOK
<1>2. AnswerInv'
  BY DEF AnswerInv
<1>3. CountInv'
  BY DEF CountInv, InHand
<1> QED
  BY <1>1, <1>2, <1>3, SaidStays

(* It makes an answer. *)
LEMMA Finishes ==
  ASSUME AuthInv, NEW m \in Response, pc \in Handling, Finish(m),
         UNCHANGED <<now, stamp, clients, idx, ready, avail, link, inq, asked, backlog, out>>,
         webAuth' \in [Emails -> Passwords \cup {NoRow}],
         user' \in [Emails -> Rows \cup {NoRow}],
         Grows, Truthful(m)',
         Welcoming(m) =>
           \A a \in Sent : Welcoming(Answered(a)) => Answered(a).email # m.email
  PROVE  AuthInv'
<1> USE DEF AuthInv
<1>1. pc' = "send" /\ answer' = {m} /\ UNCHANGED task /\ pc' \in Handling
  BY DEF Finish, Handling
<1>2. TypeOK'
  BY <1>1 DEF TypeOK, Handling
<1>3. CountInv'
  BY <1>1 DEF CountInv, InHand
<1>4. TaskInv'
  BY <1>1 DEF TaskInv
<1>5. AnswerInv'
  <2> SUFFICES ASSUME Welcoming(m)
               PROVE  \A a \in Sent : Welcoming(Answered(a)) => Answered(a).email # m.email
    BY <1>1 DEF AnswerInv, Sent, Answered, Welcoming
  <2> QED
    OBVIOUS
<1> QED
  BY <1>2, <1>3, <1>4, <1>5, SaidGrows

LEMMA TaskTyped ==
  ASSUME TypeOK, NEW r \in task
  PROVE  r \in Request /\ r.email \in Emails /\ r.pw \in Passwords /\ r.pw # NoRow
  BY AuthAssumption DEF TypeOK, Request

LEMMA SameTables ==
  ASSUME TypeOK, UNCHANGED tables
  PROVE  /\ Grows
         /\ webAuth' \in [Emails -> Passwords \cup {NoRow}]
         /\ user' \in [Emails -> Rows \cup {NoRow}]
  BY DEF TypeOK, Grows, tables, clock

(* An answer that reports an error promises nothing. *)
LEMMA ErrorAnswer ==
  ASSUME TypeOK, NEW r \in task, NEW field \in {"plain", "unset"},
         NEW reason \in {"INVALID_CREDENTIALS", "ACCOUNT_ALREADY_EXISTS",
                         "INTERNAL_SERVER_ERROR"}
  PROVE  /\ Reply(r, field, reason, 0) \in Response
         /\ ~Welcoming(Reply(r, field, reason, 0))
         /\ Truthful(Reply(r, field, reason, 0))'
  BY TaskTyped, ReplyTyped DEF Welcoming, Admitting, Truthful

LEMMA FindInv == ASSUME AuthInv, Find PROVE AuthInv'
<1> USE DEF AuthInv
<1>1. UNCHANGED <<tables, still>> /\ pc = "find" /\ pc \in Handling
  BY DEF Find, Handling
<1>2. CASE Goto("down")
  <2>1. pc' = "down" /\ pc' \notin Handling /\ UNCHANGED <<task, answer>>
    BY <1>2 DEF Goto, Handling
  <2>2. TypeOK'
    BY <1>1, <2>1 DEF TypeOK, still, tables, clock, loop, net
  <2>3. CountInv'
    BY <1>1, <2>1, SameCounts DEF still, clock, net
  <2> QED
    BY <1>1, <2>1, <2>2, <2>3, QuietStep DEF still, tables, clock
<1>3. ASSUME NEW r \in task, webAuth[r.email] # NoRow, AlreadyExists(r) PROVE AuthInv'
  BY <1>1, <1>3, ErrorAnswer, SameTables, Finishes DEF AlreadyExists, still, clock, loop, net
<1>4. ASSUME NEW r \in task, webAuth[r.email] = NoRow, Goto("insert") PROVE AuthInv'
  <2>1. TaskInv'
    BY <1>1, <1>4 DEF Goto, TaskInv, tables
  <2>2. UNCHANGED <<tables, now, loop, net, out>> /\ stamp' \in Nat
    BY <1>1 DEF still, clock, TypeOK
  <2> QED
    BY <1>1, <1>4, <2>1, <2>2, GoesOn DEF Handling
<1> QED
  BY <1>2, <1>3, <1>4 DEF Find

LEMMA InsertInv == ASSUME AuthInv, Insert PROVE AuthInv'
<1> USE DEF AuthInv
<1>1. /\ pc = "insert" /\ pc \in Handling
      /\ UNCHANGED <<user, now, stamp, clients, idx, ready, avail, link, inq, asked, backlog, out>>
  BY DEF Insert, Handling, still, clock, loop, net
<1>2. PICK r \in task :
        \/ InsertRow(r) /\ Finish(Reply(r, "hash", "NONE", 0))
        \/ /\ InsertRow(r) \/ UNCHANGED webAuth
           /\ Finish(Reply(r, "unset", "INTERNAL_SERVER_ERROR", 0))
  BY DEF Insert
<1>3. r \in Request /\ r.email \in Emails /\ r.pw \in Passwords /\ r.pw # NoRow
  BY TaskTyped
<1>4. webAuth[r.email] = NoRow /\ r.type = "REGISTER"
  BY <1>1 DEF TaskInv
<1>5. /\ Grows
      /\ webAuth' \in [Emails -> Passwords \cup {NoRow}]
      /\ user' \in [Emails -> Rows \cup {NoRow}]
  <2>1. CASE InsertRow(r)
    BY <1>1, <1>3, <1>4, <2>1 DEF InsertRow, Grows, TypeOK
  <2>2. CASE UNCHANGED webAuth
    BY <1>1, <2>2, SameTables DEF tables, clock
  <2> QED
    BY <1>2, <2>1, <2>2
<1>6. CASE InsertRow(r) /\ Finish(Reply(r, "hash", "NONE", 0))
  <2> DEFINE m == Reply(r, "hash", "NONE", 0)
  <2>1. /\ m \in Response /\ m.email = r.email /\ m.pw = r.pw
        /\ m.type = "REGISTER_RESPONSE"
    BY <1>3, <1>4, ReplyTyped
  <2> HIDE DEF m
  <2>2. webAuth'[r.email] = r.pw
    BY <1>3, <1>6 DEF InsertRow, TypeOK
  <2>3. Truthful(m)'
    BY <2>1, <2>2 DEF Truthful, Admitting
  <2>4. \A a \in Sent : Welcoming(Answered(a)) => Answered(a).email # m.email
    <3> SUFFICES ASSUME NEW a \in Sent, Welcoming(Answered(a)), Answered(a).email = r.email
                 PROVE  FALSE
      BY <2>1
    <3>1. webAuth[Answered(a).email] = Answered(a).pw
      BY DEF OneWinner
    <3>2. Answered(a).pw # NoRow
      BY AnsweredTyped, ResponseFields
    <3> QED
      BY <1>4, <3>1, <3>2
  <2>5. Finish(m)
    BY <1>6 DEF m
  <2> QED
    BY <1>1, <1>5, <2>1, <2>3, <2>4, <2>5, Finishes
<1>7. CASE Finish(Reply(r, "unset", "INTERNAL_SERVER_ERROR", 0))
  BY <1>1, <1>5, <1>7, ErrorAnswer, Finishes
<1> QED
  BY <1>2, <1>6, <1>7

LEMMA RefusalInv ==
  ASSUME AuthInv, NEW r \in task, pc \in Handling, SqlError(r) \/ Rejected(r),
         UNCHANGED still, Grows,
         webAuth' \in [Emails -> Passwords \cup {NoRow}],
         user' \in [Emails -> Rows \cup {NoRow}]
  PROVE  AuthInv'
<1> USE DEF AuthInv, still, clock, loop, net
<1>1. CASE SqlError(r)
  BY <1>1, ErrorAnswer, Finishes DEF SqlError
<1>2. CASE Rejected(r)
  BY <1>2, ErrorAnswer, Finishes DEF Rejected
<1> QED
  BY <1>1, <1>2

LEMMA LoginReadsInv == ASSUME AuthInv, Lookup \/ Check \/ Record PROVE AuthInv'
<1> USE DEF AuthInv
<1>1. /\ UNCHANGED <<tables, now, loop, net, out>>
      /\ pc \in Handling /\ pc \in {"lookup", "check", "record"}
  BY DEF Lookup, Check, Record, Handling, still, clock
<1>2. ASSUME NEW r \in task, SqlError(r) \/ Rejected(r), UNCHANGED stamp PROVE AuthInv'
  BY <1>1, <1>2, RefusalInv, SameTables DEF still, clock
<1>3. stamp \in Nat /\ now \in Nat
  BY DEF TypeOK
<1>4. ASSUME NEW r \in task, NEW label \in {"check", "record", "enter", "touch"}, Goto(label),
             \/ pc = "lookup" /\ label = "check"
             \/ pc = "check" /\ label = "record" /\ Matches(r)
             \/ pc = "record" /\ label = "enter" /\ user[r.email] = NoRow
             \/ pc = "record" /\ label = "touch" /\ user[r.email] # NoRow,
             stamp' \in {stamp, now}
      PROVE  AuthInv'
  <2>1. TaskInv'
    BY <1>1, <1>4 DEF Goto, TaskInv, Matches, tables
  <2> QED
    BY <1>1, <1>3, <1>4, <2>1, GoesOn DEF Handling
<1>5. CASE Lookup
  BY <1>2, <1>4, <1>5 DEF Lookup, still, clock
<1>6. CASE Check
  BY <1>2, <1>4, <1>6 DEF Check
<1>7. CASE Record
  BY <1>2, <1>4, <1>7 DEF Record, still, clock
<1> QED
  BY <1>5, <1>6, <1>7

LEMMA TouchInv == ASSUME AuthInv, Touch PROVE AuthInv'
<1> USE DEF AuthInv
<1>1. /\ pc = "touch" /\ pc \in Handling
      /\ UNCHANGED <<webAuth, now, stamp, clients, idx, ready, avail, link, inq, asked,
                     backlog, out>>
  BY DEF Touch, Handling, still, clock, loop, net
<1>2. PICK r \in task :
        \/ TouchRow(r) /\ Finish(Reply(r, "plain", "NONE", user[r.email].created))
        \/ (TouchRow(r) \/ UNCHANGED user) /\ SqlError(r)
  BY DEF Touch
<1>3. r \in Request /\ r.email \in Emails /\ r.pw \in Passwords /\ r.pw # NoRow
  BY TaskTyped
<1>4. /\ webAuth[r.email] = r.pw /\ r.type = "LOGIN" /\ user[r.email] \in Rows
      /\ user[r.email] # NoRow
  BY <1>1, <1>3 DEF TaskInv, TypeOK
<1>5. /\ Grows
      /\ webAuth' \in [Emails -> Passwords \cup {NoRow}]
      /\ user' \in [Emails -> Rows \cup {NoRow}]
  <2>1. CASE TouchRow(r)
    <3> DEFINE row == [user[r.email] EXCEPT !.last = stamp]
    <3>1. row \in Rows /\ row.created = user[r.email].created
      BY <1>4 DEF Rows, TypeOK
    <3>2. user' = [user EXCEPT ![r.email] = row]
      BY <2>1 DEF TouchRow
    <3> HIDE DEF row
    <3>3. row # NoRow
      BY <3>1, AuthAssumption
    <3>4. user' \in [Emails -> Rows \cup {NoRow}]
      BY <3>1, <3>2 DEF TypeOK
    <3>5. \A e \in Emails : user[e] # NoRow =>
            user'[e] # NoRow /\ user'[e].created = user[e].created
      BY <3>1, <3>2, <3>3 DEF TypeOK
    <3> QED
      BY <1>1, <3>4, <3>5 DEF Grows, TypeOK
  <2>2. CASE UNCHANGED user
    BY <1>1, <2>2, SameTables DEF tables, clock
  <2> QED
    BY <1>2, <2>1, <2>2
<1>6. CASE TouchRow(r) /\ Finish(Reply(r, "plain", "NONE", user[r.email].created))
  <2> PICK m : m = Reply(r, "plain", "NONE", user[r.email].created)
    OBVIOUS
  <2>1. user[r.email].created \in Nat
    BY <1>4 DEF Rows
  <2>2. /\ m \in Response /\ m.email = r.email /\ m.pw = r.pw /\ m.type = "LOGIN_RESPONSE"
        /\ m.created = user[r.email].created
    BY <1>3, <1>4, <2>1, ReplyTyped
  <2>3. Truthful(m)'
    BY <1>1, <1>3, <1>4, <1>5, <2>2 DEF Truthful, Welcoming, Grows
  <2>4. ~Welcoming(m)
    BY <2>2 DEF Welcoming
  <2>5. Finish(m)
    BY <1>6
  <2> QED
    BY <1>1, <1>5, <2>2, <2>3, <2>4, <2>5, Finishes
<1>7. CASE SqlError(r)
  BY <1>1, <1>5, <1>7, RefusalInv DEF still, clock, loop, net
<1> QED
  BY <1>2, <1>6, <1>7

LEMMA EnterInv == ASSUME AuthInv, Enter PROVE AuthInv'
<1> USE DEF AuthInv
<1>1. /\ pc = "enter" /\ pc \in Handling
      /\ UNCHANGED <<webAuth, now, stamp, clients, idx, ready, avail, link, inq, asked,
                     backlog, out>>
  BY DEF Enter, Handling, still, clock, loop, net
<1>2. PICK r \in task :
        \/ EnterRow(r) /\ Finish(Reply(r, "plain", "NONE", stamp))
        \/ (EnterRow(r) \/ UNCHANGED user) /\ SqlError(r)
  BY DEF Enter
<1>3. r \in Request /\ r.email \in Emails /\ r.pw \in Passwords /\ r.pw # NoRow
  BY TaskTyped
<1>4. webAuth[r.email] = r.pw /\ r.type = "LOGIN" /\ user[r.email] = NoRow /\ stamp \in Nat
  BY <1>1, <1>3 DEF TaskInv, TypeOK
<1> DEFINE row == [created |-> stamp, last |-> stamp]
<1>5. row \in Rows /\ row.created = stamp /\ row # NoRow
  BY <1>4, AuthAssumption DEF Rows
<1>6. EnterRow(r) => user' = [user EXCEPT ![r.email] = row]
  BY DEF EnterRow
<1> HIDE DEF row
<1>7. /\ Grows
      /\ webAuth' \in [Emails -> Passwords \cup {NoRow}]
      /\ user' \in [Emails -> Rows \cup {NoRow}]
  <2>1. CASE EnterRow(r)
    BY <1>1, <1>3, <1>4, <1>5, <1>6, <2>1 DEF Grows, TypeOK
  <2>2. CASE UNCHANGED user
    BY <1>1, <2>2, SameTables DEF tables, clock
  <2> QED
    BY <1>2, <2>1, <2>2
<1>8. CASE EnterRow(r) /\ Finish(Reply(r, "plain", "NONE", stamp))
  <2> PICK m : m = Reply(r, "plain", "NONE", stamp)
    OBVIOUS
  <2>1. /\ m \in Response /\ m.email = r.email /\ m.pw = r.pw /\ m.type = "LOGIN_RESPONSE"
        /\ m.created = stamp
    BY <1>3, <1>4, ReplyTyped
  <2>2. user'[r.email] = row
    BY <1>3, <1>6, <1>8 DEF TypeOK
  <2>3. Truthful(m)'
    BY <1>1, <1>3, <1>4, <1>5, <2>1, <2>2 DEF Truthful, Welcoming
  <2>4. ~Welcoming(m)
    BY <2>1 DEF Welcoming
  <2>5. Finish(m)
    BY <1>8
  <2> QED
    BY <1>1, <1>7, <2>1, <2>3, <2>4, <2>5, Finishes
<1>9. CASE SqlError(r)
  BY <1>1, <1>7, <1>9, RefusalInv DEF still, clock, loop, net
<1> QED
  BY <1>2, <1>8, <1>9

(* One more answer on connection k. *)
LEMMA OneAnswerMore ==
  ASSUME TypeOK, NEW k \in Conns, NEW m \in Response,
         out' = [out EXCEPT ![k] = Append(@, m)]
  PROVE  /\ out' \in [Conns -> Seq(Response)]
         /\ \A c \in Conns : Len(out'[c]) = IF c = k THEN Len(out[c]) + 1 ELSE Len(out[c])
         /\ Sent' = Sent \cup {<<k, Len(out[k]) + 1>>} /\ <<k, Len(out[k]) + 1>> \notin Sent
         /\ \A a \in Sent : Answered(a)' = Answered(a)
         /\ out'[k][Len(out[k]) + 1] = m
<1> DEFINE more == Append(out[k], m)
           new == <<k, Len(out[k]) + 1>>
<1>1. out \in [Conns -> Seq(Response)] /\ out[k] \in Seq(Response) /\ Len(out[k]) \in Nat
  BY DEF TypeOK
<1>2. /\ more \in Seq(Response) /\ Len(more) = Len(out[k]) + 1
      /\ \A i \in 1..Len(out[k]) : more[i] = out[k][i]
      /\ more[Len(out[k]) + 1] = m
  BY <1>1
<1>3. out' = [out EXCEPT ![k] = more]
  OBVIOUS
<1> HIDE DEF more
<1>4. /\ out' \in [Conns -> Seq(Response)]
      /\ \A c \in Conns : Len(out'[c]) = IF c = k THEN Len(out[c]) + 1 ELSE Len(out[c])
      /\ out'[k] = more /\ \A c \in Conns : c # k => out'[c] = out[c]
  BY <1>1, <1>2, <1>3
<1>5. \A c \in Conns : Len(out[c]) \in Nat
  BY DEF TypeOK
<1>6. new \notin Sent
  BY <1>1 DEF Sent
<1>7. Sent' = Sent \cup {new}
  <2>1. ASSUME NEW a \in Sent' PROVE a \in Sent \cup {new}
    <3>1. PICK c \in Conns : \E i \in 1..Len(out'[c]) : a = <<c, i>>
      BY DEF Sent
    <3>2. PICK i \in 1..Len(out'[c]) : a = <<c, i>>
      BY <3>1
    <3>3. CASE c = k /\ i = Len(out[k]) + 1
      BY <3>2, <3>3
    <3>4. CASE ~(c = k /\ i = Len(out[k]) + 1)
      <4>1. i \in 1..Len(out[c])
        BY <1>4, <1>5, <3>4
      <4> QED
        BY <3>2, <4>1, SentPlaces
    <3> QED
      BY <3>3, <3>4
  <2>2. ASSUME NEW a \in Sent \cup {new} PROVE a \in Sent'
    <3>1. \E c \in Conns : \E i \in 1..Len(out'[c]) : a = <<c, i>>
      <4>1. CASE a = new
        BY <1>1, <1>4, <4>1
      <4>2. CASE a \in Sent
        <5>1. PICK c \in Conns : \E i \in 1..Len(out[c]) : a = <<c, i>>
          BY <4>2, SentPlaces
        <5>2. PICK i \in 1..Len(out[c]) : a = <<c, i>>
          BY <5>1
        <5>3. i \in 1..Len(out'[c])
          BY <1>4, <1>5
        <5> QED
          BY <5>2, <5>3
      <4> QED
        BY <4>1, <4>2
    <3> QED
      BY <3>1 DEF Sent
  <2> QED
    BY <2>1, <2>2
<1>8. \A a \in Sent : Answered(a)' = Answered(a)
  <2> SUFFICES ASSUME NEW a \in Sent PROVE Answered(a)' = Answered(a)
    OBVIOUS
  <2>1. PICK c \in Conns : \E i \in 1..Len(out[c]) : a = <<c, i>>
    BY SentPlaces
  <2>2. PICK i \in 1..Len(out[c]) : a = <<c, i>>
    BY <2>1
  <2>3. out'[c][i] = out[c][i]
    BY <1>2, <1>4
  <2> QED
    BY <2>2, <2>3 DEF Answered
<1>9. out'[k][Len(out[k]) + 1] = m
  BY <1>2, <1>4
<1> QED
  BY <1>4, <1>6, <1>7, <1>8, <1>9

LEMMA SendInv == ASSUME AuthInv, Send PROVE AuthInv'
<1> USE DEF AuthInv, net
<1>1. /\ pc = "send" /\ pc \in Handling /\ pc' = "scan" /\ pc' \notin Handling
      /\ task' = {} /\ answer' = {} /\ idx' = idx + 1 /\ stamp' \in Nat
      /\ UNCHANGED <<webAuth, user, now, clients, ready, avail, link, inq, asked, backlog>>
  BY DEF Send, Handling, tables, clock
<1> DEFINE k == clients[idx]
<1>2. idx \in 1..Len(clients) /\ k \in Conns /\ idx' \in Nat \ {0}
  BY <1>1 DEF TypeOK
<1>3. PICK m \in answer : out' = IF link[k] = "rst" THEN out ELSE [out EXCEPT ![k] = Append(@, m)]
  BY DEF Send
<1>4. CASE link[k] = "rst"
  <2>1. out' = out
    BY <1>3, <1>4
  <2>2. TypeOK'
    BY <1>1, <1>2, <2>1 DEF TypeOK
  <2> QED
    BY <1>1, <2>1, <2>2, SameCounts, QuietStep
<1>5. CASE link[k] # "rst"
  <2> DEFINE new == <<k, Len(out[k]) + 1>>
  <2>1. out' = [out EXCEPT ![k] = Append(@, m)] /\ m \in Response
    BY <1>3, <1>5 DEF TypeOK
  <2>2. PICK c : c = k
    OBVIOUS
  <2>3. /\ out' \in [Conns -> Seq(Response)]
        /\ \A d \in Conns : Len(out'[d]) = IF d = c THEN Len(out[d]) + 1 ELSE Len(out[d])
    BY <1>2, <2>1, <2>2, OneAnswerMore
  <2>4. PICK p : p = <<c, Len(out[c]) + 1>>
    OBVIOUS
  <2>5. /\ Sent' = Sent \cup {p} /\ p \notin Sent
        /\ \A a \in Sent : Answered(a)' = Answered(a)
    BY <1>2, <2>1, <2>2, <2>4, OneAnswerMore
  <2>6. Answered(p)' = m
    <3>1. out'[c][Len(out[c]) + 1] = m
      BY <1>2, <2>1, <2>2, OneAnswerMore
    <3> QED
      BY <2>4, <3>1 DEF Answered
  <2>7. /\ Truthful(m)
        /\ Welcoming(m) => \A a \in Sent : Welcoming(Answered(a)) => Answered(a).email # m.email
    BY <1>1, <1>3 DEF AnswerInv
  <2>8. TypeOK'
    BY <1>1, <1>2, <2>3 DEF TypeOK
  <2>9. CountInv'
    <3> SUFFICES ASSUME NEW d \in Conns
                 PROVE  Len(out'[d]) + Len(inq[d]) <= asked[d] /\ asked[d] <= MaxAsked
      BY <1>1 DEF CountInv, InHand
    <3>1. /\ Len(out[d]) + Len(inq[d]) <= asked[d] /\ asked[d] <= MaxAsked
          /\ d = c => Len(out[d]) + Len(inq[d]) < asked[d]
      BY <1>1, <2>2 DEF CountInv, InHand
    <3>2. Len(out[d]) \in Nat /\ Len(inq[d]) \in Nat /\ asked[d] \in Nat
      BY CountTyped
    <3>3. CASE d = c
      BY <2>3, <3>1, <3>2, <3>3, Successor
    <3>4. CASE d # c
      BY <2>3, <3>1, <3>4
    <3> QED
      BY <3>3, <3>4
  <2>10. \A a : Admitting(a)' = Admitting(a) /\ Welcoming(a)' = Welcoming(a)
    BY DEF Admitting, Welcoming
  <2>11. LoginSound'
    <3> SUFFICES ASSUME NEW a \in Sent', Admitting(Answered(a)')
                 PROVE  /\ webAuth[Answered(a)'.email] = Answered(a)'.pw
                        /\ user[Answered(a)'.email] # NoRow
                        /\ user[Answered(a)'.email].created = Answered(a)'.created
      BY <1>1, <2>10 DEF LoginSound
    <3>1. CASE a = p
      BY <2>6, <2>7, <3>1 DEF Truthful
    <3>2. CASE a \in Sent
      BY <2>5, <3>2 DEF LoginSound
    <3> QED
      BY <2>5, <3>1, <3>2
  <2>12. OneWinner'
    <3> SUFFICES ASSUME NEW a \in Sent', NEW b \in Sent', Welcoming(Answered(a)')
                 PROVE  /\ webAuth[Answered(a)'.email] = Answered(a)'.pw
                        /\ Welcoming(Answered(b)') /\ Answered(b)'.email = Answered(a)'.email
                             => a = b
      BY <1>1, <2>10 DEF OneWinner
    <3>1. CASE a = p /\ b = p
      BY <2>6, <2>7, <3>1 DEF Truthful
    <3>2. CASE a = p /\ b \in Sent
      BY <2>5, <2>6, <2>7, <3>2 DEF Truthful
    <3>3. CASE a \in Sent /\ b = p
      BY <2>5, <2>6, <2>7, <3>3 DEF OneWinner
    <3>4. CASE a \in Sent /\ b \in Sent
      BY <2>5, <3>4 DEF OneWinner
    <3> QED
      BY <2>5, <3>1, <3>2, <3>3, <3>4
  <2>13. TaskInv' /\ AnswerInv'
    BY <1>1 DEF TaskInv, AnswerInv
  <2> QED
    BY <2>8, <2>9, <2>11, <2>12, <2>13
<1> QED
  BY <1>4, <1>5

(* Every step keeps the invariant. *)
LEMMA NextInv == ASSUME AuthInv, [Next]_vars PROVE AuthInv'
<1>1. CASE Server
  BY <1>1, LoopInv, ReceiveInv, FindInv, InsertInv, LoginReadsInv, TouchInv, EnterInv, SendInv
     DEF Server, Handler
<1>2. CASE Crash \/ Restart \/ Tick \/ \E k \in Conns : Connect(k) \/ Ask(k) \/ Hangup(k)
  BY <1>2, EnvironmentInv
<1>3. CASE UNCHANGED vars
  <2>1. TypeOK' /\ CountInv'
    BY <1>3 DEF AuthInv, vars, tables, clock, loop, net, TypeOK, CountInv, InHand
  <2> QED
    BY <1>3, <2>1, QuietStep DEF vars, tables, clock, net
<1> QED
  BY <1>1, <1>2, <1>3 DEF Next

THEOREM AuthServerInvariant == Spec => []AuthInv
<1>1. Init => AuthInv
  BY InitInv
<1>2. AuthInv /\ [Next]_vars => AuthInv'
  BY NextInv
<1> QED
  BY <1>1, <1>2, PTL DEF Spec

(* Types; a request is at hand exactly while it is handled, and it came    *)
(* from the connection the scan stands at (RunSocket).                     *)
THEOREM Typed == Spec => []TypeOK
<1>1. AuthInv => TypeOK
  BY DEF AuthInv
<1> QED
  BY <1>1, AuthServerInvariant, PTL

(* A login is reported successful only with the password the account was   *)
(* registered with and once it is recorded (Authenticate, RecordLogin).    *)
THEOREM LoginsAreSound == Spec => []LoginSound
<1>1. AuthInv => LoginSound
  BY DEF AuthInv
<1> QED
  BY <1>1, AuthServerInvariant, PTL

(* At most one registration of an email is ever reported successful        *)
(* (CreateAccount).                                                        *)
THEOREM OneRegistrationWins == Spec => []OneWinner
<1>1. AuthInv => OneWinner
  BY DEF AuthInv
<1> QED
  BY <1>1, AuthServerInvariant, PTL
-----------------------------------------------------------------------------
(* The server implements the book of accounts: a step of the server is one *)
(* of the book, or none.                                                   *)

Members == {e \in Emails : user[e] # NoRow}
Welcomed == {<<Answered(a).email, a>> : a \in {b \in Sent : Welcoming(Answered(b))}}
Admitted == {<<Answered(a).email, Answered(a).pw>> :
               a \in {b \in Sent : Admitting(Answered(b))}}

LEMMA BookVars ==
  Book!vars = <<webAuth, Members, Welcomed, Admitted>>
BY DEF Book!vars, Members, Welcomed, Admitted

LEMMA BookStutters ==
  ASSUME UNCHANGED <<webAuth, user, out>>
  PROVE  UNCHANGED Book!vars
<1>1. Members' = Members
  BY DEF Members
<1>2. Sent' = Sent /\ \A a : Answered(a)' = Answered(a)
  BY DEF Sent, Answered
<1>3. Welcomed' = Welcomed /\ Admitted' = Admitted
  BY <1>2 DEF Welcomed, Admitted, Welcoming, Admitting
<1> QED
  BY <1>1, <1>3, BookVars DEF Book!vars, Members, Welcomed, Admitted

(* What is entered into a table. *)
LEMMA BookInsert ==
  ASSUME AuthInv, Insert
  PROVE  [Book!Next]_(Book!vars)
<1> USE DEF AuthInv
<1>1. pc = "insert" /\ UNCHANGED <<user, out>>
  BY DEF Insert, still, clock
<1>2. PICK r \in task : InsertRow(r) \/ UNCHANGED webAuth
  BY DEF Insert
<1>3. r.email \in Emails /\ r.pw \in Passwords
  BY TaskTyped
<1>4. CASE InsertRow(r)
  <2>1. Members' = Members
    BY <1>1 DEF Members
  <2>2. Sent' = Sent /\ \A a : Answered(a)' = Answered(a)
    BY <1>1 DEF Sent, Answered
  <2>3. Welcomed' = Welcomed /\ Admitted' = Admitted
    BY <2>2 DEF Welcomed, Admitted, Welcoming, Admitting
  <2>4. Book!Open(r.email, r.pw)
    BY <1>3, <1>4, <2>1, <2>3 DEF InsertRow, Book!Open, Members, Welcomed, Admitted
  <2> QED
    BY <1>3, <2>4 DEF Book!Next
<1>5. CASE UNCHANGED webAuth
  BY <1>1, <1>5, BookStutters
<1> QED
  BY <1>2, <1>4, <1>5

LEMMA BookTouch ==
  ASSUME AuthInv, Touch
  PROVE  UNCHANGED Book!vars
<1> USE DEF AuthInv
<1>1. pc = "touch" /\ UNCHANGED <<webAuth, out>>
  BY DEF Touch, still, clock
<1>2. PICK r \in task : TouchRow(r) \/ UNCHANGED user
  BY DEF Touch
<1>3. CASE TouchRow(r)
  <2>1. r.email \in Emails /\ user[r.email] \in Rows /\ user[r.email] # NoRow
    BY <1>1, TaskTyped DEF TaskInv, TypeOK
  <2> DEFINE row == [user[r.email] EXCEPT !.last = stamp]
  <2>2. row \in Rows
    BY <2>1 DEF Rows, TypeOK
  <2>3. user' = [user EXCEPT ![r.email] = row]
    BY <1>3 DEF TouchRow
  <2> HIDE DEF row
  <2>4. row # NoRow
    BY <2>2, AuthAssumption
  <2>5. Members' = Members
    BY <2>1, <2>3, <2>4 DEF Members, TypeOK
  <2>6. Sent' = Sent /\ \A a : Answered(a)' = Answered(a)
    BY <1>1 DEF Sent, Answered
  <2>7. Welcomed' = Welcomed /\ Admitted' = Admitted
    BY <2>6 DEF Welcomed, Admitted, Welcoming, Admitting
  <2> QED
    BY <1>1, <2>5, <2>7 DEF Book!vars, Members, Welcomed, Admitted
<1>4. CASE UNCHANGED user
  BY <1>1, <1>4, BookStutters
<1> QED
  BY <1>2, <1>3, <1>4

LEMMA BookEnter ==
  ASSUME AuthInv, Enter
  PROVE  [Book!Next]_(Book!vars)
<1> USE DEF AuthInv
<1>1. pc = "enter" /\ UNCHANGED <<webAuth, out>>
  BY DEF Enter, still, clock
<1>2. PICK r \in task : EnterRow(r) \/ UNCHANGED user
  BY DEF Enter
<1>3. r.email \in Emails /\ webAuth[r.email] # NoRow
  BY <1>1, TaskTyped DEF TaskInv
<1>4. CASE EnterRow(r)
  <2> DEFINE row == [created |-> stamp, last |-> stamp]
  <2>1. user' = [user EXCEPT ![r.email] = row]
    BY <1>4 DEF EnterRow
  <2>2. row # NoRow
    BY AuthAssumption DEF Rows, TypeOK
  <2> HIDE DEF row
  <2>3. Members' = Members \cup {r.email}
    BY <1>3, <2>1, <2>2 DEF Members, TypeOK
  <2>4. Sent' = Sent /\ \A a : Answered(a)' = Answered(a)
    BY <1>1 DEF Sent, Answered
  <2>5. Welcomed' = Welcomed /\ Admitted' = Admitted
    BY <2>4 DEF Welcomed, Admitted, Welcoming, Admitting
  <2>6. Book!Enrol(r.email)
    BY <1>1, <1>3, <2>3, <2>5 DEF Book!Enrol, Members, Welcomed, Admitted
  <2> QED
    BY <1>3, <2>6 DEF Book!Next
<1>5. CASE UNCHANGED user
  BY <1>1, <1>5, BookStutters
<1> QED
  BY <1>2, <1>4, <1>5

(* What is told to a client. *)
LEMMA BookSend ==
  ASSUME AuthInv, Send
  PROVE  [Book!Next]_(Book!vars)
<1> USE DEF AuthInv
<1>1. /\ pc = "send" /\ pc \in Handling /\ idx \in 1..Len(clients)
      /\ UNCHANGED <<webAuth, user>>
  BY DEF Send, tables, clock, TypeOK, Handling
<1>2. PICK c : c = clients[idx]
  OBVIOUS
<1>3. c \in Conns
  BY <1>1, <1>2 DEF TypeOK
<1>4. PICK m \in answer : out' = IF link[c] = "rst" THEN out ELSE [out EXCEPT ![c] = Append(@, m)]
  BY <1>2 DEF Send
<1>5. CASE link[c] = "rst"
  BY <1>1, <1>4, <1>5, BookStutters
<1>6. CASE link[c] # "rst"
  <2>1. out' = [out EXCEPT ![c] = Append(@, m)]
    BY <1>4, <1>6
  <2>2. m \in Response /\ m.email \in Emails /\ m.pw # NoRow
    BY ResponseFields DEF TypeOK
  <2>3. PICK p : p = <<c, Len(out[c]) + 1>>
    OBVIOUS
  <2>4. /\ Sent' = Sent \cup {p} /\ p \notin Sent
        /\ \A a \in Sent : Answered(a)' = Answered(a)
        /\ out'[c][Len(out[c]) + 1] = m
    BY <1>3, <2>1, <2>2, <2>3, OneAnswerMore
  <2>5. Answered(p)' = m
    BY <2>3, <2>4 DEF Answered
  <2>6. p \in Conns \X (1..MaxAsked)
    <3>1. /\ Len(out[c]) \in Nat /\ Len(inq[c]) \in Nat /\ asked[c] \in Nat
          /\ Len(out[c]) + Len(inq[c]) < asked[c] /\ asked[c] <= MaxAsked
      BY <1>1, <1>2, <1>3 DEF TypeOK, CountInv, InHand
    <3>2. Len(out[c]) + 1 \in 1..MaxAsked
      BY <3>1, AuthAssumption, Position
    <3> QED
      BY <1>3, <2>3, <3>2
  <2>7. /\ Truthful(m)
        /\ Welcoming(m) => \A a \in Sent : Welcoming(Answered(a)) => Answered(a).email # m.email
    BY <1>1 DEF AnswerInv
  <2>8. Members' = Members
    BY <1>1 DEF Members
  <2>9. \A a : Admitting(a)' = Admitting(a) /\ Welcoming(a)' = Welcoming(a)
    BY DEF Admitting, Welcoming
  <2>10. Welcomed' = IF Welcoming(m) THEN Welcomed \cup {<<m.email, p>>} ELSE Welcomed
    BY <2>4, <2>5, <2>9 DEF Welcomed
  <2>11. Admitted' = IF Admitting(m) THEN Admitted \cup {<<m.email, m.pw>>} ELSE Admitted
    BY <2>4, <2>5, <2>9 DEF Admitted
  <2>12. CASE Welcoming(m)
    <3>1. ~Admitting(m)
      BY <2>12 DEF Welcoming, Admitting
    <3>2. webAuth[m.email] # NoRow
      BY <2>2, <2>7, <2>12 DEF Truthful
    <3>3. \A w \in Welcomed : w[1] # m.email
      BY <2>7, <2>12 DEF Welcomed
    <3>4. Book!Welcome(m.email, p)
      BY <1>1, <2>8, <2>10, <2>11, <2>12, <3>1, <3>2, <3>3
         DEF Book!Welcome, Members, Welcomed, Admitted
    <3> QED
      BY <2>2, <2>6, <3>4 DEF Book!Next
  <2>13. CASE Admitting(m)
    <3>1. ~Welcoming(m)
      BY <2>13 DEF Welcoming, Admitting
    <3>2. webAuth[m.email] = m.pw /\ webAuth[m.email] # NoRow /\ m.email \in Members
      BY <2>2, <2>7, <2>13 DEF Truthful, Members
    <3>3. Book!Admit(m.email)
      BY <1>1, <2>8, <2>10, <2>11, <2>13, <3>1, <3>2
         DEF Book!Admit, Members, Welcomed, Admitted
    <3> QED
      BY <2>2, <3>3 DEF Book!Next
  <2>14. CASE ~Welcoming(m) /\ ~Admitting(m)
    BY <1>1, <2>8, <2>10, <2>11, <2>14 DEF Book!vars, Members, Welcomed, Admitted
  <2> QED
    BY <2>12, <2>13, <2>14
<1> QED
  BY <1>5, <1>6

LEMMA BookNext ==
  ASSUME AuthInv, [Next]_vars
  PROVE  [Book!Next]_(Book!vars)
<1>1. CASE Insert
  BY <1>1, BookInsert
<1>2. CASE Touch
  BY <1>2, BookTouch
<1>3. CASE Enter
  BY <1>3, BookEnter
<1>4. CASE Send
  BY <1>4, BookSend
<1>5. CASE \/ Select \/ SelectTimeout \/ ReceiveFails \/ ReceiveNothing \/ Receive \/ ScanEnd
           \/ Accept
  <2>1. UNCHANGED <<webAuth, user, out>>
    BY <1>5 DEF Select, SelectTimeout, ReceiveFails, ReceiveNothing, Receive, ScanEnd, Accept,
                tables, clock, vars
  <2> QED
    BY <2>1, BookStutters
<1>6. CASE Find \/ Lookup \/ Check \/ Record
  <2>1. UNCHANGED <<webAuth, user, out>>
    BY <1>6 DEF Find, Lookup, Check, Record, tables, clock, still
  <2> QED
    BY <2>1, BookStutters
<1>7. CASE Crash \/ Restart \/ Tick \/ \E k \in Conns : Connect(k) \/ Ask(k) \/ Hangup(k)
  <2>1. UNCHANGED <<webAuth, user, out>>
    BY <1>7 DEF Crash, Restart, Tick, Connect, Ask, Hangup, tables, clock
  <2> QED
    BY <2>1, BookStutters
<1>8. CASE UNCHANGED vars
  BY <1>8, BookStutters DEF vars, tables, clock
<1> QED
  BY <1>1, <1>2, <1>3, <1>4, <1>5, <1>6, <1>7, <1>8 DEF Next, Server, Handler

LEMMA BookInit == Init => Book!Init
<1> SUFFICES ASSUME Init PROVE Book!Init
  OBVIOUS
<1>1. Sent = {} /\ Members = {} /\ webAuth = [e \in Emails |-> NoRow]
  BY DEF Init, Sent, Members
<1>2. Welcomed = {} /\ Admitted = {}
  BY <1>1 DEF Welcomed, Admitted
<1> QED
  BY <1>1, <1>2 DEF Book!Init, Members, Welcomed, Admitted

(* Whatever statements fail and however often it is killed, the server     *)
(* behaves as the book of accounts does (Authenticate, CreateAccount).     *)
THEOREM ServerImplementsBook == Spec => ImplementsBook
<1>1. AuthInv /\ [Next]_vars => [Book!Next]_(Book!vars)
  BY BookNext
<1>2. Spec => Book!Init /\ [][Book!Next]_(Book!vars)
  BY <1>1, BookInit, AuthServerInvariant, PTL DEF Spec
<1> QED
  BY <1>2 DEF ImplementsBook, Book!Spec
-----------------------------------------------------------------------------
(* The rows of user and the order of the answers.                          *)

(* No step touches a recorded login but for the date of the last one. *)
Kept ==
  \A e \in Emails : user[e] # NoRow =>
    /\ webAuth[e] # NoRow /\ webAuth'[e] = webAuth[e]
    /\ user'[e] # NoRow /\ user'[e].created = user[e].created
(* Who is in user is in web_auth. *)
MemberInv == \A e \in Emails : user[e] # NoRow => webAuth[e] # NoRow

LEMMA RowsTyped ==
  ASSUME TypeOK
  PROVE  /\ stamp \in Nat
         /\ webAuth \in [Emails -> Passwords \cup {NoRow}] /\ user \in [Emails -> Rows \cup {NoRow}]
         /\ \A e \in Emails : user[e] # NoRow => user[e] \in Rows
  BY DEF TypeOK

LEMMA TablesStill ==
  ASSUME MemberInv, UNCHANGED tables
  PROVE  MemberInv' /\ Kept
  BY DEF MemberInv, Kept, tables

(* The new account is of an email that was in neither table. *)
LEMMA InsertKeeps ==
  ASSUME AuthInv, MemberInv, NEW r \in task, InsertRow(r), UNCHANGED user
  PROVE  MemberInv' /\ Kept
<1>1. TypeOK /\ r.email \in Emails /\ r.pw \in Passwords /\ r.pw # NoRow
  BY AuthAssumption DEF AuthInv, TypeOK, Request
<1>2. /\ webAuth[r.email] = NoRow /\ user[r.email] = NoRow
      /\ webAuth' = [webAuth EXCEPT ![r.email] = r.pw]
  BY <1>1 DEF InsertRow, MemberInv
<1> QED
  BY <1>1, <1>2, RowsTyped DEF MemberInv, Kept

(* An UPDATE rewrites the date of the last login of a row there is. *)
LEMMA TouchKeeps ==
  ASSUME AuthInv, MemberInv, NEW r \in task, pc = "touch", TouchRow(r), UNCHANGED webAuth
  PROVE  MemberInv' /\ Kept
<1>1. TypeOK /\ r.email \in Emails /\ user[r.email] # NoRow
  BY DEF AuthInv, TypeOK, Request, TaskInv
<1>2. user' = [user EXCEPT ![r.email].last = stamp]
  BY DEF TouchRow
<1>3. ASSUME NEW e \in Emails, user[e] # NoRow
      PROVE  user'[e] # NoRow /\ user'[e].created = user[e].created
  <2>1. user[e] \in Rows
    BY <1>1, <1>3, RowsTyped
  <2>2. CASE e = r.email
    <3>1. /\ user'[e].created = user[e].created /\ user'[e] = [user[e] EXCEPT !.last = stamp]
      BY <1>1, <1>2, <2>1, <2>2, RowsTyped DEF Rows
    <3>2. user'[e] \in Rows
      BY <1>1, <2>1, <3>1, RowsTyped DEF Rows
    <3> QED
      BY <3>1, <3>2, AuthAssumption
  <2>3. CASE e # r.email
    BY <1>1, <1>2, <1>3, <2>3, RowsTyped
  <2> QED
    BY <2>2, <2>3
<1>4. ASSUME NEW e \in Emails, user'[e] # NoRow PROVE webAuth'[e] # NoRow
  BY <1>1, <1>2, <1>4, RowsTyped DEF MemberInv
<1> QED
  BY <1>3, <1>4 DEF MemberInv, Kept

(* An INSERT makes a row of an email that had none but has an account. *)
LEMMA EnterKeeps ==
  ASSUME AuthInv, MemberInv, NEW r \in task, pc = "enter", EnterRow(r), UNCHANGED webAuth
  PROVE  MemberInv' /\ Kept
<1>1. TypeOK /\ r.email \in Emails /\ r.pw # NoRow
  BY TaskTyped DEF AuthInv
<1>2. webAuth[r.email] = r.pw /\ user[r.email] = NoRow
  BY DEF AuthInv, TaskInv
<1>3. \A e \in Emails : e # r.email => user'[e] = user[e]
  BY <1>1, RowsTyped DEF EnterRow
<1> QED
  BY <1>1, <1>2, <1>3 DEF MemberInv, Kept

LEMMA MembersStay ==
  ASSUME AuthInv, MemberInv, [Next]_vars
  PROVE  MemberInv' /\ Kept
<1>1. CASE Insert
  BY <1>1, InsertKeeps, TablesStill DEF Insert, tables
<1>2. CASE Touch
  BY <1>2, TouchKeeps, TablesStill DEF Touch, tables
<1>3. CASE Enter
  BY <1>3, EnterKeeps, TablesStill DEF Enter, tables
<1>4. CASE \/ Select \/ SelectTimeout \/ ReceiveFails \/ ReceiveNothing \/ Receive \/ ScanEnd \/ Accept
           \/ Find \/ Lookup \/ Check \/ Record \/ Send
  <2>1. UNCHANGED tables
    BY <1>4 DEF Select, SelectTimeout, ReceiveFails, ReceiveNothing, Receive, ScanEnd, Accept,
                Find, Lookup, Check, Record, Send, vars
  <2> QED
    BY <2>1, TablesStill
<1>5. CASE \/ Crash \/ Restart \/ Tick \/ UNCHANGED vars
           \/ \E k \in Conns : Connect(k) \/ Ask(k) \/ Hangup(k)
  <2>1. UNCHANGED tables
    BY <1>5 DEF Crash, Restart, Tick, Connect, Ask, Hangup, vars
  <2> QED
    BY <2>1, TablesStill
<1> QED
  BY <1>1, <1>2, <1>3, <1>4, <1>5 DEF Next, Server, Handler

(* From the step that records an account's first login on, no step changes *)
(* the account, takes the row away or moves its creation date: whatever    *)
(* statements fail, however often the server is killed and however the     *)
(* clock runs (RecordLogin).                                               *)
THEOREM MembersKeepAccounts == Spec => MembersKept
<1>1. Init => MemberInv
  BY DEF Init, MemberInv
<1>2. AuthInv /\ MemberInv /\ [Next]_vars => MemberInv'
  BY MembersStay
<1>3. AuthInv /\ MemberInv /\ [Next]_vars => [Kept]_vars
  BY MembersStay
<1>4. Spec => [][Kept]_vars
  BY <1>1, <1>2, <1>3, AuthServerInvariant, PTL DEF Spec
<1> QED
  BY <1>4 DEF MembersKept, Kept
-----------------------------------------------------------------------------
(* How many requests of connection k the server has taken from its stream. *)
Received(k) == asked[k] - Len(inq[k])

(* The requests still in a stream are the latest, in order. *)
StreamsNumbered ==
  \A k \in Conns : \A i \in 1..Len(inq[k]) : inq[k][i].n = Received(k) + i

(* The request at hand has been received after all those answered. *)
Newest(n, k) == n <= Received(k) /\ \A i \in 1..Len(out[k]) : out[k][i].n < n
TaskNewest == pc \in Handling => \A r \in task : Newest(r.n, clients[idx])
AnswerOfTask == pc = "send" => \A m \in answer : \E r \in task : m.n = r.n

FollowInv == StreamsNumbered /\ AnswersFollowRequests /\ TaskNewest /\ AnswerOfTask

LEMMA ReceivedTyped ==
  ASSUME TypeOK, NEW k \in Conns
  PROVE  /\ inq[k] \in Seq(Request) /\ out[k] \in Seq(Response)
         /\ Len(inq[k]) \in Nat /\ asked[k] \in Nat /\ Received(k) \in Int
         /\ \A i \in 1..Len(out[k]) : out[k][i].n \in Nat
<1>1. inq[k] \in Seq(Request) /\ out[k] \in Seq(Response) /\ asked[k] \in Nat
  BY DEF TypeOK
<1>2. Len(inq[k]) \in Nat
  BY <1>1
<1>3. \A i \in 1..Len(out[k]) : out[k][i].n \in Nat
  <2>1. \A i \in 1..Len(out[k]) : out[k][i] \in Response
    BY <1>1
  <2> QED
    BY <2>1 DEF Response
<1> DEFINE x == asked[k]
           y == Len(inq[k])
<1>4. x \in Nat /\ y \in Nat /\ Received(k) = x - y
  BY <1>1, <1>2 DEF Received
<1> HIDE DEF x, y
<1>5. Received(k) \in Int
  BY <1>4
<1> QED
  BY <1>1, <1>2, <1>3, <1>5

(* Steps that neither read, send nor answer, and take no request up. *)
LEMMA FollowStill ==
  ASSUME FollowInv, UNCHANGED <<inq, asked, out>>,
         pc' \notin Handling \/ UNCHANGED <<pc, task, answer, clients, idx>>
  PROVE  FollowInv'
<1>1. StreamsNumbered' /\ AnswersFollowRequests'
  BY DEF FollowInv, StreamsNumbered, AnswersFollowRequests, Received
<1>2. TaskNewest'
  BY DEF FollowInv, TaskNewest, Newest, Received
<1>3. AnswerOfTask'
  BY DEF FollowInv, AnswerOfTask, Handling
<1> QED
  BY <1>1, <1>2, <1>3 DEF FollowInv

(* A statement of a handler: it goes on, or finishes with an answer to the *)
(* request at hand.                                                        *)
LEMMA FollowHandler ==
  ASSUME FollowInv, pc \in Handling, UNCHANGED <<inq, asked, out, clients, idx, task>>,
         pc' # "send" \/ \A m \in answer' : \E r \in task : m.n = r.n
  PROVE  FollowInv'
<1>1. StreamsNumbered' /\ AnswersFollowRequests'
  BY DEF FollowInv, StreamsNumbered, AnswersFollowRequests, Received
<1>2. TaskNewest'
  BY DEF FollowInv, TaskNewest, Newest, Received
<1>3. AnswerOfTask'
  BY DEF AnswerOfTask
<1> QED
  BY <1>1, <1>2, <1>3 DEF FollowInv

LEMMA ReplyNumbered ==
  ASSUME NEW r, NEW field, NEW reason, NEW created
  PROVE  Reply(r, field, reason, created).n = r.n
  BY DEF Reply

LEMMA HandlerFollows ==
  ASSUME FollowInv, Find \/ Insert \/ Lookup \/ Check \/ Record \/ Touch \/ Enter
  PROVE  FollowInv'
<1>1. pc \in Handling /\ UNCHANGED <<inq, asked, out, clients, idx, task>>
  BY DEF Find, Insert, Lookup, Check, Record, Touch, Enter, Handling, still, loop, net,
         Goto, Finish, AlreadyExists, SqlError, Rejected
<1>2. pc' # "send" \/ \E r \in task : \E field, reason, created :
                        answer' = {Reply(r, field, reason, created)}
  BY DEF Find, Insert, Lookup, Check, Record, Touch, Enter, Goto, Finish, AlreadyExists,
         SqlError, Rejected
<1>3. pc' # "send" \/ \A m \in answer' : \E r \in task : m.n = r.n
  BY <1>2, ReplyNumbered
<1> QED
  BY <1>1, <1>3, FollowHandler

LEMMA ReceiveFollows ==
  ASSUME AuthInv, FollowInv, Receive
  PROVE  FollowInv'
<1>1. PICK i \in ready, n \in 1..MaxBatch :
       LET k == clients[i] IN
       /\ n <= Len(inq[k])
       /\ inq' = [inq EXCEPT ![k] = Taken(@, n)]
       /\ IF Head(inq[k]).type = "OTHER"
          THEN idx' = i + 1 /\ UNCHANGED <<pc, task>>
          ELSE /\ idx' = i
               /\ task' = {Head(inq[k])}
               /\ pc' = IF Head(inq[k]).type = "LOGIN" THEN "lookup" ELSE "find"
  BY DEF Receive
<1>2. pc = "scan" /\ UNCHANGED <<clients, asked, out>>
  BY DEF Receive
<1>3. PICK k : k = clients[i]
  OBVIOUS
<1>4. TypeOK /\ k \in Conns /\ n \in Nat \ {0}
  <2>1. TypeOK
    BY DEF AuthInv
  <2>2. clients \in Seq(Conns) /\ i \in 1..Len(clients)
    BY <2>1 DEF TypeOK
  <2>3. MaxBatch \in Nat
    BY AuthAssumption
  <2>4. k \in Conns
    BY <1>3, <2>2
  <2>5. n \in Nat \ {0}
    BY <2>3
  <2> QED
    BY <2>1, <2>4, <2>5
<1>5. /\ inq[k] \in Seq(Request) /\ n <= Len(inq[k]) /\ Len(inq[k]) \in Nat
      /\ asked[k] \in Nat /\ Received(k) \in Int
  BY <1>1, <1>3, <1>4, ReceivedTyped
<1>6. /\ Len(Taken(inq[k], n)) = Len(inq[k]) - n
      /\ \A j \in 1..(Len(inq[k]) - n) : Taken(inq[k], n)[j] = inq[k][n + j] /\ n + j \in 1..Len(inq[k])
      /\ 1 \in 1..Len(inq[k]) /\ Head(inq[k]) = inq[k][1]
  BY <1>4, <1>5 DEF Taken
<1>7. /\ inq'[k] = Taken(inq[k], n)
      /\ \A c \in Conns : c # k => inq'[c] = inq[c]
  BY <1>1, <1>3, <1>4 DEF TypeOK
<1> DEFINE z == Len(inq'[k])
<1>8. z = Len(inq[k]) - n
  BY <1>6, <1>7
<1>9. asked[k] - z = Received(k) + n
  <2> DEFINE x == asked[k]
             y == Len(inq[k])
  <2>1. Received(k) = x - y /\ x \in Nat /\ y \in Nat /\ z = y - n
    BY <1>5, <1>8 DEF Received
  <2> HIDE DEF x, y, z
  <2>2. x - z = Received(k) + n
    BY <1>4, <2>1
  <2> QED
    BY <2>2 DEF x
<1>10. StreamsNumbered'
  <2> SUFFICES ASSUME NEW c \in Conns, NEW j \in 1..Len(inq'[c])
               PROVE  inq'[c][j].n = asked[c] - Len(inq'[c]) + j
    BY <1>2 DEF StreamsNumbered, Received
  <2>1. CASE c = k
    <3>1. j \in 1..(Len(inq[k]) - n) /\ j \in Int
      BY <1>8, <2>1
    <3>2. inq'[k][j] = inq[k][n + j] /\ n + j \in 1..Len(inq[k])
      BY <1>6, <1>7, <3>1
    <3>3. inq[k][n + j].n = Received(k) + (n + j)
      BY <1>4, <3>2 DEF FollowInv, StreamsNumbered
    <3> HIDE DEF z
    <3>4. inq'[k][j].n = (asked[k] - z) + j
      BY <1>4, <1>5, <1>9, <3>1, <3>2, <3>3
    <3> QED
      BY <2>1, <3>4 DEF z
  <2>2. CASE c # k
    BY <1>7, <2>2 DEF FollowInv, StreamsNumbered, Received
  <2> QED
    BY <2>1, <2>2
<1>11. \A c \in Conns : \A j \in 1..Len(out[c]) :
         out[c][j].n \in Nat /\ out[c][j].n <= Received(c) /\ Received(c) \in Int
  BY <1>4, ReceivedTyped DEF FollowInv, AnswersFollowRequests, Received
<1>12. AnswersFollowRequests'
  <2> SUFFICES ASSUME NEW c \in Conns, NEW j \in 1..Len(out[c])
               PROVE  out[c][j].n <= asked[c] - Len(inq'[c])
    BY <1>2 DEF FollowInv, AnswersFollowRequests
  <2>1. CASE c = k
    <3>1. out[k][j].n \in Nat /\ out[k][j].n <= Received(k)
      BY <1>11, <2>1
    <3>2. out[k][j].n <= Received(k) + n
      BY <1>4, <1>5, <3>1
    <3> HIDE DEF z
    <3>3. out[k][j].n <= asked[k] - z
      BY <1>9, <3>2
    <3> QED
      BY <2>1, <3>3 DEF z
  <2>2. CASE c # k
    BY <1>7, <1>11, <2>2 DEF Received
  <2> QED
    BY <2>1, <2>2
<1>13. TaskNewest'
  <2>0. pc' \in Handling => clients'[idx'] = k
    BY <1>1, <1>2, <1>3 DEF Handling
  <2> SUFFICES ASSUME pc' \in Handling
               PROVE  \A r \in task' : r.n <= asked[k] - z /\ \A j \in 1..Len(out[k]) : out[k][j].n < r.n
    BY <1>2, <2>0 DEF TaskNewest, Newest, Received
  <2>1. task' = {inq[k][1]}
    BY <1>1, <1>2, <1>3, <1>6 DEF Handling
  <2>2. inq[k][1].n = Received(k) + 1
    BY <1>4, <1>6 DEF FollowInv, StreamsNumbered
  <2> HIDE DEF z
  <2>3. inq[k][1].n <= asked[k] - z
    <3>1. Received(k) + 1 <= Received(k) + n
      BY <1>4, <1>5
    <3> QED
      BY <1>9, <2>2, <3>1
  <2>4. \A j \in 1..Len(out[k]) : out[k][j].n < inq[k][1].n
    BY <1>4, <1>5, <1>11, <2>2
  <2> QED
    BY <2>1, <2>3, <2>4
<1>14. AnswerOfTask'
  <2>1. pc' = "scan" \/ pc' = "lookup" \/ pc' = "find"
    BY <1>1, <1>2
  <2> QED
    BY <2>1 DEF AnswerOfTask
<1> QED
  BY <1>10, <1>12, <1>13, <1>14 DEF FollowInv

LEMMA SendFollows ==
  ASSUME AuthInv, FollowInv, Send
  PROVE  FollowInv'
<1>1. pc = "send" /\ pc' = "scan" /\ UNCHANGED <<inq, asked>>
  BY DEF Send, net
<1>2. PICK k : k = clients[idx]
  OBVIOUS
<1>3. PICK m \in answer : out' = IF link[k] = "rst" THEN out ELSE [out EXCEPT ![k] = Append(@, m)]
  BY <1>2 DEF Send
<1>4. TypeOK /\ k \in Conns /\ m \in Response /\ m.n \in Nat
  <2>1. TypeOK /\ pc \in Handling
    BY <1>1 DEF AuthInv, Handling
  <2>2. k \in Conns /\ m \in Response
    BY <1>2, <1>3, <2>1 DEF TypeOK
  <2>3. m.n \in Nat
    BY <2>2 DEF Response
  <2> QED
    BY <2>1, <2>2, <2>3
<1>5. Newest(m.n, k)
  BY <1>1, <1>2, <1>3 DEF FollowInv, TaskNewest, AnswerOfTask, Handling
<1>6. AnswersFollowRequests'
  <2> SUFFICES ASSUME NEW c \in Conns, NEW i \in 1..Len(out'[c])
               PROVE  /\ out'[c][i].n <= Received(c)
                      /\ \A j \in 1..(i - 1) : out'[c][j].n < out'[c][i].n
    BY <1>1 DEF AnswersFollowRequests, Received
  <2>1. CASE out'[c] = out[c]
    BY <2>1 DEF FollowInv, AnswersFollowRequests, Received
  <2>2. CASE c = k /\ out'[k] = Append(out[k], m)
    <3>1. /\ out[k] \in Seq(Response) /\ Len(out[k]) \in Nat
          /\ Len(out'[k]) = Len(out[k]) + 1
          /\ \A j \in 1..Len(out[k]) : out'[k][j] = out[k][j]
          /\ out'[k][Len(out[k]) + 1] = m
      <4>1. out[k] \in Seq(Response)
        BY <1>4, ReceivedTyped
      <4> QED
        BY <1>4, <2>2, <4>1
    <3>2. CASE i = Len(out[k]) + 1
      BY <1>5, <2>2, <3>1, <3>2 DEF Newest
    <3>3. CASE i \in 1..Len(out[k])
      <4>1. \A j \in 1..(i - 1) : j \in 1..Len(out[k])
        BY <3>1, <3>3
      <4> QED
        BY <1>4, <2>2, <3>1, <3>3, <4>1 DEF FollowInv, AnswersFollowRequests, Received
    <3> QED
      BY <2>2, <3>1, <3>2, <3>3
  <2>3. out'[c] = out[c] \/ (c = k /\ out'[k] = Append(out[k], m))
    BY <1>3, <1>4 DEF TypeOK
  <2> QED
    BY <2>1, <2>2, <2>3
<1>7. StreamsNumbered'
  BY <1>1 DEF FollowInv, StreamsNumbered, Received
<1>8. TaskNewest' /\ AnswerOfTask'
  BY <1>1 DEF TaskNewest, AnswerOfTask, Handling
<1> QED
  BY <1>6, <1>7, <1>8 DEF FollowInv

LEMMA AskFollows ==
  ASSUME AuthInv, FollowInv, NEW k \in Conns, Ask(k)
  PROVE  FollowInv'
<1> PICK r \in Asks :
      inq' = [inq EXCEPT ![k] = Append(@, [type |-> r.type, n |-> asked[k] + 1,
                                           email |-> r.email, pw |-> r.pw])]
  BY DEF Ask
<1> DEFINE q == [type |-> r.type, n |-> asked[k] + 1, email |-> r.email, pw |-> r.pw]
<1>1. /\ asked' = [asked EXCEPT ![k] = @ + 1]
      /\ UNCHANGED <<pc, task, answer, clients, idx, out>>
  BY DEF Ask, loop
<1>2. /\ TypeOK /\ inq[k] \in Seq(Request) /\ Len(inq[k]) \in Nat
      /\ asked[k] \in Nat /\ Received(k) \in Int
  BY ReceivedTyped DEF AuthInv
<1>3. inq'[k] = Append(inq[k], q) /\ asked'[k] = asked[k] + 1 /\ q.n = asked[k] + 1
  BY <1>1, <1>2 DEF TypeOK
<1>4. \A c \in Conns : c # k => inq'[c] = inq[c] /\ asked'[c] = asked[c]
  BY <1>1, <1>2 DEF TypeOK
<1> HIDE DEF q
<1> DEFINE y == Len(inq[k])
<1>5. /\ Len(inq'[k]) = y + 1
      /\ \A i \in 1..y : inq'[k][i] = inq[k][i]
      /\ inq'[k][y + 1] = q
  BY <1>2, <1>3
<1>6. y \in Nat /\ Received(k) = asked[k] - y
  BY <1>2 DEF Received
<1>7. asked'[k] - Len(inq'[k]) = Received(k)
  <2>1. asked'[k] - Len(inq'[k]) = (asked[k] + 1) - (y + 1)
    BY <1>3, <1>5
  <2> HIDE DEF y
  <2> QED
    BY <1>2, <1>6, <2>1
<1>8. \A c \in Conns : asked'[c] - Len(inq'[c]) = Received(c)
  <2> TAKE c \in Conns
  <2>1. CASE c = k
    BY <1>7, <2>1
  <2>2. CASE c # k
    BY <1>4, <2>2 DEF Received
  <2> QED
    BY <2>1, <2>2
<1>9. StreamsNumbered'
  <2> SUFFICES ASSUME NEW c \in Conns, NEW i \in 1..Len(inq'[c])
               PROVE  inq'[c][i].n = Received(c) + i
    BY <1>8 DEF StreamsNumbered, Received
  <2>1. CASE c # k
    BY <1>4, <2>1 DEF FollowInv, StreamsNumbered
  <2>2. CASE c = k /\ i = y + 1
    <3>1. inq'[c][i].n = asked[k] + 1
      BY <1>3, <1>5, <2>2
    <3> HIDE DEF y
    <3>2. asked[k] + 1 = Received(k) + (y + 1)
      BY <1>2, <1>6
    <3> QED
      BY <2>2, <3>1, <3>2
  <2>3. CASE c = k /\ i # y + 1
    <3>1. i \in 1..(y + 1)
      BY <1>5, <2>3
    <3>2. i \in 1..y
      <4> HIDE DEF y
      <4> QED
        BY <1>6, <2>3, <3>1
    <3> QED
      BY <1>5, <2>3, <3>2 DEF FollowInv, StreamsNumbered
  <2> QED
    BY <2>1, <2>2, <2>3
<1>10. AnswersFollowRequests'
  BY <1>1, <1>8 DEF FollowInv, AnswersFollowRequests, Received
<1>11. TaskNewest'
  <2> SUFFICES ASSUME pc \in Handling, NEW r1 \in task
               PROVE  /\ r1.n <= Received(clients[idx])
                      /\ \A i \in 1..Len(out[clients[idx]]) : out[clients[idx]][i].n < r1.n
    <3>1. pc \in Handling => clients[idx] \in Conns
      BY <1>2 DEF TypeOK
    <3> QED
      BY <1>1, <1>8, <3>1 DEF TaskNewest, Newest, Received
  <2> QED
    BY DEF FollowInv, TaskNewest, Newest
<1>12. AnswerOfTask'
  BY <1>1 DEF FollowInv, AnswerOfTask
<1> QED
  BY <1>9, <1>10, <1>11, <1>12 DEF FollowInv

(* What was in the stream of a lost connection counts as received. *)
LEMMA LostFollows ==
  ASSUME AuthInv, FollowInv, UNCHANGED <<asked, out>>,
         \A c \in Conns : inq'[c] = inq[c] \/ inq'[c] = <<>>,
         pc' \notin Handling \/ UNCHANGED <<pc, task, answer, clients, idx>>
  PROVE  FollowInv'
<1>1. \A c \in Conns : /\ Received(c) \in Int /\ asked[c] - Len(inq'[c]) \in Int
                       /\ Received(c) <= asked[c] - Len(inq'[c])
                       /\ \A i \in 1..Len(out[c]) : out[c][i].n \in Nat
  <2> TAKE c \in Conns
  <2> DEFINE y == Len(inq[c])
             z == Len(inq'[c])
  <2>1. /\ y \in Nat /\ asked[c] \in Nat /\ Received(c) = asked[c] - y
        /\ \A i \in 1..Len(out[c]) : out[c][i].n \in Nat
    BY ReceivedTyped DEF AuthInv, Received
  <2>2. z = y \/ z = 0
    OBVIOUS
  <2> HIDE DEF y, z
  <2>3. /\ Received(c) \in Int /\ asked[c] - z \in Int /\ Received(c) <= asked[c] - z
    BY <2>1, <2>2
  <2> QED
    BY <2>1, <2>3 DEF z
<1>2. StreamsNumbered'
  <2> SUFFICES ASSUME NEW c \in Conns, NEW i \in 1..Len(inq'[c])
               PROVE  inq'[c][i].n = asked[c] - Len(inq'[c]) + i
    BY DEF StreamsNumbered, Received
  <2>1. CASE inq'[c] = inq[c]
    BY <2>1 DEF FollowInv, StreamsNumbered, Received
  <2>2. CASE inq'[c] = <<>>
    BY <2>2
  <2> QED
    BY <2>1, <2>2
<1>3. AnswersFollowRequests'
  <2> SUFFICES ASSUME NEW c \in Conns, NEW i \in 1..Len(out[c])
               PROVE  out[c][i].n <= asked[c] - Len(inq'[c])
    BY DEF FollowInv, AnswersFollowRequests
  <2>1. out[c][i].n \in Nat /\ out[c][i].n <= Received(c)
    BY <1>1 DEF FollowInv, AnswersFollowRequests, Received
  <2> QED
    BY <1>1, <2>1
<1>4. TaskNewest'
  <2> SUFFICES ASSUME pc \in Handling, NEW r \in task, UNCHANGED <<pc, task, clients, idx>>
               PROVE  Newest(r.n, clients[idx])'
    BY DEF TaskNewest
  <2>1. Newest(r.n, clients[idx]) /\ clients[idx] \in Conns /\ r.n \in Nat
    BY DEF FollowInv, TaskNewest, AuthInv, TypeOK, Request
  <2>2. r.n <= asked[clients[idx]] - Len(inq'[clients[idx]])
    BY <1>1, <2>1 DEF Newest
  <2> QED
    BY <2>1, <2>2 DEF Newest, Received
<1>5. AnswerOfTask'
  BY DEF FollowInv, AnswerOfTask, Handling
<1> QED
  BY <1>2, <1>3, <1>4, <1>5 DEF FollowInv

LEMMA FollowKept ==
  ASSUME AuthInv, FollowInv, [Next]_vars
  PROVE  FollowInv'
<1>1. CASE Find \/ Insert \/ Lookup \/ Check \/ Record \/ Touch \/ Enter
  BY <1>1, HandlerFollows
<1>2. CASE Receive
  BY <1>2, ReceiveFollows
<1>3. CASE Send
  BY <1>3, SendFollows
<1>4. ASSUME NEW k \in Conns, Ask(k) PROVE FollowInv'
  BY <1>4, AskFollows
<1>5. ASSUME NEW k \in Conns, Hangup(k) PROVE FollowInv'
  <2>1. UNCHANGED <<asked, out, pc, task, answer, clients, idx>>
    BY <1>5 DEF Hangup, loop
  <2>2. \A c \in Conns : inq'[c] = inq[c] \/ inq'[c] = <<>>
    BY <1>5 DEF Hangup, AuthInv, TypeOK
  <2> QED
    BY <2>1, <2>2, LostFollows
<1>6. CASE Restart
  <2>1. UNCHANGED <<asked, out>> /\ pc' \notin Handling
    BY <1>6 DEF Restart, Handling
  <2>2. \A c \in Conns : inq'[c] = inq[c] \/ inq'[c] = <<>>
    BY <1>6 DEF Restart
  <2> QED
    BY <2>1, <2>2, LostFollows
<1>7. CASE \/ Select \/ SelectTimeout \/ ReceiveFails \/ ReceiveNothing \/ ScanEnd \/ Accept
           \/ Crash \/ Tick \/ UNCHANGED vars \/ \E k \in Conns : Connect(k)
  <2>1. UNCHANGED <<inq, asked, out>>
    BY <1>7 DEF Select, SelectTimeout, ReceiveFails, ReceiveNothing, ScanEnd, Accept, Crash, Tick,
                Connect, vars, net
  <2>2. pc' \notin Handling \/ UNCHANGED <<pc, task, answer, clients, idx>>
    BY <1>7 DEF Select, SelectTimeout, ReceiveFails, ReceiveNothing, ScanEnd, Accept, Crash, Tick,
                Connect, vars, loop, Handling
  <2> QED
    BY <2>1, <2>2, FollowStill
<1> QED
  BY <1>1, <1>2, <1>3, <1>4, <1>5, <1>6, <1>7 DEF Next, Server, Handler

(* The answers on a connection come in the order of their requests, never  *)
(* two for one, none before its request has been received.                 *)
THEOREM AnswersKeepOrder == Spec => []AnswersFollowRequests
<1>1. Init => FollowInv
  BY DEF Init, FollowInv, StreamsNumbered, AnswersFollowRequests, TaskNewest, AnswerOfTask, Handling
<1>2. AuthInv /\ FollowInv /\ [Next]_vars => FollowInv'
  BY FollowKept
<1>3. FollowInv => AnswersFollowRequests
  BY DEF FollowInv
<1> QED
  BY <1>1, <1>2, <1>3, AuthServerInvariant, PTL DEF Spec
=============================================================================
