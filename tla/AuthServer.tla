------------------------------ MODULE AuthServer ------------------------------
(***************************************************************************)
(* The authentication server (AuthenticationServer/AuthServer.cpp) and the *)
(* two tables it keeps (Database.cpp).                                     *)
(*                                                                         *)
(* One thread serves the chat servers connected to it, one request after   *)
(* another.  A handler is cut at each SQL statement: a statement commits   *)
(* by itself, may throw without or, when the reply is lost, with its       *)
(* effect, and the process may be killed between any two of them.  What    *)
(* the tables hold survives.  A salted hash stands for the password it was *)
(* made from.                                                              *)
(***************************************************************************)
EXTENDS Integers, Sequences, FiniteSets

CONSTANTS Emails, Passwords,
          Asks,        \* what may be asked: [type, email, pw]
          NoRow,       \* no row with this email
          Conns,       \* connections that chat servers open, one after another
          MaxBatch,    \* most requests one recv() returns (512 bytes)
          MaxAsked,    \* bound: requests sent on one connection
          MaxTotal,    \* bound: requests sent on all connections
          MaxTime,     \* bound: the local times are 0 to MaxTime
          FdSetSize    \* FD_SETSIZE, the listening socket included

Types == {"LOGIN", "REGISTER", "OTHER"}
Rows == [created : Nat, last : Nat]
ASSUME AuthAssumption == /\ NoRow \notin Passwords \cup Rows
                         /\ Asks \subseteq [type : Types, email : Emails, pw : Passwords]
                         /\ MaxBatch \in Nat \ {0} /\ MaxAsked \in Nat
                         /\ MaxTotal \in Nat /\ MaxTime \in Nat
                         /\ FdSetSize \in Nat \ {0}

(* A request; n numbers the requests of a connection.  OTHER is what the   *)
(* server does not handle or cannot parse.                                 *)
Request == [type : Types, n : Nat, email : Emails, pw : Passwords]
(* auth::LoginResponse and auth::RegisterResponse: password is the one     *)
(* sent, its hash, or not set at all; created is the date in the message.  *)
Response == [type : {"LOGIN_RESPONSE", "REGISTER_RESPONSE"}, n : Nat, email : Emails,
             pw : Passwords, field : {"plain", "hash", "unset"},
             reason : {"NONE", "INVALID_CREDENTIALS", "ACCOUNT_ALREADY_EXISTS",
                       "INTERNAL_SERVER_ERROR"},
             created : Nat]

VARIABLES
  webAuth,     \* table web_auth: hashed_password by email
  user,        \* table user: creation_date and last_login by email
  now,         \* the local time; it may be set back
  clients,     \* AuthServer::clients
  pc,          \* where the thread stands
  idx,         \* the place of clients the scan has come to
  ready,       \* places of clients in socketsReadyForReading
  avail,       \* a connection can be accepted
  task,        \* the request being handled, or {}
  answer,      \* its response, once it is made, or {}
  stamp,       \* RecordLogin's dateTimeString
  link,        \* each connection: "idle", "up", "fin", "rst"
  inq,         \* requests sent and not yet received
  asked,       \* how many requests were sent
  out,         \* every response sent
  backlog      \* connections waiting for accept()

tables == <<webAuth, user>>
clock == <<now, stamp>>
loop == <<clients, idx, ready, avail>>
net == <<link, inq, asked, backlog>>
vars == <<tables, clock, loop, pc, task, answer, net, out>>

Init == /\ webAuth = [e \in Emails |-> NoRow]
        /\ user = [e \in Emails |-> NoRow]
        /\ now = 0 /\ stamp = 0
        /\ clients = <<>> /\ pc = "select" /\ idx = 1 /\ ready = {} /\ avail = FALSE
        /\ task = {} /\ answer = {}
        /\ link = [k \in Conns |-> "idle"] /\ inq = [k \in Conns |-> <<>>]
        /\ asked = [k \in Conns |-> 0] /\ out = [k \in Conns |-> <<>>]
        /\ backlog = <<>>
-----------------------------------------------------------------------------
(* The loop of RunSocket.  A connection closed by its peer stays in        *)
(* clients and is readable for ever.                                       *)

Readable(k) == link[k] # "up" \/ inq[k] # <<>>

Select ==
  /\ pc = "select"
  /\ ready' = {i \in 1..Len(clients) : i < FdSetSize /\ Readable(clients[i])}
  /\ avail' = (backlog # <<>>)
  /\ (ready' # {} \/ avail')
  /\ pc' = "scan" /\ idx' = 1
  /\ UNCHANGED <<tables, clock, clients, task, answer, net, out>>

SelectTimeout ==
  /\ pc = "select" /\ backlog = <<>>
  /\ \A i \in 1..Len(clients) : i < FdSetSize => ~Readable(clients[i])
  /\ UNCHANGED vars

NextReady(i) == i \in ready /\ i >= idx /\ \A j \in ready : j >= idx => i <= j

(* recv() fails: listenSocket is closed and WinSock shut down, after which *)
(* no socket call succeeds any more.                                       *)
ReceiveFails ==
  /\ pc = "scan" /\ \E i \in ready : NextReady(i) /\ link[clients[i]] = "rst"
  /\ pc' = "down"
  /\ UNCHANGED <<tables, clock, loop, task, answer, net, out>>

ReceiveNothingStays ==
  /\ pc = "scan"
  /\ \E i \in ready : /\ NextReady(i) /\ link[clients[i]] = "fin" /\ inq[clients[i]] = <<>>
                      /\ idx' = i
  /\ UNCHANGED <<tables, clock, clients, ready, avail, pc, task, answer, net, out>>
(* recv() returns 0: nothing is done about it. *)
ReceiveNothing ==
  /\ pc = "scan"
  /\ \E i \in ready : /\ NextReady(i) /\ link[clients[i]] = "fin" /\ inq[clients[i]] = <<>>
                      /\ idx' = i + 1
  /\ UNCHANGED <<tables, clock, clients, ready, avail, pc, task, answer, net, out>>

TakenPeek(stream, n) == SubSeq(stream, n, Len(stream))
Taken(stream, n) == SubSeq(stream, n + 1, Len(stream))

(* recv() returns data: the first request in it is dispatched, those that  *)
(* came with it are gone.                                                  *)
Receive ==
  /\ pc = "scan"
  /\ \E i \in ready, n \in 1..MaxBatch :
       LET k == clients[i] IN
       /\ NextReady(i) /\ link[k] # "rst" /\ n <= Len(inq[k])
       /\ inq' = [inq EXCEPT ![k] = Taken(@, n)]
       /\ IF Head(inq[k]).type = "OTHER"
          THEN idx' = i + 1 /\ UNCHANGED <<pc, task>>
          ELSE /\ idx' = i
               /\ task' = {Head(inq[k])}
               /\ pc' = IF Head(inq[k]).type = "LOGIN" THEN "lookup" ELSE "find"
  /\ UNCHANGED <<tables, clock, clients, ready, avail, answer, link, asked, backlog, out>>

ScanEnd ==
  /\ pc = "scan" /\ \A i \in ready : i < idx
  /\ pc' = IF avail THEN "accept" ELSE "select"
  /\ ready' = {} /\ avail' = FALSE
  /\ UNCHANGED <<tables, clock, clients, idx, task, answer, net, out>>

(* accept() may report that the connection was reset meanwhile. *)
Accept ==
  /\ pc = "accept" /\ backlog # <<>>
  /\ \/ clients' = Append(clients, Head(backlog))
     \/ link[Head(backlog)] = "rst" /\ UNCHANGED clients
  /\ backlog' = Tail(backlog)
  /\ pc' = "select"
  /\ UNCHANGED <<tables, clock, idx, ready, avail, task, answer, link, inq, asked, out>>

SendKeeps ==
  /\ pc = "send"
  /\ \E m \in answer :
       out' = IF link[clients[idx]] = "rst" THEN out
              ELSE [out EXCEPT ![clients[idx]] = Append(@, m)]
  /\ pc' = "scan" /\ idx' = idx + 1
  /\ UNCHANGED <<tables, clock, clients, ready, avail, net, task, answer>>
(* SendResponseMessage; a send that fails is reported and forgotten. *)
Send ==
  /\ pc = "send"
  /\ \E m \in answer :
       out' = IF link[clients[idx]] = "rst" THEN out
              ELSE [out EXCEPT ![clients[idx]] = Append(@, m)]
  /\ task' = {} /\ answer' = {} /\ stamp' = 0
  /\ pc' = "scan" /\ idx' = idx + 1
  /\ UNCHANGED <<tables, now, clients, ready, avail, net>>
-----------------------------------------------------------------------------
(* The handlers.  What they have in common: between two statements nothing *)
(* but the handler's own state changes.                                    *)

still == <<clock, loop, net, out>>

Reply(r, field, reason, created) ==
  [type |-> IF r.type = "LOGIN" THEN "LOGIN_RESPONSE" ELSE "REGISTER_RESPONSE",
   n |-> r.n, email |-> r.email, pw |-> r.pw, field |-> field, reason |-> reason,
   created |-> created]

Goto(label) == pc' = label /\ UNCHANGED <<task, answer>>
Finish(m) == pc' = "send" /\ answer' = {m} /\ UNCHANGED task

AlreadyExistsForgotten(r) == Finish(Reply(r, "plain", "NONE", 0))
AlreadyExists(r) == Finish(Reply(r, "plain", "ACCOUNT_ALREADY_EXISTS", 0))

(* CreateAccount: SELECT ... FROM web_auth, twice, outside the try block.  *)
(* An exception ends the process.                                          *)
Find ==
  /\ pc = "find"
  /\ \/ Goto("down")
     \/ \E r \in task :
          IF webAuth[r.email] # NoRow
          THEN AlreadyExists(r)
          ELSE Goto("insert")
  /\ UNCHANGED <<tables, still>>

(* INSERT INTO web_auth; email is UNIQUE.  execute() returns false for it, *)
(* which CreateAccount takes for success.  An exception is answered, with  *)
(* the password left unset; the row may be there all the same.             *)
InsertRow(r) ==
  /\ webAuth[r.email] = NoRow
  /\ webAuth' = [webAuth EXCEPT ![r.email] = r.pw]

Insert ==
  /\ pc = "insert"
  /\ \E r \in task :
       \/ InsertRow(r) /\ Finish(Reply(r, "hash", "NONE", 0))
       \/ /\ InsertRow(r) \/ UNCHANGED webAuth
          /\ Finish(Reply(r, "unset", "INTERNAL_SERVER_ERROR", 0))
  /\ UNCHANGED <<user, still>>

(* Authenticate: every statement is inside the try block. *)
SqlError(r) == Finish(Reply(r, "plain", "INTERNAL_SERVER_ERROR", 0))
Rejected(r) == Finish(Reply(r, "plain", "INVALID_CREDENTIALS", 0))

(* SELECT ... FROM web_auth *)
Lookup ==
  /\ pc = "lookup"
  /\ \E r \in task : \/ SqlError(r)
                     \/ IF webAuth[r.email] = NoRow THEN Rejected(r) ELSE Goto("check")
  /\ UNCHANGED <<tables, still>>

MatchesAny(r) == webAuth[r.email] # NoRow
Matches(r) == webAuth[r.email] = r.pw
(* SELECT ... FROM user, whose result is not used; the hashes are compared. *)
(* RecordLogin begins with taking the local time.                          *)
Check ==
  /\ pc = "check"
  /\ \E r \in task : \/ SqlError(r) /\ UNCHANGED stamp
                     \/ IF Matches(r)
                        THEN Goto("record") /\ stamp' = now
                        ELSE Rejected(r) /\ UNCHANGED stamp
  /\ UNCHANGED <<tables, now, loop, net, out>>

(* SELECT ... FROM user, twice, then UPDATE or INSERT with the time taken  *)
(* before.  RecordLogin returns the creation date of the row.              *)
Record ==
  /\ pc = "record"
  /\ \E r \in task : SqlError(r) \/ Goto(IF user[r.email] = NoRow THEN "enter" ELSE "touch")
  /\ UNCHANGED <<tables, still>>

TouchRowCreation(r) == user' = [user EXCEPT ![r.email].created = stamp]
(* UPDATE user SET last_login *)
TouchRow(r) == user' = [user EXCEPT ![r.email].last = stamp]
Touch ==
  /\ pc = "touch"
  /\ \E r \in task :
       \/ TouchRow(r) /\ Finish(Reply(r, "plain", "NONE", user[r.email].created))
       \/ (TouchRow(r) \/ UNCHANGED user) /\ SqlError(r)
  /\ UNCHANGED <<webAuth, still>>

(* INSERT INTO user *)
EnterRow(r) == user' = [user EXCEPT ![r.email] = [created |-> stamp, last |-> stamp]]
Enter ==
  /\ pc = "enter"
  /\ \E r \in task :
       \/ EnterRow(r) /\ Finish(Reply(r, "plain", "NONE", stamp))
       \/ (EnterRow(r) \/ UNCHANGED user) /\ SqlError(r)
  /\ UNCHANGED <<webAuth, still>>

Handler == Find \/ Insert \/ Lookup \/ Check \/ Record \/ Touch \/ Enter \/ Send
Server == Select \/ SelectTimeout \/ ReceiveFails \/ ReceiveNothing \/ Receive \/ ScanEnd
          \/ Accept \/ Handler
-----------------------------------------------------------------------------
(* The environment. *)

(* The process is killed; its sockets are reset. *)
Crash ==
  /\ pc # "down" /\ pc' = "down"
  /\ UNCHANGED <<tables, clock, loop, task, answer, net, out>>

(* It is started again: the constructor finds the tables as they are       *)
(* (CREATE TABLE IF NOT EXISTS) and every old connection is gone.          *)
Restart ==
  /\ pc = "down" /\ pc' = "select"
  /\ clients' = <<>> /\ idx' = 1 /\ ready' = {} /\ avail' = FALSE
  /\ task' = {} /\ answer' = {} /\ stamp' = 0
  /\ link' = [k \in Conns |-> IF link[k] = "idle" THEN "idle" ELSE "rst"]
  /\ inq' = [k \in Conns |-> <<>>] /\ backlog' = <<>>
  /\ UNCHANGED <<tables, now, asked, out>>

Connect(k) ==
  /\ pc # "down" /\ link[k] = "idle"
  /\ link' = [link EXCEPT ![k] = "up"] /\ backlog' = Append(backlog, k)
  /\ UNCHANGED <<tables, clock, loop, pc, task, answer, inq, asked, out>>

(* The chat server forwards a request. *)
AskedSoFar == {a \in Conns \X (1..MaxAsked) : a[2] <= asked[a[1]]}
Ask(k) ==
  /\ link[k] = "up" /\ asked[k] < MaxAsked /\ Cardinality(AskedSoFar) < MaxTotal
  /\ \E r \in Asks :
       inq' = [inq EXCEPT ![k] = Append(@, [type |-> r.type, n |-> asked[k] + 1,
                                            email |-> r.email, pw |-> r.pw])]
  /\ asked' = [asked EXCEPT ![k] = @ + 1]
  /\ UNCHANGED <<tables, clock, loop, pc, task, answer, link, backlog, out>>

(* A chat server goes away, in order or not. *)
Hangup(k) ==
  /\ \/ link[k] = "up" /\ link' = [link EXCEPT ![k] = "fin"] /\ UNCHANGED inq
     \/ /\ link[k] \in {"up", "fin"} /\ link' = [link EXCEPT ![k] = "rst"]
        /\ inq' = [inq EXCEPT ![k] = <<>>]
  /\ UNCHANGED <<tables, clock, loop, pc, task, answer, asked, backlog, out>>

(* Time goes by; the clock may be corrected, and summer time ends. *)
Tick ==
  /\ now' \in 0..MaxTime
  /\ UNCHANGED <<tables, stamp, loop, pc, task, answer, net, out>>

Next == Server \/ Crash \/ Restart \/ Tick
        \/ \E k \in Conns : Connect(k) \/ Ask(k) \/ Hangup(k)

Spec == Init /\ [][Next]_vars
(* The thread keeps running until it is down. *)
FairSpec == Spec /\ WF_vars(Server)
-----------------------------------------------------------------------------
Handling == {"find", "insert", "lookup", "check", "record", "touch", "enter", "send"}

(* Types; besides, a request is at hand exactly while it is handled, and   *)
(* comes from the connection the scan stands at.                           *)
TypeOK ==
  /\ webAuth \in [Emails -> Passwords \cup {NoRow}]
  /\ user \in [Emails -> Rows \cup {NoRow}]
  /\ now \in Nat /\ stamp \in Nat
  /\ clients \in Seq(Conns)
  /\ pc \in {"select", "scan", "accept", "down"} \cup Handling
  /\ idx \in Nat \ {0} /\ ready \in SUBSET (1..Len(clients)) /\ avail \in BOOLEAN
  /\ task \in SUBSET Request /\ answer \in SUBSET Response
  /\ pc \in Handling => task # {} /\ idx \in 1..Len(clients)
  /\ pc \notin Handling \cup {"down"} => task = {}
  /\ link \in [Conns -> {"idle", "up", "fin", "rst"}]
  /\ inq \in [Conns -> Seq(Request)] /\ asked \in [Conns -> Nat]
  /\ out \in [Conns -> Seq(Response)]
  /\ backlog \in Seq(Conns)

Sent == UNION {{k} \X (1..Len(out[k])) : k \in Conns}
Answered(a) == out[a[1]][a[2]]
Welcoming(m) == m.type = "REGISTER_RESPONSE" /\ m.reason = "NONE"
Admitting(m) == m.type = "LOGIN_RESPONSE" /\ m.reason = "NONE"

(* A login is reported successful only to somebody who gave the password   *)
(* the account was registered with, and only once it has been recorded:    *)
(* also after failed statements and restarts (Authenticate, RecordLogin).  *)
LoginSound ==
  \A a \in Sent : Admitting(Answered(a)) =>
    /\ webAuth[Answered(a).email] = Answered(a).pw
    /\ user[Answered(a).email] # NoRow
    /\ user[Answered(a).email].created = Answered(a).created

(* Of all the registrations of an email, on whatever connection and over   *)
(* all restarts, at most one is reported successful, and it is the one     *)
(* whose password the account has (CreateAccount).                         *)
OneWinner ==
  \A a, b \in Sent :
    Welcoming(Answered(a)) =>
      /\ webAuth[Answered(a).email] = Answered(a).pw
      /\ Welcoming(Answered(b)) /\ Answered(b).email = Answered(a).email => a = b

(* The answers on a connection are in the order of their requests, never   *)
(* two for one and none without (RunSocket).                               *)
AnswersFollowRequests ==
  \A k \in Conns :
    \A i \in 1..Len(out[k]) :
      /\ out[k][i].n <= asked[k] - Len(inq[k])
      /\ \A j \in 1..(i - 1) : out[k][j].n < out[k][i].n

(* Once a login of an account is recorded, no step ever changes the        *)
(* account, takes the row of user away or moves its creation date, however *)
(* the clock runs: only last_login is rewritten (RecordLogin).  And there  *)
(* is no row of user without an account.                                   *)
MembersKept ==
  [][\A e \in Emails : user[e] # NoRow =>
        /\ webAuth[e] # NoRow /\ webAuth'[e] = webAuth[e]
        /\ user'[e] # NoRow /\ user'[e].created = user[e].created]_vars

(* Every request that was sent is read, be it only as one of a batch that  *)
(* is dropped behind its first, unless the server goes down or the         *)
(* connection stands in clients where FD_SET no longer has room for it:    *)
(* dead connections are never erased and fill the FD_SET in the end, but   *)
(* until then they do not keep the scan from the others.                   *)
BeyondFdSet(k) == \E i \in FdSetSize..Len(clients) : clients[i] = k
RequestsServed ==
  \A k \in Conns : inq[k] # <<>> ~> inq[k] = <<>> \/ pc = "down" \/ BeyondFdSet(k)

(* The server implements the book of accounts. *)
Book == INSTANCE AccountBook WITH
          Answers <- Conns \X (1..MaxAsked),
          account <- webAuth,
          member <- {e \in Emails : user[e] # NoRow},
          welcomed <- {<<Answered(a).email, a>> : a \in {b \in Sent : Welcoming(Answered(b))}},
          admitted <- {<<Answered(a).email, Answered(a).pw>> :
                         a \in {b \in Sent : Admitting(Answered(b))}}
ImplementsBook == Book!Spec
=============================================================================
