----------------------------- MODULE AccountBook -----------------------------
(***************************************************************************)
(* What the authentication server promises, whatever statements fail and   *)
(* however often it is killed: an account is opened once and keeps its     *)
(* password; somebody is told so at most once; nobody is admitted to an    *)
(* account without its password and without having been recorded as a     *)
(* member.                                                                 *)
(***************************************************************************)
CONSTANTS Emails, Passwords, Answers, NoRow

VARIABLES account,   \* the password of each account
          member,    \* who has logged in before
          welcomed,  \* <<account, answer>> told that the account was opened
          admitted   \* <<account, password>> told that they are logged in

vars == <<account, member, welcomed, admitted>>

Init == /\ account = [e \in Emails |-> NoRow]
        /\ member = {} /\ welcomed = {} /\ admitted = {}

Open(e, p) == /\ account[e] = NoRow
              /\ account' = [account EXCEPT ![e] = p]
              /\ UNCHANGED <<member, welcomed, admitted>>

Enrol(e) == /\ account[e] # NoRow
            /\ member' = member \cup {e}
            /\ UNCHANGED <<account, welcomed, admitted>>

Welcome(e, a) == /\ account[e] # NoRow
                 /\ \A w \in welcomed : w[1] # e
                 /\ welcomed' = welcomed \cup {<<e, a>>}
                 /\ UNCHANGED <<account, member, admitted>>

Admit(e) == /\ account[e] # NoRow /\ e \in member
            /\ admitted' = admitted \cup {<<e, account[e]>>}
            /\ UNCHANGED <<account, member, welcomed>>

Next == \E e \in Emails : \/ \E p \in Passwords : Open(e, p)
                          \/ Enrol(e)
                          \/ \E a \in Answers : Welcome(e, a)
                          \/ Admit(e)

Spec == Init /\ [][Next]_vars
=============================================================================
