---------------------------- MODULE MCChatServer ----------------------------
(* Client scripts for the runs of ChatServer. *)
EXTENDS ChatServer, TLC

P(type, arg) == [type |-> type, arg |-> arg]
LOGIN == P("LOGIN", <<>>)
REGISTER == P("REGISTER", <<>>)
TEXT == P("TEXT", <<>>)
JOIN(arg) == P("JOIN_ROOM", arg)
LEAVE(r) == P("LEAVE_ROOM", <<r>>)

(* Clients that log in and talk. *)
LoginOnly == {<<LOGIN>>}
LoginTalk == {<<LOGIN, TEXT>>}
(* The same, and clients that join a room with their first packet and leave it. *)
Leavers == LoginTalk \cup {<<JOIN(<<2>>), LEAVE(2)>>}
(* Clients that join the room with their first packet and talk. *)
JoinTalk == {<<JOIN(<<1>>), TEXT>>}
Talker == {<<LOGIN, TEXT, TEXT>>}
(* What the client program sends: login, rooms, texts, leaving. *)
ClientProgram == {<<LOGIN, JOIN(<<2>>), TEXT, LEAVE(2)>>}
(* It, and connections that join rooms with their first packet. *)
Visitors == ClientProgram \cup {<<REGISTER, LOGIN>>,
                               <<JOIN(<<1>>), TEXT, TEXT>>,
                               <<JOIN(<<1, 2>>), TEXT, LEAVE(1)>>,
                               <<JOIN(<<2>>), LEAVE(1)>>,
                               <<JOIN(<<2, 2>>), LEAVE(2)>>}

Symmetry == Permutations(Clients) \cup Permutations(Sockets)
=============================================================================
