---------------------------- MODULE MCAuthServer ----------------------------
(* What the clients of the runs of AuthServer ask. *)
EXTENDS AuthServer, TLC

CONSTANTS e, p, q

A(type, pw) == [type |-> type, email |-> e, pw |-> pw]
(* Two people claim the same email; one of them logs in.  Some requests    *)
(* cannot be parsed.                                                       *)
Rivals == {A("REGISTER", p), A("REGISTER", q), A("LOGIN", p), A("OTHER", p)}
Logins == {A("LOGIN", p)}

Symmetry == Permutations(Conns)
=============================================================================
