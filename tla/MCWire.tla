-------------------------------- MODULE MCWire --------------------------------
(* Messages for the run of Wire, with lengths about the limits: a buffer of  *)
(* 24 bytes, a std::string of 8, and 16 values of a byte.                    *)
EXTENDS Wire

M(via, type, letter, msgLength, nameLength) ==
  [via |-> via, type |-> type, msg |-> [i \in 1..msgLength |-> letter],
   name |-> [i \in 1..nameLength |-> 2]]

(* They fill a buffer exactly, exceed it, or exceed twice its size. *)
Sends == {M("send", 6, 15, 5, 3), M("send", 6, 1, 6, 3), M("send", 3, 1, 40, 2)}
(* 4 is the longest name that is not cut; the last but one loses a byte,   *)
(* and the last, of the highest byte, loses three and fills a buffer.      *)
Broadcasts == {M("broadcast", 2, 1, 4, 4), M("broadcast", 1, 14, 0, 4),
               M("broadcast", 2, 1, 5, 1), M("broadcast", 2, 1, 2, 5),
               M("broadcast", 2, 15, 1, 7)}
Traffic == Sends \cup Broadcasts
=============================================================================
