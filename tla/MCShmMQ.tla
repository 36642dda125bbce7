------------------------------ MODULE MCShmMQ -------------------------------
(* Model-checking instances of ShmMQ.  Messages of three, four and five      *)
(* units, header included, in a ring of eight: a record starts and wraps at  *)
(* every place of the ring, inside its header and right before or after it,  *)
(* the ring holds up to two records, and a third is refused for as little as *)
(* one unit.  The longest message does not fit the reader's buffer of two.   *)
EXTENDS ShmMQ

MCShortMessage == {[flow |-> 1, data |-> <<5>>], [flow |-> 2, data |-> <<6, 7>>]}
MCMessage == MCShortMessage \cup {[flow |-> 3, data |-> <<8, 8, 9>>]}
=============================================================================
