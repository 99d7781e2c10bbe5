------------------------ MODULE MCConnectionRegistry ------------------------
(* Instances of ConnectionRegistry for TLC. *)
EXTENDS ConnectionRegistry, TLC

CONSTANTS st1, st2, w1, w2, w3, w4

\* Three sockets of the first station, one of the second.
Owners == [s \in Sockets |-> IF s = w4 THEN st2 ELSE st1]
=============================================================================
