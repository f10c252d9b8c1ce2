------------------------------ MODULE MCHealth ------------------------------
(* Small instances of Health for TLC. *)
EXTENDS Health

CONSTANTS c1, c2, c3

MCTwo == {c1, c2}
MCThree == {c1, c2, c3}
=============================================================================
