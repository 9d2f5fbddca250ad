-------------------------- MODULE MCSessionRunner --------------------------
(* Small instances of SessionRunner. *)
EXTENDS SessionRunner

CONSTANTS r1, p1, p2, c1, c2
=============================================================================
