--------------------------- MODULE MCSessionAlive ---------------------------
(* Small instances of SessionAlive for TLC. *)
EXTENDS SessionAlive

CONSTANTS p1, p2

OnceEach == [f \in Troubles |-> 1]
=============================================================================
