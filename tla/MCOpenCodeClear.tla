--------------------------- MODULE MCOpenCodeClear ---------------------------
(* Small instances of OpenCodeClear for TLC. *)
EXTENDS OpenCodeClear

CONSTANTS r1, r2, p1, p2

Budget(f) == [g \in Faults |-> IF g \in f THEN 1 ELSE 0]

OnceEach == Budget(Faults)
=============================================================================
