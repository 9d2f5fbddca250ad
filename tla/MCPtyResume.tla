---------------------------- MODULE MCPtyResume ----------------------------
(* Small instances of PtyResume. *)
EXTENDS PtyResume, TLC

CONSTANTS r1, p1, p2, c1, c2, h1, h2

Symmetric == Permutations(Pids) \cup Permutations(Calls) \cup Permutations(Requests)
=============================================================================
