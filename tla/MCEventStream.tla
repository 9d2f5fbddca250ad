--------------------------- MODULE MCEventStream ---------------------------
(* Small instances of EventStream. *)
EXTENDS EventStream, TLC

CONSTANTS e1, e2
=============================================================================
