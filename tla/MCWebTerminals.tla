--------------------------- MODULE MCWebTerminals ---------------------------
(* Small instances of WebTerminals for TLC. *)
EXTENDS WebTerminals

CONSTANTS t1, t2
=============================================================================
