----------------------------- MODULE MCAgentLoop -----------------------------
(* A small instance of AgentLoop for TLC. *)
EXTENDS AgentLoop

CONSTANTS p1, r1
=============================================================================
