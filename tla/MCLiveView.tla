----------------------------- MODULE MCLiveView -----------------------------
(* Small instances of LiveView. *)
EXTENDS LiveView, TLC

CONSTANTS p1, p2, o1, o2

OutputSymmetry == Permutations(Outputs)

(* told flips and nothing but the feed's promise looks at it. *)
View == <<stream, sent, position, hubRows, window, counters>>
=============================================================================
