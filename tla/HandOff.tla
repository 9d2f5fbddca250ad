------------------------------- MODULE HandOff -------------------------------
(***************************************************************************)
(* What a clear promises about the sessions that may replace its source:   *)
(* one candidate at a time; each is either given up for good or committed  *)
(* to for good, and only one that is committed to ever takes over.         *)
(***************************************************************************)
CONSTANT Ids
VARIABLE fate

Init == fate = [r \in Ids |-> "unused"]

Alone(r) == \A q \in Ids \ {r} : fate[q] \in {"unused", "given up"}

Moves(r, from, to) == /\ fate[r] \in from /\ Alone(r)
                      /\ fate' = [fate EXCEPT ![r] = to]

Reserve(r)  == Moves(r, {"unused"}, "reserved")
GiveUp(r)   == Moves(r, {"reserved"}, "given up")
Commit(r)   == Moves(r, {"unused", "reserved"}, "committed")
TakeOver(r) == Moves(r, {"committed"}, "taken over")

Next == \E r \in Ids : Reserve(r) \/ GiveUp(r) \/ Commit(r) \/ TakeOver(r)

Spec == Init /\ [][Next]_fate
=============================================================================
