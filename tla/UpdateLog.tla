------------------------------ MODULE UpdateLog ------------------------------
(***************************************************************************)
(* What a versioned column promises its writers: the updates that went     *)
(* into it form a log that grows at its end, one update at a time (a       *)
(* retried update may go in again).  Only a log that its writers cannot    *)
(* read is ever replaced, by one that ends with the update of the one who  *)
(* replaced it.  VersionedField implements it.                             *)
(***************************************************************************)
EXTENDS Sequences, SequencesExt

CONSTANTS Jobs, Unreadable

VARIABLE log  \* the updates the column holds, in the order they went in

Init == log = <<>>

Apply(u) == log' = Append(log, u)

Replace(u) == /\ log \in Unreadable
              /\ log' \in Seq(Jobs) /\ log' # <<>> /\ Last(log') = u

Next == \E u \in Jobs : Apply(u) \/ Replace(u)

Spec == Init /\ [][Next]_log
=============================================================================
