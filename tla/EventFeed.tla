----------------------------- MODULE EventFeed -----------------------------
(***************************************************************************)
(* What a subscription to the hub's events promises a browser: it handles  *)
(* the events one by one in the order they were broadcast and leaves none  *)
(* out, unless it is told that there is a gap, and then it knows that it   *)
(* has to read the state again.                                            *)
(***************************************************************************)
EXTENDS Naturals

VARIABLES
  broadcasts,  \* events of the subscription that were broadcast so far
  position,    \* how far the browser is
  told         \* flips when it is told that there is a gap

feed == <<broadcasts, position, told>>

Init ==
  /\ broadcasts = 0 /\ position = 0 /\ told = FALSE

Broadcast ==
  /\ broadcasts' = broadcasts + 1
  /\ UNCHANGED <<position, told>>

HandleNext ==
  /\ position < broadcasts
  /\ position' = position + 1
  /\ UNCHANGED <<broadcasts, told>>

(* A gap is told of, and whatever is left out lies before it. *)
TellGap ==
  /\ told' = ~told
  /\ position' \in position .. broadcasts
  /\ UNCHANGED broadcasts

Next == Broadcast \/ HandleNext \/ TellGap

Spec == Init /\ [][Next]_feed
=============================================================================
