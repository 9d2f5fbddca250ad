---------------------------- MODULE PromptLedger ----------------------------
(***************************************************************************)
(* What the hub promises about a prompt that carries a localId, stated     *)
(* without sockets, replays or filters: a prompt is entered once, leaves   *)
(* the queue once, by being stamped or by being deleted, and keeps the     *)
(* stamp it got first; a stamp written for the CLI's acknowledgement is    *)
(* never ahead of the agent.  MessageDelivery implements it.               *)
(***************************************************************************)
CONSTANT Msgs

VARIABLES status,  \* what the messages table says of each prompt
          by,      \* who wrote invoked_at: the first writer
          ran      \* the prompts some agent turn has consumed

ledgerVars == <<status, by, ran>>

Statuses == {"absent", "queued", "invoked", "deleted"}
Writers  == {"nobody", "cli", "sweep", "cancel"}

Init ==
  /\ status = [m \in Msgs |-> "absent"]
  /\ by     = [m \in Msgs |-> "nobody"]
  /\ ran    = {}

Enter(m) ==
  /\ status[m] = "absent"
  /\ status' = [status EXCEPT ![m] = "queued"]
  /\ UNCHANGED <<by, ran>>

Run(S) ==
  /\ \A m \in S : status[m] # "absent"
  /\ ran' = ran \cup S
  /\ UNCHANGED <<status, by>>

Stamp(S, who) ==
  /\ \A m \in S : status[m] = "queued"
  /\ who = "cli" => S \subseteq ran
  /\ status' = [m \in Msgs |-> IF m \in S THEN "invoked" ELSE status[m]]
  /\ by'     = [m \in Msgs |-> IF m \in S THEN who ELSE by[m]]
  /\ UNCHANGED ran

Delete(m) ==
  /\ status[m] = "queued"
  /\ status' = [status EXCEPT ![m] = "deleted"]
  /\ UNCHANGED <<by, ran>>

Next ==
  \/ \E m \in Msgs : Enter(m) \/ Delete(m)
  \/ \E S \in SUBSET Msgs : Run(S) \/ \E who \in Writers \ {"nobody"} : Stamp(S, who)

Spec == Init /\ [][Next]_ledgerVars
=============================================================================
