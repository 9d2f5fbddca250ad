---------------------------- MODULE RunnerProofs ----------------------------
(***************************************************************************)
(* Proofs about SessionRunner, for every set of rows, pids and requests,   *)
(* every number of spawns and every number of deaths of the runner, and    *)
(* about PtyResume, which extends it: every step of a resume is a step of  *)
(* the runner or leaves the machine as it is, so what is proved of the     *)
(* runner holds there too.                                                 *)
(***************************************************************************)
EXTENDS PtyResume, TLAPS

(* What the runner tracks is a child it has a handle on, and that child lives. *)
HandlesLive ==
  /\ \A p \in Pids : tracked[p] # "no" => p \in handle
  /\ \A p \in handle : Live(p)
  /\ ~up => handle = {}

(* A process that was written down stays written down until it is gone. *)
RecordsKept ==
  \A p \in Pids : Live(p) /\ proc[p].recorded =>
    records[p] # None /\ records[p].row = proc[p].row /\ records[p].gen = proc[p].gen

(* No row is in the file twice; while a runner lives, the deduplicator holds *)
(* every row of the file, for one child each.                                *)
RowsOnce ==
  \A p, q \in Pids : records[p] # None /\ records[q] # None /\ records[p].row = records[q].row => p = q
RowsHeld ==
  up =>
    /\ \A p \in Pids :
         /\ records[p] # None => childRow[p] = records[p].row
         /\ records[p] # None /\ requestedBy[p] # None => requestedBy[p] = records[p].row
         /\ childRow[p] # None => childAlive[childRow[p]]
    /\ \A p, q \in Pids : childRow[p] # None /\ childRow[p] = childRow[q] => p = q
    /\ \A r \in Rows : childAlive[r] => spawned[r] # "none"

(* A stop that still waits has aimed at the only child of the row there was. *)
StopsAim ==
  \A c \in Calls :
    /\ call[c].since <= gens
    /\ call[c].at = "killing" => call[c].pid # None /\ call[c].row # None
    /\ call[c].at = "killing" /\ call[c].sole =>
         \A p \in Pids : Recorded(p, call[c].row) /\ proc[p].gen <= call[c].since => p = call[c].pid

RunnerInv == TypeOK /\ HandlesLive /\ RecordsKept /\ RowsOnce /\ RowsHeld /\ StopsAim /\ StopIsTruthful

-----------------------------------------------------------------------------
(* Operators the actions share *)

LEMMA AnswerIn ==
  ASSUME NEW k \in Call, NEW out \in {"success", "error", "stopped", "already_gone", "still_alive"}
  PROVE  Answer(k, out) \in Call
BY DEF Answer, Call

(* Requests keep their type when a promise settles or a stop begins. *)
LEMMA SettleType ==
  ASSUME TypeOK, NEW r, NEW out \in {"success", "error"}
  PROVE  Settle(call, r, out) \in [Calls -> Call]
<1>1. \A c \in Calls : call[c] \in Call /\ Answer(call[c], out) \in Call
  BY AnswerIn DEF TypeOK
<1>. QED
  BY <1>1 DEF Settle

LEMMA AnswerType ==
  ASSUME TypeOK, NEW c \in Calls, NEW r \in Rows,
         NEW out \in {"success", "error", "stopped", "already_gone", "still_alive"}
  PROVE  /\ Idle \in Call /\ StopCall(r) \in Call
         /\ Answer(call[c], out) \in Call /\ Answer(StopCall(r), out) \in Call
         /\ Answer([Idle EXCEPT !.row = r], out) \in Call
<1>1. Idle \in Call /\ gens \in 0 .. MaxGen
  BY RunnerAssumption DEF Idle, Call, TypeOK
<1>2. StopCall(r) \in Call
  BY <1>1 DEF StopCall, Idle, Call
<1>3. [Idle EXCEPT !.row = r] \in Call
  BY <1>1 DEF Idle, Call
<1>4. call[c] \in Call
  BY DEF TypeOK
<1>. QED
  BY <1>1, <1>2, <1>3, <1>4, AnswerIn

(* A tracked process lives, so the row it stands for is a row. *)
LEMMA SessionOfType ==
  ASSUME TypeOK, HandlesLive, NEW p \in Pids
  PROVE  SessionOf(p) \in Rows \cup {None}
BY DEF TypeOK, HandlesLive, SessionOf, Live, Process

LEMMA ReleaseType ==
  ASSUME TypeOK, NEW p \in Pids, Release(p)
  PROVE  /\ spawned' \in [Rows -> {"none", "starting", "ok", "failed"}]
         /\ childAlive' \in [Rows -> BOOLEAN]
         /\ childRow' \in [Pids -> Rows \cup {None}]
BY DEF TypeOK, Release

LEMMA ForgottenType ==
  ASSUME TypeOK, NEW p \in Pids, Forgotten(p)
  PROVE  /\ requestedBy' \in [Pids -> Rows \cup {None}]
         /\ records' \in [Pids -> Record \cup {None}]
BY DEF TypeOK, Forgotten

LEMMA ChildExitedType ==
  ASSUME TypeOK, HandlesLive, NEW p \in Pids, ChildExited(p)
  PROVE  /\ requestedBy' \in [Pids -> Rows \cup {None}]
         /\ records' \in [Pids -> Record \cup {None}]
         /\ spawned' \in [Rows -> {"none", "starting", "ok", "failed"}]
         /\ childAlive' \in [Rows -> BOOLEAN]
         /\ childRow' \in [Pids -> Rows \cup {None}]
         /\ exits' \subseteq Rows
         /\ tracked' \in [Pids -> {"no", "waiting", "confirmed"}]
<1>1. SessionOf(p) \in Rows \cup {None}
  BY SessionOfType
<1>2. exits' \subseteq Rows /\ tracked' \in [Pids -> {"no", "waiting", "confirmed"}]
  BY <1>1 DEF TypeOK, ChildExited
<1>3. Release(p) /\ Forgotten(p)
  BY DEF ChildExited
<1>. QED
  BY <1>2, <1>3, ReleaseType, ForgottenType

(* A process that is signalled stays a process. *)
LEMMA DoomedType ==
  ASSUME TypeOK, NEW p \in Pids, Live(p)
  PROVE  [proc EXCEPT ![p].doomed = TRUE] \in [Pids -> Process \cup {None, Stranger}]
<1>1. proc[p] \in Process
  BY DEF TypeOK, Live
<1>2. [proc[p] EXCEPT !.doomed = TRUE] \in Process
  BY <1>1 DEF Process
<1>. QED
  BY <1>2 DEF TypeOK

-----------------------------------------------------------------------------
(* Types *)

LEMMA TypeStep ==
  ASSUME TypeOK, HandlesLive, StopsAim, Next
  PROVE  TypeOK'
<1>. USE RunnerAssumption
<1>1. ASSUME NEW p \in Pids, Webhook(p) PROVE TypeOK'
  <2>. DEFINE r == proc[p].row
              welcome == up /\ tracked[p] # "no"
              awaited == up /\ tracked[p] = "waiting"
  <2>1. proc[p] \in Process /\ r \in Rows
    BY <1>1 DEF Webhook, TypeOK, Live, Process
  <2>2. proc' \in [Pids -> Process \cup {None, Stranger}]
    <3>. DEFINE next == [proc[p] EXCEPT !.told = TRUE, !.doomed = proc[p].doomed \/ (up /\ ~welcome)]
    <3>1. next \in Process
      BY <2>1 DEF Process
    <3>2. proc' = [proc EXCEPT ![p] = next]
      BY <1>1, <2>1 DEF Webhook, TypeOK
    <3>. HIDE DEF next
    <3>. QED
      BY <3>1, <3>2 DEF TypeOK
  <2>3. records' \in [Pids -> Record \cup {None}]
    <3>1. CASE welcome /\ records[p] # None
      <4>1. [records[p] EXCEPT !.confirmed = TRUE] \in Record
        BY <3>1 DEF TypeOK, Record
      <4>2. records' = [records EXCEPT ![p] = [records[p] EXCEPT !.confirmed = TRUE]]
        BY <1>1, <3>1 DEF Webhook, TypeOK
      <4>. QED
        BY <4>1, <4>2 DEF TypeOK
    <3>2. CASE ~(welcome /\ records[p] # None)
      BY <1>1, <3>2 DEF Webhook, TypeOK
    <3>. QED
      BY <3>1, <3>2
  <2>4. call' \in [Calls -> Call]
    BY <1>1, SettleType DEF Webhook, TypeOK
  <2>5. /\ tracked' \in [Pids -> {"no", "waiting", "confirmed"}] /\ exits' \subseteq Rows
        /\ spawned' \in [Rows -> {"none", "starting", "ok", "failed"}]
    BY <1>1, <2>1 DEF Webhook, TypeOK
  <2>. QED
    BY <1>1, <2>2, <2>3, <2>4, <2>5 DEF Webhook, TypeOK
<1>2. ASSUME NEW p \in Pids, WebhookTimeout(p) PROVE TypeOK'
  <2>1. Live(p)
    BY <1>2 DEF WebhookTimeout, HandlesLive
  <2>2. call' \in [Calls -> Call]
    BY <1>2, SettleType DEF WebhookTimeout
  <2>3. proc' \in [Pids -> Process \cup {None, Stranger}]
    BY <1>2, <2>1, DoomedType DEF WebhookTimeout
  <2>. QED
    BY <1>2, <2>2, <2>3 DEF WebhookTimeout, TypeOK
<1>3. ASSUME NEW p \in Pids, OwnExit(p) PROVE TypeOK'
  <2>1. call' \in [Calls -> Call]
    BY <1>3, SettleType DEF OwnExit, TypeOK
  <2>2. ChildExited(p)
    BY <1>3 DEF OwnExit
  <2>. QED
    BY <1>3, <2>1, <2>2, ChildExitedType DEF OwnExit, TypeOK
<1>4. ASSUME NEW p \in Pids, Exit(p) PROVE TypeOK'
  BY <1>4 DEF Exit, TypeOK, memory
<1>5. ASSUME NEW p \in Pids, Reuse(p) PROVE TypeOK'
  BY <1>5 DEF Reuse, TypeOK, memory
<1>6. ASSUME NEW p \in Pids, Prune(p) PROVE TypeOK'
  <2>1. ChildExited(p)
    BY <1>6 DEF Prune
  <2>. QED
    BY <1>6, <2>1, ChildExitedType DEF Prune, TypeOK
<1>7. ASSUME NEW r \in Rows, SpawnFails(r) PROVE TypeOK'
  <2>1. call' \in [Calls -> Call]
    BY <1>7, SettleType DEF SpawnFails
  <2>. QED
    BY <1>7, <2>1 DEF SpawnFails, TypeOK
<1>8. ASSUME NEW r \in Rows, NEW p \in Pids, NEW readable \in BOOLEAN, Start(r, p, readable) PROVE TypeOK'
  <2>1. gens' \in 1 .. MaxGen
    BY <1>8 DEF Start, TypeOK
  <2>2. /\ [row |-> r, gen |-> gens', recorded |-> readable, told |-> FALSE, doomed |-> FALSE] \in Process
        /\ [row |-> r, gen |-> gens', confirmed |-> FALSE] \in Record
    BY <2>1 DEF Process, Record
  <2>. QED
    BY <1>8, <2>1, <2>2 DEF Start, TypeOK
<1>9. ASSUME NEW c \in Calls, NEW r \in Rows, Spawn(c, r) PROVE TypeOK'
  <2>1. [Idle EXCEPT !.at = "held", !.row = r] \in Call
    <3>1. Idle \in Call
      BY AnswerType
    <3>. QED
      BY <3>1 DEF Call
  <2>2. spawned[r] \in {"none", "starting", "ok", "failed"}
    BY DEF TypeOK
  <2>3. call' \in [Calls -> Call]
    BY <1>9, <2>1, <2>2, AnswerType DEF Spawn, TypeOK
  <2>. QED
    BY <1>9, <2>3 DEF Spawn, TypeOK
<1>10. ASSUME NEW c \in Calls, NEW r \in Rows, NEW p \in Pids, NEW known \in BOOLEAN, Live(p),
              StopWaits(c, r, p, known), UNCHANGED <<gens, up, crashes, memory, exits, records>>
       PROVE  TypeOK'
  <2>1. [StopCall(r) EXCEPT !.at = "killing", !.pid = p, !.known = known] \in Call
    <3>1. StopCall(r) \in Call
      BY AnswerType
    <3>. HIDE DEF StopCall
    <3>. QED
      BY <3>1 DEF Call
  <2>2. proc' \in [Pids -> Process \cup {None, Stranger}] /\ call' \in [Calls -> Call]
    BY <1>10, <2>1, DoomedType DEF StopWaits, TypeOK
  <2>. QED
    BY <1>10, <2>2 DEF TypeOK, memory
<1>11. ASSUME NEW c \in Calls, NEW r \in Rows, NEW p \in Pids, StopTracked(c, r, p) PROVE TypeOK'
  <2>1. Live(p)
    BY <1>11 DEF StopTracked, Serves, HandlesLive
  <2>. QED
    BY <1>10, <1>11, <2>1 DEF StopTracked
<1>12. ASSUME NEW c \in Calls, NEW r \in Rows, NEW p \in Pids, StopRecorded(c, r, p) PROVE TypeOK'
  BY <1>10, <1>12 DEF StopRecorded, SameProcess
<1>13. ASSUME NEW c \in Calls, NEW r \in Rows, NEW p \in Pids, StopGone(c, r, p) PROVE TypeOK'
  <2>1. Release(p) /\ Forgotten(p) /\ StopAnswer(c, r, "already_gone")
    BY <1>13 DEF StopGone
  <2>2. call' \in [Calls -> Call]
    BY <2>1, AnswerType DEF StopAnswer, TypeOK
  <2>. QED
    BY <1>13, <2>1, <2>2, ReleaseType, ForgottenType DEF StopGone, TypeOK
<1>14. ASSUME NEW c \in Calls, NEW r \in Rows, NEW out \in {"already_gone", "still_alive"},
              StopAnswer(c, r, out), UNCHANGED runner
       PROVE  TypeOK'
  <2>1. call' \in [Calls -> Call]
    BY <1>14, AnswerType DEF StopAnswer, TypeOK
  <2>. QED
    BY <1>14, <2>1 DEF TypeOK, runner, memory
<1>15. ASSUME NEW c \in Calls, NEW r \in Rows, NEW p \in Pids, StopRefused(c, r, p) PROVE TypeOK'
  BY <1>14, <1>15 DEF StopRefused
<1>16. ASSUME NEW c \in Calls, NEW r \in Rows, StopUnknown(c, r) PROVE TypeOK'
  BY <1>14, <1>16 DEF StopUnknown
<1>17. ASSUME NEW c \in Calls, StopTimeout(c) PROVE TypeOK'
  <2>1. Answer(call[c], "still_alive") \in Call
    BY AnswerIn DEF TypeOK
  <2>2. call' \in [Calls -> Call]
    BY <1>17, <2>1 DEF StopTimeout, TypeOK
  <2>. QED
    BY <1>17, <2>2 DEF StopTimeout, TypeOK, runner, memory
<1>18. ASSUME NEW c \in Calls, StopEnds(c), call[c].pid \in Pids, call[c].row \in Rows PROVE TypeOK'
  <2>0. Answer(call[c], "stopped") \in Call
    BY AnswerIn DEF TypeOK
  <2>1. call' \in [Calls -> Call]
    BY <1>18, <2>0 DEF StopEnds, TypeOK
  <2>2. Forgotten(call[c].pid)
    BY <1>18 DEF StopEnds
  <2>3. CASE call[c].known
    BY <1>18, <2>1, <2>2, <2>3, ForgottenType DEF StopEnds, TypeOK
  <2>4. CASE ~call[c].known
    <3>1. Release(call[c].pid) /\ UNCHANGED tracked
      BY <1>18, <2>4 DEF StopEnds
    <3>. QED
      BY <1>18, <2>1, <2>2, <3>1, ForgottenType, ReleaseType DEF StopEnds, TypeOK
  <2>. QED
    BY <2>3, <2>4
<1>19. ASSUME NEW c \in Calls, Collect(c) PROVE TypeOK'
  <2>1. Idle \in Call
    BY RunnerAssumption DEF Idle, Call
  <2>. QED
    BY <1>19, <2>1 DEF Collect, TypeOK, runner, memory
<1>20. ASSUME Crash PROVE TypeOK'
  <2>1. \A c \in Calls : call[c] \in Call /\ Answer(call[c], "error") \in Call
    BY AnswerIn DEF TypeOK
  <2>2. call' \in [Calls -> Call]
    BY <1>20, <2>1 DEF Crash
  <2>3. crashes' \in 0 .. MaxCrashes
    BY <1>20 DEF Crash, TypeOK
  <2>4. /\ tracked' \in [Pids -> {"no", "waiting", "confirmed"}]
        /\ spawned' \in [Rows -> {"none", "starting", "ok", "failed"}]
        /\ childAlive' \in [Rows -> BOOLEAN]
        /\ requestedBy' \in [Pids -> Rows \cup {None}]
        /\ childRow' \in [Pids -> Rows \cup {None}]
    BY <1>20 DEF Crash
  <2>. QED
    BY <1>20, <2>2, <2>3, <2>4 DEF Crash, TypeOK
<1>21. ASSUME NEW blind \in SUBSET Pids, Recover(blind) PROVE TypeOK'
  <2>1. \A p \in Pids : records[p] # None => records[p].row \in Rows
    BY DEF TypeOK, Record
  <2>2. records' \in [Pids -> Record \cup {None}]
    BY <1>21 DEF Recover, TypeOK
  <2>3. /\ requestedBy' \in [Pids -> Rows \cup {None}]
        /\ childRow' \in [Pids -> Rows \cup {None}]
    BY <1>21, <2>1 DEF Recover, Kept, Verified
  <2>4. /\ spawned' \in [Rows -> {"none", "starting", "ok", "failed"}]
        /\ childAlive' \in [Rows -> BOOLEAN]
    BY <1>21 DEF Recover
  <2>5. exits' \subseteq Rows
    BY <1>21, <2>1 DEF Recover, Exited, TypeOK
  <2>. QED
    BY <1>21, <2>2, <2>3, <2>4, <2>5 DEF Recover, TypeOK
<1>22. ASSUME NEW c \in Calls, StopEnds(c) PROVE TypeOK'
  <2>1. call[c].pid \in Pids /\ call[c].row \in Rows
    BY <1>22 DEF StopEnds, StopsAim, TypeOK, Call
  <2>. QED
    BY <1>18, <1>22, <2>1
<1>23. ASSUME NEW p \in Pids, Reverify(p) PROVE TypeOK'
  <2>1. records[p].row \in Rows
    BY <1>23 DEF Reverify, TypeOK, Record
  <2>. QED
    BY <1>23, <2>1 DEF Reverify, TypeOK
<1>. QED
  BY <1>1, <1>2, <1>3, <1>4, <1>5, <1>6, <1>7, <1>8, <1>9, <1>11, <1>12, <1>13, <1>15, <1>16, <1>17, <1>19, <1>20, <1>21,
     <1>22, <1>23
     DEF Next, Work, ChildStep, SpawnStep, StopStep

-----------------------------------------------------------------------------
(* Handles *)

(* No process appears, and none changes its row, its marker or whether it was *)
(* written down: what every step does but the start of a child.               *)
NoNewChild ==
  \A q \in Pids : Live(q)' =>
    /\ Live(q)
    /\ proc'[q].row = proc[q].row /\ proc'[q].gen = proc[q].gen /\ proc'[q].recorded = proc[q].recorded

LEMMA SignalKeeps ==
  ASSUME TypeOK, NEW p \in Pids, Live(p), proc' = [proc EXCEPT ![p].doomed = TRUE]
  PROVE  NoNewChild /\ \A q \in Pids : Live(q) => Live(q)'
<1>1. proc[p] \in Process /\ [proc[p] EXCEPT !.doomed = TRUE] \in Process
  BY DEF TypeOK, Live, Process
<1>2. ASSUME NEW q \in Pids
      PROVE  /\ Live(q)' <=> Live(q)
             /\ Live(q) => /\ proc'[q].row = proc[q].row /\ proc'[q].gen = proc[q].gen
                           /\ proc'[q].recorded = proc[q].recorded
  <2>1. CASE q = p
    <3>1. proc'[p] = [proc[p] EXCEPT !.doomed = TRUE]
      BY DEF TypeOK
    <3>. QED
      BY <1>1, <2>1, <3>1, RunnerAssumption DEF Live, Process
  <2>2. CASE q # p
    BY <2>2 DEF Live, TypeOK
  <2>. QED
    BY <2>1, <2>2
<1>. QED
  BY <1>2 DEF NoNewChild

LEMMA WebhookKeeps ==
  ASSUME TypeOK, NEW p \in Pids, Webhook(p)
  PROVE  NoNewChild /\ \A q \in Pids : Live(q) => Live(q)'
<1>. DEFINE next(d) == [proc[p] EXCEPT !.told = TRUE, !.doomed = d]
<1>1. PICK d \in BOOLEAN : proc' = [proc EXCEPT ![p] = next(d)]
  <2>1. proc[p] \in Process
    BY DEF Webhook, TypeOK, Live
  <2>. QED
    BY <2>1 DEF Webhook, TypeOK, Process
<1>2. proc[p] \in Process /\ next(d) \in Process
  BY DEF Webhook, TypeOK, Live, Process
<1>3. next(d).row = proc[p].row /\ next(d).gen = proc[p].gen /\ next(d).recorded = proc[p].recorded
  BY <1>2 DEF Process
<1>. HIDE DEF next
<1>4. ASSUME NEW q \in Pids
      PROVE  /\ Live(q)' <=> Live(q)
             /\ Live(q) => /\ proc'[q].row = proc[q].row /\ proc'[q].gen = proc[q].gen
                           /\ proc'[q].recorded = proc[q].recorded
  <2>1. CASE q = p
    <3>1. proc'[p] = next(d)
      BY <1>1 DEF TypeOK
    <3>. QED
      BY <1>2, <1>3, <2>1, <3>1, RunnerAssumption DEF Live
  <2>2. CASE q # p
    BY <1>1, <2>2 DEF Live, TypeOK
  <2>. QED
    BY <2>1, <2>2
<1>. QED
  BY <1>4 DEF NoNewChild

(* Every step but the start of a child. *)
LEMMA OnlyStartSpawns ==
  ASSUME TypeOK, HandlesLive, Next, \A r \in Rows, p \in Pids, readable \in BOOLEAN : ~Start(r, p, readable)
  PROVE  NoNewChild
<1>1. ASSUME NEW p \in Pids, ChildStep(p) PROVE NoNewChild
  <2>1. CASE Webhook(p)
    BY <2>1, WebhookKeeps
  <2>2. CASE WebhookTimeout(p)
    BY <2>2, SignalKeeps DEF WebhookTimeout, HandlesLive
  <2>3. CASE OwnExit(p) \/ Exit(p) \/ Reuse(p) \/ Prune(p) \/ Reverify(p)
    BY <2>3, RunnerAssumption DEF OwnExit, Exit, Reuse, Prune, Reverify, NoNewChild, Live, TypeOK
  <2>. QED
    BY <1>1, <2>1, <2>2, <2>3 DEF ChildStep
<1>2. ASSUME NEW c \in Calls, NEW r \in Rows, StopStep(c, r) PROVE NoNewChild
  <2>1. ASSUME NEW p \in Pids, StopTracked(c, r, p) \/ StopRecorded(c, r, p) PROVE NoNewChild
    <3>1. Live(p) /\ proc' = [proc EXCEPT ![p].doomed = TRUE]
      BY <2>1 DEF StopTracked, StopRecorded, StopWaits, Serves, SameProcess, HandlesLive
    <3>. QED
      BY <3>1, SignalKeeps
  <2>2. ASSUME UNCHANGED proc PROVE NoNewChild
    BY <2>2 DEF NoNewChild, Live
  <2>. QED
    BY <1>2, <2>1, <2>2 DEF StopStep, StopGone, StopRefused, StopUnknown, runner
<1>3. ASSUME UNCHANGED proc PROVE NoNewChild
  BY <1>3 DEF NoNewChild, Live
<1>. QED
  BY <1>1, <1>2, <1>3
     DEF Next, Work, SpawnStep, SpawnFails, Spawn, StopTimeout, StopEnds, Collect, Crash, Recover, runner

LEMMA HandlesStep ==
  ASSUME TypeOK, HandlesLive, Next
  PROVE  HandlesLive'
<1>. USE RunnerAssumption
<1>1. ASSUME NEW p \in Pids, ChildStep(p) PROVE HandlesLive'
  <2>1. CASE Webhook(p)
    <3>1. \A q \in Pids : Live(q) => Live(q)'
      BY <2>1, WebhookKeeps
    <3>2. \A q \in Pids : tracked'[q] # "no" => tracked[q] # "no"
      BY <2>1 DEF Webhook, TypeOK
    <3>. QED
      BY <2>1, <3>1, <3>2 DEF Webhook, HandlesLive, TypeOK
  <2>2. CASE WebhookTimeout(p)
    <3>1. \A q \in Pids : Live(q) => Live(q)'
      BY <2>2, SignalKeeps DEF WebhookTimeout, HandlesLive
    <3>. QED
      BY <2>2, <3>1 DEF WebhookTimeout, HandlesLive, TypeOK
  <2>3. CASE OwnExit(p)
    BY <2>3 DEF OwnExit, ChildExited, HandlesLive, Live, TypeOK
  <2>4. CASE Exit(p) \/ Reuse(p)
    BY <2>4 DEF Exit, Reuse, HandlesLive, Live, TypeOK, memory
  <2>5. CASE Prune(p) \/ Reverify(p)
    BY <2>5 DEF Prune, Reverify, ChildExited, HandlesLive, Live, TypeOK
  <2>. QED
    BY <1>1, <2>1, <2>2, <2>3, <2>4, <2>5 DEF ChildStep
<1>2. ASSUME NEW r \in Rows, SpawnStep(r) PROVE HandlesLive'
  <2>1. CASE SpawnFails(r)
    BY <2>1 DEF SpawnFails, HandlesLive, Live
  <2>2. ASSUME NEW p \in Pids, NEW readable \in BOOLEAN, Start(r, p, readable) PROVE HandlesLive'
    <3>1. [row |-> r, gen |-> gens + 1, recorded |-> readable, told |-> FALSE, doomed |-> FALSE] \in Process
      BY <2>2 DEF Start, TypeOK, Process
    <3>2. Live(p)' /\ \A q \in Pids : Live(q) => Live(q)'
      BY <2>2, <3>1 DEF Start, Live, TypeOK
    <3>. QED
      BY <2>2, <3>2 DEF Start, Pending, HandlesLive, TypeOK
  <2>. QED
    BY <1>2, <2>1, <2>2 DEF SpawnStep
<1>3. ASSUME NEW c \in Calls, NEW r \in Rows, StopStep(c, r) PROVE HandlesLive'
  <2>1. ASSUME NEW p \in Pids, StopTracked(c, r, p) \/ StopRecorded(c, r, p) PROVE HandlesLive'
    <3>1. Live(p) /\ proc' = [proc EXCEPT ![p].doomed = TRUE]
      BY <2>1 DEF StopTracked, StopRecorded, StopWaits, Serves, SameProcess, HandlesLive
    <3>2. \A q \in Pids : Live(q) => Live(q)'
      BY <3>1, SignalKeeps
    <3>. QED
      BY <2>1, <3>2 DEF StopTracked, StopRecorded, memory, HandlesLive, TypeOK
  <2>2. ASSUME UNCHANGED <<proc, handle, tracked, up>> PROVE HandlesLive'
    BY <2>2 DEF HandlesLive, Live
  <2>. QED
    BY <1>3, <2>1, <2>2 DEF StopStep, StopGone, StopRefused, StopUnknown, runner, memory
<1>4. ASSUME NEW c \in Calls, StopEnds(c) PROVE HandlesLive'
  BY <1>4 DEF StopEnds, HandlesLive, Live, TypeOK
<1>5. ASSUME UNCHANGED <<proc, handle, tracked, up>> PROVE HandlesLive'
  BY <1>5 DEF HandlesLive, Live
<1>6. CASE Crash
  BY <1>6 DEF Crash, HandlesLive
<1>7. ASSUME NEW blind \in SUBSET Pids, Recover(blind) PROVE HandlesLive'
  BY <1>7 DEF Recover, HandlesLive, Live
<1>. QED
  BY <1>1, <1>2, <1>3, <1>4, <1>5, <1>6, <1>7 DEF Next, Work, Spawn, StopTimeout, Collect, runner, memory

-----------------------------------------------------------------------------
(* The file *)

(* A pid that counts as gone holds no process that was written down. *)
LEMMA GoneIsGone ==
  ASSUME RecordsKept, NEW p \in Pids, Gone(p)
  PROVE  ~(Live(p) /\ proc[p].recorded)
BY DEF RecordsKept, Gone, SameProcess, Live

(* Steps that leave the rows and markers of the file alone, but for pids *)
(* without a process that was written down.                              *)
FileKept ==
  \A p \in Pids : Live(p)' /\ proc[p].recorded /\ records[p] # None =>
    records'[p] # None /\ records'[p].row = records[p].row /\ records'[p].gen = records[p].gen

LEMMA KeptFile ==
  ASSUME RecordsKept, NoNewChild, FileKept
  PROVE  RecordsKept'
BY DEF RecordsKept, NoNewChild, FileKept, Live

(* Steps after which the file holds some of the entries it held. *)
FewerRecords ==
  \A p \in Pids : records'[p] # None => records[p] # None /\ records'[p].row = records[p].row

LEMMA WebhookRecords ==
  ASSUME TypeOK, NEW p \in Pids, Webhook(p), NEW q \in Pids
  PROVE  /\ (records'[q] # None) <=> (records[q] # None)
         /\ records[q] # None => records'[q].row = records[q].row /\ records'[q].gen = records[q].gen
<1>1. CASE up /\ tracked[p] # "no" /\ records[p] # None /\ q = p
  <2>1. records[p] \in Record /\ [records[p] EXCEPT !.confirmed = TRUE] \in Record
    BY <1>1 DEF TypeOK, Record
  <2>2. records'[p] = [records[p] EXCEPT !.confirmed = TRUE]
    BY <1>1 DEF Webhook, TypeOK
  <2>. QED
    BY <1>1, <2>1, <2>2, RunnerAssumption DEF Record
<1>2. CASE ~(up /\ tracked[p] # "no" /\ records[p] # None /\ q = p)
  BY <1>2 DEF Webhook, TypeOK
<1>. QED
  BY <1>1, <1>2

LEMMA RecordsStep ==
  ASSUME TypeOK, HandlesLive, RecordsKept, StopsAim, Next
  PROVE  RecordsKept'
<1>1. ASSUME NEW r \in Rows, NEW p \in Pids, NEW readable \in BOOLEAN, Start(r, p, readable) PROVE RecordsKept'
  <2>. DEFINE child == [row |-> r, gen |-> gens + 1, recorded |-> readable, told |-> FALSE, doomed |-> FALSE]
              entry == [row |-> r, gen |-> gens + 1, confirmed |-> FALSE]
  <2>1. entry \in Record
    BY <1>1, RunnerAssumption DEF Start, TypeOK, Record
  <2>2. proc' = [proc EXCEPT ![p] = child] /\ records' = IF readable THEN [records EXCEPT ![p] = entry] ELSE records
    BY <1>1 DEF Start
  <2>3. child.recorded = readable /\ child.row = entry.row /\ child.gen = entry.gen /\ entry # None
    BY <2>1, RunnerAssumption
  <2>. HIDE DEF child, entry
  <2>. QED
    BY <2>2, <2>3 DEF RecordsKept, Live, TypeOK
<1>2. ASSUME NoNewChild, \E p \in Pids : ChildStep(p) PROVE RecordsKept'
  <2>. PICK p \in Pids : ChildStep(p)
    BY <1>2
  <2>1. CASE Webhook(p)
    <3>1. FileKept
      BY <2>1, WebhookRecords DEF FileKept
    <3>. QED
      BY <1>2, <3>1, KeptFile
  <2>2. CASE WebhookTimeout(p) \/ Exit(p) \/ Reuse(p) \/ Reverify(p)
    <3>1. FileKept
      BY <2>2 DEF WebhookTimeout, Exit, Reuse, Reverify, FileKept
    <3>. QED
      BY <1>2, <3>1, KeptFile
  <2>3. CASE OwnExit(p) \/ Prune(p)
    <3>1. records' = [records EXCEPT ![p] = None]
      BY <2>3 DEF OwnExit, Prune, ChildExited, Forgotten
    <3>2. ~(Live(p)' /\ proc[p].recorded)
      BY <1>2, <2>3, GoneIsGone DEF OwnExit, Prune, Live, TypeOK, NoNewChild
    <3>3. FileKept
      BY <3>1, <3>2 DEF FileKept, TypeOK
    <3>. QED
      BY <1>2, <3>3, KeptFile
  <2>. QED
    BY <2>1, <2>2, <2>3 DEF ChildStep
<1>3. ASSUME NoNewChild, UNCHANGED records PROVE RecordsKept'
  <2>1. FileKept
    BY <1>3 DEF FileKept
  <2>. QED
    BY <1>3, <2>1, KeptFile
<1>4. ASSUME NoNewChild, NEW p \in Pids, Forgotten(p), UNCHANGED proc, Gone(p) PROVE RecordsKept'
  <2>1. FileKept
    BY <1>4, GoneIsGone DEF Forgotten, FileKept, TypeOK, Live
  <2>. QED
    BY <1>4, <2>1, KeptFile
<1>5. ASSUME NoNewChild, NEW c \in Calls, NEW r \in Rows, StopStep(c, r) PROVE RecordsKept'
  BY <1>3, <1>4, <1>5 DEF StopStep, StopTracked, StopRecorded, StopGone, StopRefused, StopUnknown, runner
<1>6. ASSUME NoNewChild, NEW c \in Calls, StopEnds(c) PROVE RecordsKept'
  <2>1. call[c].pid \in Pids
    BY <1>6 DEF StopEnds, StopsAim, TypeOK, Call
  <2>. QED
    BY <1>4, <1>6, <2>1 DEF StopEnds, Gone
<1>7. ASSUME NoNewChild, NEW blind \in SUBSET Pids, Recover(blind) PROVE RecordsKept'
  <2>1. UNCHANGED proc /\ \A p \in Pids : records'[p] = IF Kept(p, blind) THEN records[p] ELSE None
    BY <1>7 DEF Recover
  <2>2. FileKept
    BY <2>1, GoneIsGone DEF FileKept, Kept, Exited, Live
  <2>. QED
    BY <1>7, <2>2, KeptFile
<1>8. CASE \E r \in Rows, p \in Pids, readable \in BOOLEAN : Start(r, p, readable)
  BY <1>1, <1>8
<1>9. CASE \A r \in Rows, p \in Pids, readable \in BOOLEAN : ~Start(r, p, readable)
  <2>1. NoNewChild
    BY <1>9, OnlyStartSpawns
  <2>. QED
    BY <2>1, <1>2, <1>3, <1>5, <1>6, <1>7, <1>9
       DEF Next, Work, SpawnStep, SpawnFails, Spawn, StopTimeout, Collect, Crash, runner
<1>. QED
  BY <1>8, <1>9

LEMMA RowsOnceStep ==
  ASSUME TypeOK, HandlesLive, RowsOnce, RowsHeld, StopsAim, Next
  PROVE  RowsOnce'
<1>1. ASSUME FewerRecords PROVE RowsOnce'
  BY <1>1 DEF RowsOnce, FewerRecords
<1>2. ASSUME NEW r \in Rows, NEW p \in Pids, NEW readable \in BOOLEAN, Start(r, p, readable) PROVE RowsOnce'
  <2>1. \A q \in Pids : records[q] # None => records[q].row # r
    BY <1>2, RunnerAssumption DEF Start, Pending, RowsHeld, TypeOK
  <2>. QED
    BY <1>2, <2>1 DEF Start, RowsOnce, TypeOK
<1>3. ASSUME NEW p \in Pids, ChildStep(p) PROVE FewerRecords
  <2>1. CASE Webhook(p)
    BY <2>1, WebhookRecords DEF FewerRecords
  <2>2. CASE ~Webhook(p)
    BY <1>3, <2>2 
       DEF ChildStep, WebhookTimeout, OwnExit, Exit, Reuse, Prune, Reverify, ChildExited, Forgotten, FewerRecords, TypeOK
  <2>. QED
    BY <2>1, <2>2
<1>4. ASSUME NEW c \in Calls, NEW r \in Rows, StopStep(c, r) PROVE FewerRecords
  BY <1>4 DEF StopStep, StopTracked, StopRecorded, StopGone, StopRefused, StopUnknown, Forgotten, FewerRecords, TypeOK, runner
<1>5. ASSUME NEW c \in Calls, StopEnds(c) PROVE FewerRecords
  BY <1>5 DEF StopEnds, Forgotten, FewerRecords, TypeOK
<1>6. ASSUME NEW blind \in SUBSET Pids, Recover(blind) PROVE FewerRecords
  BY <1>6 DEF Recover, FewerRecords
<1>7. ASSUME UNCHANGED records PROVE FewerRecords
  BY <1>7 DEF FewerRecords
<1>. QED
  BY <1>1, <1>2, <1>3, <1>4, <1>5, <1>6, <1>7
     DEF Next, Work, SpawnStep, SpawnFails, Spawn, StopTimeout, Collect, Crash, runner

-----------------------------------------------------------------------------
(* The deduplicator *)

LEMMA ReleaseHeld ==
  ASSUME TypeOK, RowsHeld, up, NEW p \in Pids, Release(p), Forgotten(p)
  PROVE  RowsHeld'
<1>. USE RunnerAssumption
<1>1. /\ childRow' = [childRow EXCEPT ![p] = None]
      /\ requestedBy' = [requestedBy EXCEPT ![p] = None]
      /\ records' = [records EXCEPT ![p] = None]
  BY DEF Release, Forgotten
<1>2. \A q \in Pids : childRow'[q] # None => q # p /\ childRow'[q] = childRow[q] /\ childRow[q] # childRow[p]
  BY <1>1 DEF TypeOK, RowsHeld
<1>3. \A q \in Pids : childRow'[q] # None => childAlive'[childRow'[q]]
  BY <1>2 DEF Release, TypeOK, RowsHeld
<1>4. \A r \in Rows : childAlive'[r] => spawned'[r] # "none"
  BY DEF Release, TypeOK, RowsHeld
<1>5. \A q \in Pids : records'[q] # None =>
        /\ childRow'[q] = records'[q].row
        /\ requestedBy'[q] # None => requestedBy'[q] = records'[q].row
  BY <1>1 DEF RowsHeld, TypeOK
<1>6. \A q, t \in Pids : childRow'[q] # None /\ childRow'[q] = childRow'[t] => q = t
  BY <1>2 DEF RowsHeld
<1>. QED
  BY <1>3, <1>4, <1>5, <1>6 DEF RowsHeld

LEMMA HeldStep ==
  ASSUME TypeOK, HandlesLive, RowsOnce, RowsHeld, StopsAim, Next
  PROVE  RowsHeld'
<1>. USE RunnerAssumption
<1>1. ASSUME UNCHANGED <<up, records, childRow, childAlive, requestedBy>>,
             \A r \in Rows : spawned'[r] = "none" => spawned[r] = "none" \/ ~childAlive[r]
      PROVE  RowsHeld'
  BY <1>1 DEF RowsHeld
<1>2. ASSUME NEW r \in Rows, NEW p \in Pids, NEW readable \in BOOLEAN, Start(r, p, readable) PROVE RowsHeld'
  <2>1. \A q \in Pids : childRow[q] # r
    BY <1>2 DEF Start, Pending, RowsHeld, TypeOK
  <2>2. /\ childRow' = [childRow EXCEPT ![p] = r] /\ childAlive' = [childAlive EXCEPT ![r] = TRUE]
        /\ requestedBy' = [requestedBy EXCEPT ![p] = r]
        /\ up /\ up' /\ spawned' = spawned /\ spawned[r] = "starting" /\ records[p] = None
    BY <1>2 DEF Start, Pending, Free
  <2>3. \A q \in Pids : records'[q] # None =>
          (q = p /\ records'[q].row = r) \/ (q # p /\ records'[q] = records[q])
    BY <1>2, <2>2 DEF Start, TypeOK
  <2>4. \A q \in Pids :
          /\ records'[q] # None => childRow'[q] = records'[q].row
          /\ records'[q] # None /\ requestedBy'[q] # None => requestedBy'[q] = records'[q].row
    BY <2>2, <2>3 DEF TypeOK, RowsHeld
  <2>5. \A q \in Pids : childRow'[q] # None => childAlive'[childRow'[q]]
    BY <2>2 DEF TypeOK, RowsHeld
  <2>6. \A q, t \in Pids : childRow'[q] # None /\ childRow'[q] = childRow'[t] => q = t
    BY <2>1, <2>2 DEF TypeOK, RowsHeld
  <2>7. \A x \in Rows : childAlive'[x] => spawned'[x] # "none"
    BY <2>2 DEF TypeOK, RowsHeld
  <2>. QED
    BY <2>4, <2>5, <2>6, <2>7 DEF RowsHeld
<1>3. ASSUME NEW p \in Pids, Webhook(p) PROVE RowsHeld'
  <2>1. proc[p].row \in Rows
    BY <1>3 DEF Webhook, Live, TypeOK, Process
  <2>2. \A r \in Rows : spawned'[r] = "none" => spawned[r] = "none"
    BY <1>3, <2>1 DEF Webhook, TypeOK
  <2>3. UNCHANGED <<up, childRow, childAlive, requestedBy>>
    BY <1>3 DEF Webhook
  <2>4. \A q \in Pids : records'[q] # None => records[q] # None /\ records'[q].row = records[q].row
    BY <1>3, WebhookRecords
  <2>. QED
    BY <2>2, <2>3, <2>4 DEF RowsHeld
<1>4. ASSUME NEW p \in Pids, WebhookTimeout(p) PROVE RowsHeld'
  <2>1. \A r \in Rows : spawned'[r] = "none" => spawned[r] = "none"
    BY <1>4 DEF WebhookTimeout, TypeOK
  <2>. QED
    BY <1>1, <1>4, <2>1 DEF WebhookTimeout
<1>5. ASSUME NEW p \in Pids, OwnExit(p) \/ Prune(p) PROVE RowsHeld'
  BY <1>5, ReleaseHeld DEF OwnExit, Prune, ChildExited
<1>6. ASSUME NEW r \in Rows, SpawnFails(r) PROVE RowsHeld'
  <2>1. \A x \in Rows : spawned'[x] = "none" => spawned[x] = "none" \/ ~childAlive[x]
    BY <1>6 DEF SpawnFails, Pending, TypeOK
  <2>. QED
    BY <1>1, <1>6, <2>1 DEF SpawnFails
<1>7. ASSUME NEW c \in Calls, NEW r \in Rows, Spawn(c, r) PROVE RowsHeld'
  <2>1. \A x \in Rows : spawned'[x] = "none" => spawned[x] = "none"
    BY <1>7 DEF Spawn, TypeOK
  <2>. QED
    BY <1>1, <1>7, <2>1 DEF Spawn
<1>8. ASSUME NEW c \in Calls, NEW r \in Rows, NEW p \in Pids, StopGone(c, r, p) PROVE RowsHeld'
  BY <1>8, ReleaseHeld DEF StopGone
<1>9. ASSUME NEW c \in Calls, StopEnds(c) PROVE RowsHeld'
  <2>1. call[c].pid \in Pids
    BY <1>9 DEF StopEnds, StopsAim, TypeOK, Call
  <2>2. CASE call[c].known
    BY <1>9, <2>1, <2>2 DEF StopEnds, Forgotten, RowsHeld, TypeOK
  <2>3. CASE ~call[c].known
    BY <1>9, <2>1, <2>3, ReleaseHeld DEF StopEnds
  <2>. QED
    BY <2>2, <2>3
<1>10. CASE Crash
  BY <1>10 DEF Crash, RowsHeld
<1>11. ASSUME NEW blind \in SUBSET Pids, Recover(blind) PROVE RowsHeld'
  <2>. DEFINE held == {records[p].row : p \in {q \in Pids : Kept(q, blind)}}
  <2>1. \A p \in Pids : Kept(p, blind) => records[p] # None /\ records[p].row \in Rows
    BY DEF Kept, TypeOK, Record
  <2>2. ASSUME NEW p \in Pids
        PROVE  /\ Kept(p, blind) => records'[p] = records[p] /\ childRow'[p] = records[p].row
               /\ ~Kept(p, blind) => records'[p] = None /\ childRow'[p] = None
               /\ requestedBy'[p] # None => requestedBy'[p] = records[p].row
    <3>. DEFINE kept == {q \in Pids : Kept(q, blind)}
    <3>1. p \in kept <=> Kept(p, blind)
      OBVIOUS
    <3>2. /\ records' = [q \in Pids |-> IF q \in kept THEN records[q] ELSE None]
          /\ childRow' = [q \in Pids |-> IF q \in kept THEN records[q].row ELSE None]
      BY <1>11 DEF Recover
    <3>3. requestedBy' = [q \in Pids |-> IF Verified(q, blind) THEN records[q].row ELSE None]
      BY <1>11 DEF Recover
    <3>. HIDE DEF kept
    <3>4. Kept(p, blind) => records'[p] = records[p] /\ childRow'[p] = records[p].row
      BY <3>1, <3>2
    <3>5. ~Kept(p, blind) => records'[p] = None /\ childRow'[p] = None
      BY <3>1, <3>2
    <3>6. requestedBy'[p] # None => requestedBy'[p] = records[p].row
      BY <3>3
    <3>. QED
      BY <3>4, <3>5, <3>6
  <2>3. \A p \in Pids : Kept(p, blind) => records[p].row \in held
    OBVIOUS
  <2>4. \A r \in Rows : (childAlive'[r] <=> r \in held) /\ (r \in held => spawned'[r] # "none")
    BY <1>11 DEF Recover
  <2>5. \A p \in Pids : childRow'[p] # None => Kept(p, blind) /\ childRow'[p] = records[p].row
    BY <2>2
  <2>6. \A p, q \in Pids : childRow'[p] # None /\ childRow'[p] = childRow'[q] => p = q
    BY <2>1, <2>5 DEF RowsOnce
  <2>7. \A p \in Pids : childRow'[p] # None => childAlive'[childRow'[p]]
    BY <2>1, <2>3, <2>4, <2>5
  <2>8. \A p \in Pids : records'[p] # None => Kept(p, blind) /\ records'[p] = records[p]
    BY <2>2
  <2>9. \A p \in Pids :
          /\ records'[p] # None => childRow'[p] = records'[p].row
          /\ records'[p] # None /\ requestedBy'[p] # None => requestedBy'[p] = records'[p].row
    BY <2>2, <2>8
  <2>. HIDE DEF held
  <2>. QED
    BY <2>4, <2>6, <2>7, <2>9 DEF RowsHeld
<1>12. ASSUME UNCHANGED <<up, records, childRow, childAlive, requestedBy, spawned>> PROVE RowsHeld'
  BY <1>12 DEF RowsHeld
<1>13. ASSUME NEW p \in Pids, Reverify(p) PROVE RowsHeld'
  <2>. DEFINE r == records[p].row
  <2>1. r \in Rows /\ childAlive[r] /\ UNCHANGED <<up, records, childRow>>
    BY <1>13 DEF Reverify, RowsHeld, TypeOK, Record
  <2>2. /\ requestedBy' = [requestedBy EXCEPT ![p] = r]
        /\ childAlive' = [childAlive EXCEPT ![r] = TRUE]
        /\ \E out \in {"ok", "failed"} : spawned' = [spawned EXCEPT ![r] = out]
    BY <1>13 DEF Reverify
  <2>3. childAlive' = childAlive /\ \A x \in Rows : spawned'[x] = "none" => spawned[x] = "none"
    BY <2>1, <2>2 DEF TypeOK
  <2>4. \A q \in Pids : records[q] # None /\ requestedBy'[q] # None => requestedBy'[q] = records[q].row
    <3>. SUFFICES ASSUME NEW q \in Pids, records[q] # None, requestedBy'[q] # None
                  PROVE  requestedBy'[q] = records[q].row
      OBVIOUS
    <3>1. CASE q = p
      BY <2>2, <3>1 DEF TypeOK
    <3>2. CASE q # p
      BY <1>13, <2>2, <3>2 DEF Reverify, TypeOK, RowsHeld
    <3>. QED
      BY <3>1, <3>2
  <2>. QED
    BY <2>1, <2>3, <2>4 DEF RowsHeld
<1>14. ASSUME NEW p \in Pids, ChildStep(p) PROVE RowsHeld'
  <2>1. ASSUME Exit(p) \/ Reuse(p) PROVE RowsHeld'
    BY <1>12, <2>1 DEF Exit, Reuse, runner, memory
  <2>. QED
    BY <1>3, <1>4, <1>5, <1>13, <1>14, <2>1 DEF ChildStep
<1>15. ASSUME NEW r \in Rows, SpawnStep(r) PROVE RowsHeld'
  BY <1>2, <1>6, <1>15 DEF SpawnStep
<1>16. ASSUME NEW c \in Calls, NEW r \in Rows, StopStep(c, r) PROVE RowsHeld'
  <2>1. ASSUME NEW p \in Pids, StopTracked(c, r, p) \/ StopRecorded(c, r, p) \/ StopRefused(c, r, p)
        PROVE  RowsHeld'
    BY <1>12, <2>1 DEF StopTracked, StopRecorded, StopRefused, runner, memory
  <2>2. ASSUME StopUnknown(c, r) PROVE RowsHeld'
    BY <1>12, <2>2 DEF StopUnknown, runner, memory
  <2>. QED
    BY <1>8, <1>16, <2>1, <2>2 DEF StopStep
<1>17. ASSUME NEW c \in Calls, StopTimeout(c) \/ Collect(c) PROVE RowsHeld'
  BY <1>12, <1>17 DEF StopTimeout, Collect, runner, memory
<1>18. ASSUME Work PROVE RowsHeld'
  BY <1>9, <1>10, <1>11, <1>14, <1>15, <1>17, <1>18 DEF Work
<1>. QED
  BY <1>7, <1>16, <1>17, <1>18 DEF Next

-----------------------------------------------------------------------------
(* Stops *)

(* Whoever was written down is known to a stop of its row. *)
LEMMA RecordedIsKnown ==
  ASSUME TypeOK, RecordsKept, RowsHeld, up, NEW r \in Rows, NEW p \in Pids, Recorded(p, r)
  PROVE  p \in Fallback(r)
BY DEF RecordsKept, RowsHeld, Recorded, Fallback, Live

(* What a request stands for, once its stop has begun. *)
Good(k) ==
  /\ k.since <= gens
  /\ k.at = "killing" => k.pid # None /\ k.row # None
  /\ k.at = "killing" /\ k.sole =>
       \A p \in Pids : Recorded(p, k.row) /\ proc[p].gen <= k.since => p = k.pid
  /\ k.at = "answered" /\ k.sole /\ k.out \in {"stopped", "already_gone"} =>
       \A p \in Pids : Recorded(p, k.row) => proc[p].gen > k.since

LEMMA GoodCalls ==
  (\A c \in Calls : Good(call[c])) <=> StopsAim /\ StopIsTruthful
BY DEF Good, StopsAim, StopIsTruthful

(* Without a new child every request keeps what it stands for. *)
LEMMA GoodKept ==
  ASSUME NoNewChild, UNCHANGED gens, NEW k, Good(k)
  PROVE  Good(k)'
<1>1. \A p \in Pids : Recorded(p, k.row)' => Recorded(p, k.row) /\ proc'[p].gen = proc[p].gen
  BY DEF Recorded, NoNewChild
<1>. QED
  BY <1>1 DEF Good

(* An answer that claims nothing about the processes. *)
LEMMA GoodAnswer ==
  ASSUME NEW k \in Call, k.since <= gens', NEW out \in {"success", "error", "still_alive"}
  PROVE  Good(Answer(k, out))'
<1>1. /\ Answer(k, out).at = "answered" /\ Answer(k, out).out = out
      /\ Answer(k, out).since = k.since
  BY DEF Answer, Call
<1>. QED
  BY <1>1 DEF Good

LEMMA GoodIdle ==
  ASSUME TypeOK, NEW r \in Rows, UNCHANGED gens
  PROVE  /\ Good(Idle)' /\ Good([Idle EXCEPT !.at = "held", !.row = r])'
         /\ \A out \in {"success", "error"} : Good(Answer([Idle EXCEPT !.row = r], out))'
BY DEF Good, Idle, Answer, TypeOK

(* What a settled promise does to a request. *)
LEMMA GoodSettle ==
  ASSUME TypeOK, StopsAim, StopIsTruthful, NoNewChild, UNCHANGED gens, NEW r, NEW out \in {"success", "error"},
         NEW c \in Calls, NEW k, k = Settle(call, r, out)[c]
  PROVE  Good(k)'
<1>. SUFFICES ASSUME NEW old, old = call[c] PROVE Good(k)'
  OBVIOUS
<1>1. Good(old)
  BY GoodCalls
<1>2. old \in Call /\ old.since <= gens'
  BY <1>1 DEF TypeOK, Good
<1>3. k = IF old.at = "held" /\ old.row = r THEN Answer(old, out) ELSE old
  BY DEF Settle
<1>4. Good(Answer(old, out))'
  BY <1>2, GoodAnswer
<1>5. Good(old)'
  BY <1>1, GoodKept
<1>. QED
  BY <1>3, <1>4, <1>5

(* It is enough to look at each request. *)
LEMMA GoodEach ==
  ASSUME \A c \in Calls : \A k : k = call'[c] => Good(k)'
  PROVE  StopsAim' /\ StopIsTruthful'
BY DEF Good, StopsAim, StopIsTruthful

(* A stop that begins, or is answered at once. *)
LEMMA StopBegins ==
  ASSUME TypeOK, RecordsKept, RowsHeld, NoNewChild, UNCHANGED gens, up, NEW r \in Rows, NEW p \in Pids,
         p \in Known(r), NEW known \in BOOLEAN,
         NEW k, k = [StopCall(r) EXCEPT !.at = "killing", !.pid = p, !.known = known]
  PROVE  Good(k)'
<1>1. /\ k.at = "killing" /\ k.row = r /\ k.pid = p /\ k.since = gens
      /\ k.sole = \A q, t \in Known(r) : q = t
  BY DEF StopCall, Idle
<1>2. \A q \in Pids : Recorded(q, r)' => q \in Known(r)
  BY RecordedIsKnown DEF Known, NoNewChild, Recorded
<1>3. gens' \in Nat /\ k.since <= gens'
  BY <1>1, RunnerAssumption DEF TypeOK
<1>. QED
  BY <1>1, <1>2, <1>3, RunnerAssumption DEF Good

LEMMA StopFindsNothing ==
  ASSUME TypeOK, RecordsKept, RowsHeld, NoNewChild, UNCHANGED gens, up, NEW r \in Rows,
         NEW out \in {"already_gone", "still_alive"},
         Fallback(r) = {} \/ \E p \in Fallback(r) : Gone(p),
         NEW k, k = Answer(StopCall(r), out)
  PROVE  Good(k)'
<1>1. /\ k.at = "answered" /\ k.row = r /\ k.since = gens
      /\ k.sole = \A q, t \in Known(r) : q = t
  BY DEF StopCall, Idle, Answer
<1>2. \A q \in Pids : Recorded(q, r)' => q \in Fallback(r) /\ ~Gone(q)
  BY RecordedIsKnown, GoneIsGone DEF NoNewChild, Recorded
<1>3. k.sole => \A q \in Pids : ~Recorded(q, r)'
  BY <1>1, <1>2 DEF Known
<1>4. gens' \in Nat /\ k.since <= gens'
  BY <1>1, RunnerAssumption DEF TypeOK
<1>. QED
  BY <1>1, <1>3, <1>4 DEF Good

LEMMA StopsStep ==
  ASSUME TypeOK, HandlesLive, RecordsKept, RowsHeld, StopsAim, StopIsTruthful, Next
  PROVE  StopsAim' /\ StopIsTruthful'
<1>. USE RunnerAssumption
<1>1. ASSUME NEW r \in Rows, NEW p \in Pids, NEW readable \in BOOLEAN, Start(r, p, readable)
      PROVE  StopsAim' /\ StopIsTruthful'
  <2>. SUFFICES ASSUME NEW c \in Calls, NEW k, k = call'[c] PROVE Good(k)'
    BY GoodEach
  <2>1. k = call[c] /\ Good(k) /\ k \in Call /\ gens \in Nat /\ gens' = gens + 1
    BY <1>1, GoodCalls DEF Start, TypeOK
  <2>2. proc'[p].gen = gens + 1 /\ \A q \in Pids \ {p} : proc'[q] = proc[q]
    BY <1>1 DEF Start, TypeOK
  <2>3. \A q \in Pids \ {p} : Recorded(q, k.row)' <=> Recorded(q, k.row)
    BY <2>2 DEF Recorded, Live
  <2>4. k.since \in Nat /\ k.since <= gens
    BY <2>1 DEF Good, Call
  <2>5. k.since <= gens' /\ ~(proc'[p].gen <= k.since) /\ proc'[p].gen > k.since
    BY <2>1, <2>2, <2>4
  <2>. QED
    BY <2>1, <2>2, <2>3, <2>5 DEF Good
<1>2. ASSUME NoNewChild, UNCHANGED <<gens, call>> PROVE StopsAim' /\ StopIsTruthful'
  BY <1>2, GoodCalls, GoodKept, GoodEach
<1>3. ASSUME NoNewChild, UNCHANGED gens, NEW r, NEW out \in {"success", "error"}, call' = Settle(call, r, out)
      PROVE  StopsAim' /\ StopIsTruthful'
  BY <1>3, GoodSettle, GoodEach
<1>4. ASSUME NoNewChild, UNCHANGED gens, NEW c \in Calls, NEW j, Good(j)', call' = [call EXCEPT ![c] = j]
      PROVE  StopsAim' /\ StopIsTruthful'
  <2>. SUFFICES ASSUME NEW d \in Calls, NEW k, k = call'[d] PROVE Good(k)'
    BY GoodEach
  <2>1. k = j \/ k = call[d]
    BY <1>4 DEF TypeOK
  <2>2. k = call[d] => Good(k)
    BY GoodCalls
  <2>. QED
    BY <1>4, <2>1, <2>2, GoodKept
<1>5. ASSUME NoNewChild, NEW p \in Pids, ChildStep(p) PROVE StopsAim' /\ StopIsTruthful'
  BY <1>2, <1>3, <1>5 DEF ChildStep, Webhook, WebhookTimeout, OwnExit, Exit, Reuse, Prune, Reverify
<1>6. ASSUME NoNewChild, NEW r \in Rows, SpawnFails(r) PROVE StopsAim' /\ StopIsTruthful'
  BY <1>3, <1>6 DEF SpawnFails
<1>7. ASSUME NoNewChild, NEW c \in Calls, NEW r \in Rows, Spawn(c, r) PROVE StopsAim' /\ StopIsTruthful'
  <2>1. UNCHANGED gens /\ spawned[r] \in {"none", "starting", "ok", "failed"}
    BY <1>7 DEF Spawn, TypeOK
  <2>2. CASE call' = [call EXCEPT ![c] = [Idle EXCEPT !.at = "held", !.row = r]]
    BY <1>4, <1>7, <2>1, <2>2, GoodIdle
  <2>3. CASE \E out \in {"success", "error"} : call' = [call EXCEPT ![c] = Answer([Idle EXCEPT !.row = r], out)]
    BY <1>4, <1>7, <2>1, <2>3, GoodIdle
  <2>. QED
    BY <1>7, <2>1, <2>2, <2>3 DEF Spawn
<1>8. ASSUME NoNewChild, NEW c \in Calls, NEW r \in Rows, StopStep(c, r) PROVE StopsAim' /\ StopIsTruthful'
  <2>. DEFINE waits(p, known) == [StopCall(r) EXCEPT !.at = "killing", !.pid = p, !.known = known]
              found(out) == Answer(StopCall(r), out)
  <2>1. up /\ UNCHANGED gens
    BY <1>8 DEF StopStep, StopTracked, StopRecorded, StopGone, StopRefused, StopUnknown, runner
  <2>2. ASSUME NEW p \in Known(r), NEW known \in BOOLEAN, call' = [call EXCEPT ![c] = waits(p, known)]
        PROVE  StopsAim' /\ StopIsTruthful'
    <3>1. p \in Pids
      BY DEF Known, Fallback
    <3>. SUFFICES ASSUME NEW j, j = waits(p, known) PROVE StopsAim' /\ StopIsTruthful'
      OBVIOUS
    <3>2. Good(j)'
      BY <1>8, <2>1, <3>1, StopBegins
    <3>. QED
      BY <1>4, <1>8, <2>1, <2>2, <3>2
  <2>3. ASSUME NEW out \in {"already_gone", "still_alive"}, Fallback(r) = {} \/ \E p \in Fallback(r) : Gone(p),
               call' = [call EXCEPT ![c] = found(out)]
        PROVE  StopsAim' /\ StopIsTruthful'
    <3>. SUFFICES ASSUME NEW j, j = found(out) PROVE StopsAim' /\ StopIsTruthful'
      OBVIOUS
    <3>1. Good(j)'
      BY <1>8, <2>1, <2>3, StopFindsNothing
    <3>. QED
      BY <1>4, <1>8, <2>1, <2>3, <3>1
  <2>4. ASSUME call' = [call EXCEPT ![c] = found("still_alive")] PROVE StopsAim' /\ StopIsTruthful'
    <3>. SUFFICES ASSUME NEW j, j = found("still_alive") PROVE StopsAim' /\ StopIsTruthful'
      OBVIOUS
    <3>1. StopCall(r) \in Call /\ StopCall(r).since <= gens'
      <4>1. StopCall(r) \in Call
        BY AnswerType
      <4>2. gens \in Nat /\ StopCall(r).since = gens
        BY DEF StopCall, Idle, TypeOK
      <4>. QED
        BY <2>1, <4>1, <4>2
    <3>. SUFFICES ASSUME NEW old \in Call, old = StopCall(r) PROVE StopsAim' /\ StopIsTruthful'
      BY <3>1
    <3>2. Good(Answer(old, "still_alive"))'
      BY <3>1, GoodAnswer
    <3>. QED
      BY <1>4, <1>8, <2>1, <2>4, <3>2
  <2>5. CASE \E p \in Pids : StopTracked(c, r, p)
    BY <2>2, <2>5 DEF StopTracked, StopWaits, Known
  <2>6. CASE \E p \in Pids : StopRecorded(c, r, p)
    BY <2>2, <2>6 DEF StopRecorded, StopWaits, Known
  <2>7. CASE \E p \in Pids : StopGone(c, r, p)
    BY <2>3, <2>7 DEF StopGone, StopAnswer
  <2>8. CASE \E p \in Pids : StopRefused(c, r, p)
    BY <2>4, <2>8 DEF StopRefused, StopAnswer
  <2>9. CASE StopUnknown(c, r)
    BY <2>3, <2>9 DEF StopUnknown, StopAnswer
  <2>. QED
    BY <1>8, <2>5, <2>6, <2>7, <2>8, <2>9 DEF StopStep
<1>9. ASSUME NoNewChild, NEW c \in Calls, StopTimeout(c) \/ Collect(c) PROVE StopsAim' /\ StopIsTruthful'
  <2>1. UNCHANGED gens
    BY <1>9 DEF StopTimeout, Collect, runner
  <2>2. CASE StopTimeout(c)
    <3>. SUFFICES ASSUME NEW old \in Call, old = call[c] PROVE StopsAim' /\ StopIsTruthful'
      BY DEF TypeOK
    <3>1. old.since <= gens'
      BY <2>1 DEF StopsAim
    <3>2. Good(Answer(old, "still_alive"))'
      BY <3>1, GoodAnswer
    <3>. QED
      BY <1>4, <1>9, <2>1, <2>2, <3>2 DEF StopTimeout
  <2>3. CASE Collect(c)
    <3>. SUFFICES ASSUME NEW j, j = Idle PROVE StopsAim' /\ StopIsTruthful'
      OBVIOUS
    <3>1. Good(j)'
      BY <2>1 DEF Good, Idle, TypeOK
    <3>. QED
      BY <1>4, <1>9, <2>1, <2>3, <3>1 DEF Collect
  <2>. QED
    BY <1>9, <2>2, <2>3
<1>10. ASSUME NoNewChild, NEW c \in Calls, StopEnds(c) PROVE StopsAim' /\ StopIsTruthful'
  <2>. SUFFICES ASSUME NEW old, old = call[c], NEW j, j = Answer(old, "stopped") PROVE StopsAim' /\ StopIsTruthful'
    OBVIOUS
  <2>1. Good(old) /\ old \in Call /\ old.at = "killing" /\ proc[old.pid] = None /\ UNCHANGED gens
    BY <1>10, GoodCalls DEF StopEnds, TypeOK
  <2>2. Good(old)'
    BY <1>10, <2>1, GoodKept
  <2>3. j.at = "answered" /\ j.row = old.row /\ j.since = old.since /\ j.sole = old.sole
    BY <2>1 DEF Answer, Call
  <2>4. \A p \in Pids : Recorded(p, old.row)' => p # old.pid /\ proc'[p].gen \in Nat
    BY <1>10, <2>1 DEF StopEnds, Recorded, Live, TypeOK, Process
  <2>5. old.since \in Nat
    BY <2>1 DEF Call
  <2>6. Good(j)'
    BY <2>1, <2>2, <2>3, <2>4, <2>5 DEF Good
  <2>. QED
    BY <1>4, <1>10, <2>1, <2>6 DEF StopEnds
<1>11. ASSUME NoNewChild, Crash PROVE StopsAim' /\ StopIsTruthful'
  <2>. SUFFICES ASSUME NEW c \in Calls, NEW k, k = call'[c], NEW old, old = call[c] PROVE Good(k)'
    BY GoodEach
  <2>1. Good(old) /\ old \in Call /\ UNCHANGED gens /\ old.since <= gens'
    BY <1>11, GoodCalls DEF Crash, TypeOK, Good
  <2>2. k = Answer(old, "error") \/ k = old
    BY <1>11 DEF Crash
  <2>3. Good(Answer(old, "error"))' /\ Good(old)'
    BY <1>11, <2>1, GoodKept, GoodAnswer
  <2>. QED
    BY <2>2, <2>3
<1>12. CASE \E r \in Rows, p \in Pids, readable \in BOOLEAN : Start(r, p, readable)
  BY <1>1, <1>12
<1>13. CASE \A r \in Rows, p \in Pids, readable \in BOOLEAN : ~Start(r, p, readable)
  <2>1. NoNewChild
    BY <1>13, OnlyStartSpawns
  <2>. QED
    BY <2>1, <1>2, <1>5, <1>6, <1>7, <1>8, <1>9, <1>10, <1>11, <1>13 DEF Next, Work, SpawnStep, Recover
<1>. QED
  BY <1>12, <1>13

-----------------------------------------------------------------------------
(* The invariant *)

LEMMA RunnerInit == Init => RunnerInv
<1>. SUFFICES ASSUME Init PROVE RunnerInv
  OBVIOUS
<1>. USE RunnerAssumption
<1>1. TypeOK
  BY DEF Init, TypeOK, Idle, Process, Call
<1>2. HandlesLive /\ RecordsKept
  <2>1. PICK first \in Pids \cup {None}, r \in Rows :
          /\ proc = [p \in Pids |->
               IF p = first THEN [row |-> r, gen |-> 1, recorded |-> FALSE, told |-> TRUE, doomed |-> FALSE]
               ELSE None]
          /\ handle = {first} \ {None}
          /\ tracked = [p \in Pids |-> IF p = first THEN "confirmed" ELSE "no"]
          /\ gens = IF first = None THEN 0 ELSE 1
    BY DEF Init
  <2>2. ASSUME NEW p \in Pids
        PROVE  /\ tracked[p] # "no" => p \in handle
               /\ Live(p) => p \in handle /\ ~proc[p].recorded
    BY <2>1 DEF Live
  <2>3. \A p \in handle : Live(p)
    <3>. SUFFICES ASSUME NEW p \in handle PROVE Live(p)
      OBVIOUS
    <3>1. p = first /\ p \in Pids /\ 1 \in 1 .. MaxGen
      BY <2>1 DEF Init
    <3>2. [row |-> r, gen |-> 1, recorded |-> FALSE, told |-> TRUE, doomed |-> FALSE] \in Process
      BY <3>1 DEF Process
    <3>3. proc[p] \in Process
      BY <2>1, <3>1, <3>2
    <3>. QED
      BY <3>3 DEF Live
  <2>. QED
    BY <2>2, <2>3 DEF Init, HandlesLive, RecordsKept
<1>3. RowsOnce /\ RowsHeld
  BY DEF Init, RowsOnce, RowsHeld
<1>4. StopsAim /\ StopIsTruthful
  BY <1>1 DEF Init, StopsAim, StopIsTruthful, Idle, TypeOK
<1>. QED
  BY <1>1, <1>2, <1>3, <1>4 DEF RunnerInv

LEMMA RunnerNext == RunnerInv /\ [Next]_vars => RunnerInv'
<1>. SUFFICES ASSUME RunnerInv, [Next]_vars PROVE RunnerInv'
  OBVIOUS
<1>1. CASE Next
  BY <1>1, TypeStep, HandlesStep, RecordsStep, RowsOnceStep, HeldStep, StopsStep DEF RunnerInv
<1>2. CASE UNCHANGED vars
  <2>1. TypeOK' /\ HandlesLive' /\ RecordsKept' /\ RowsOnce'
    BY <1>2 DEF RunnerInv, vars, runner, memory, TypeOK, HandlesLive, RecordsKept, RowsOnce, Live
  <2>2. RowsHeld'
    BY <1>2 DEF RunnerInv, vars, runner, memory, RowsHeld
  <2>3. StopsAim' /\ StopIsTruthful'
    BY <1>2 DEF RunnerInv, vars, runner, memory, StopsAim, StopIsTruthful, Recorded, Live
  <2>. QED
    BY <2>1, <2>2, <2>3 DEF RunnerInv
<1>. QED
  BY <1>1, <1>2

-----------------------------------------------------------------------------
(* What a step does to the requests, for those who make them. *)

(* An answer is about the row that was asked for. *)
LEMMA AnswerKeeps ==
  ASSUME NEW k \in Call, NEW out
  PROVE  Answer(k, out).at = "answered" /\ Answer(k, out).row = k.row
BY DEF Answer, Call

(* The runner on its own neither forgets a request nor makes one. *)
LEMMA WorkKeepsRequests ==
  ASSUME TypeOK, Work, NEW c \in Calls
  PROVE  /\ call'[c].at = "idle" <=> call[c].at = "idle"
         /\ call'[c].row = call[c].row
<1>. DEFINE kept == /\ call'[c].at = "idle" <=> call[c].at = "idle"
                    /\ call'[c].row = call[c].row
<1>. HIDE DEF kept
<1>1. call[c] \in Call /\ \A out : Answer(call[c], out).at = "answered" /\ Answer(call[c], out).row = call[c].row
  BY AnswerKeeps DEF TypeOK
<1>2. ASSUME NEW r, NEW out, call' = Settle(call, r, out) PROVE kept
  BY <1>1, <1>2 DEF kept, Settle
<1>3. ASSUME UNCHANGED call PROVE kept
  BY <1>3 DEF kept
<1>4. ASSUME NEW d \in Calls, NEW out, call[d].at # "idle", call' = [call EXCEPT ![d] = Answer(call[d], out)]
      PROVE  kept
  BY <1>1, <1>4 DEF kept, TypeOK
<1>5. ASSUME NEW p \in Pids, ChildStep(p) PROVE kept
  BY <1>2, <1>3, <1>5 DEF ChildStep, Webhook, WebhookTimeout, OwnExit, Exit, Reuse, Prune, Reverify
<1>6. ASSUME NEW r \in Rows, SpawnStep(r) PROVE kept
  BY <1>2, <1>3, <1>6 DEF SpawnStep, SpawnFails, Start
<1>7. ASSUME NEW d \in Calls, StopTimeout(d) \/ StopEnds(d) PROVE kept
  BY <1>4, <1>7 DEF StopTimeout, StopEnds
<1>8. ASSUME Crash PROVE kept
  BY <1>1, <1>8 DEF Crash, kept
<1>9. ASSUME NEW blind, Recover(blind) PROVE kept
  BY <1>3, <1>9 DEF Recover
<1>. QED
  BY <1>5, <1>6, <1>7, <1>8, <1>9 DEF Work, kept

(* A request is made with a call that is free, and for its row. *)
LEMMA AskingTakesCall ==
  ASSUME TypeOK, NEW c \in Calls, NEW r \in Rows, Spawn(c, r) \/ StopStep(c, r)
  PROVE  /\ call[c].at = "idle" /\ call'[c].at # "idle" /\ call'[c].row = r
         /\ \A d \in Calls \ {c} : call'[d] = call[d]
<1>1. Idle \in Call /\ [Idle EXCEPT !.row = r] \in Call /\ StopCall(r) \in Call
  <2>1. Idle \in Call /\ StopCall(r) \in Call
    BY AnswerType
  <2>2. [Idle EXCEPT !.row = r] \in Call
    BY <2>1 DEF Call
  <2>. QED
    BY <2>1, <2>2
<1>2. [Idle EXCEPT !.row = r].row = r /\ StopCall(r).row = r
  BY DEF Idle, StopCall
<1>3. ASSUME NEW k, k.at # "idle", k.row = r, call' = [call EXCEPT ![c] = k]
      PROVE  /\ call'[c].at # "idle" /\ call'[c].row = r
             /\ \A d \in Calls \ {c} : call'[d] = call[d]
  BY <1>3 DEF TypeOK
<1>4. ASSUME NEW out
      PROVE  LET k == Answer([Idle EXCEPT !.row = r], out) IN k.at # "idle" /\ k.row = r
  BY <1>1, <1>2, AnswerKeeps
<1>5. ASSUME NEW out
      PROVE  LET k == Answer(StopCall(r), out) IN k.at # "idle" /\ k.row = r
  BY <1>1, <1>2, AnswerKeeps
<1>6. CASE Spawn(c, r)
  <2>. DEFINE held == [Idle EXCEPT !.at = "held", !.row = r]
  <2>1. held.at # "idle" /\ held.row = r
    BY DEF Idle
  <2>. HIDE DEF held
  <2>2. spawned[r] \in {"none", "starting", "ok", "failed"}
    BY DEF TypeOK
  <2>3. \/ call' = [call EXCEPT ![c] = held]
        \/ \E out : call' = [call EXCEPT ![c] = Answer([Idle EXCEPT !.row = r], out)]
    BY <1>6, <2>2 DEF Spawn, held
  <2>. QED
    BY <1>3, <1>4, <1>6, <2>1, <2>3 DEF Spawn
<1>7. ASSUME NEW p, NEW known, StopWaits(c, r, p, known)
      PROVE  /\ call'[c].at # "idle" /\ call'[c].row = r
             /\ \A d \in Calls \ {c} : call'[d] = call[d]
  <2>. DEFINE k == [StopCall(r) EXCEPT !.at = "killing", !.pid = p, !.known = known]
  <2>1. k.at # "idle" /\ k.row = r
    BY <1>1, <1>2 DEF Call
  <2>. HIDE DEF k
  <2>2. call' = [call EXCEPT ![c] = k]
    BY <1>7 DEF StopWaits, k
  <2>. QED
    BY <1>3, <2>1, <2>2
<1>8. ASSUME NEW out, StopAnswer(c, r, out)
      PROVE  /\ call'[c].at # "idle" /\ call'[c].row = r
             /\ \A d \in Calls \ {c} : call'[d] = call[d]
  BY <1>3, <1>5, <1>8 DEF StopAnswer
<1>9. CASE StopStep(c, r)
  BY <1>7, <1>8, <1>9 DEF StopStep, StopTracked, StopRecorded, StopGone, StopRefused, StopUnknown
<1>. QED
  BY <1>6, <1>9

-----------------------------------------------------------------------------
(* Every variable of the runner, the file and the requests keeps its type. *)
THEOREM RunnerTypes == Spec => []TypeOK
<1>1. RunnerInv => TypeOK
  BY DEF RunnerInv
<1>. QED
  BY RunnerInit, RunnerNext, <1>1, PTL DEF Spec

(* At most one child that was written down serves a row, whatever the order of *)
(* spawns, webhooks, timeouts, exits, stops, deaths of the runner and failed   *)
(* probes: the deduplicator and the file together are enough.                  *)
THEOREM OneRecordedChildAlways == Spec => []OneRecordedChild
<1>1. RunnerInv => OneRecordedChild
  <2>1. ASSUME RunnerInv, NEW r \in Rows, NEW p \in Pids, NEW q \in Pids, Recorded(p, r), Recorded(q, r)
        PROVE  p = q
    BY <2>1 DEF RunnerInv, RecordsKept, RowsOnce, Recorded
  <2>. QED
    BY <2>1 DEF OneRecordedChild
<1>. QED
  BY RunnerInit, RunnerNext, <1>1, PTL DEF Spec

(* A stop that was answered stopped or already_gone left no child of its row *)
(* that was written down, if the runner knew one process of the row.         *)
THEOREM StopsAreTruthful == Spec => []StopIsTruthful
<1>1. RunnerInv => StopIsTruthful
  BY DEF RunnerInv
<1>. QED
  BY RunnerInit, RunnerNext, <1>1, PTL DEF Spec

-----------------------------------------------------------------------------
(* The resume of a PTY session *)

(* The steps the machine takes on its own are steps of the runner. *)
LEMMA MachineWorks ==
  ASSUME MachineStep
  PROVE  Work
<1>1. CASE \E p \in Pids : Webhook(p) \/ WebhookTimeout(p) \/ Prune(p) \/ OwnExit(p) \/ Exit(p)
  BY <1>1 DEF Work, ChildStep
<1>2. CASE SpawnFails(Row) \/ \E p \in Pids : Start(Row, p, TRUE)
  BY <1>2, ResumeAssumption DEF Work, SpawnStep
<1>3. CASE Crash \/ Recover({}) \/ \E c \in Calls : StopTimeout(c) \/ StopEnds(c)
  BY <1>3 DEF Work
<1>. QED
  BY <1>1, <1>2, <1>3 DEF MachineStep

-----------------------------------------------------------------------------
(* The invariant *)

(* What the hub keeps in memory and in the row. *)
HubTypes ==
  /\ phase \in [Pids -> {"running", "ready", "leaving"}]
  /\ ends \subseteq 1 .. MaxGen /\ before \in 0 .. MaxGen
  /\ active \in BOOLEAN /\ ready \in BOOLEAN /\ attempt \in BOOLEAN /\ inFlight \in BOOLEAN
  /\ quarantined \in BOOLEAN /\ fresh \in BOOLEAN /\ overlooked \in BOOLEAN
  /\ req \in [Requests -> [at : Stages, call : Calls \cup {None}]]
  /\ \A h \in Requests : req[h].call \in Calls <=> req[h].at \in Waiting
  /\ resumes \in 0 .. MaxResumes /\ troubles \in 0 .. MaxTroubles

(* At most one resume has asked for a process, exactly while one is said to be *)
(* in flight, and the ready bit it may find was said since it began.           *)
OneAsks ==
  /\ \A g, h \in Requests : Asked(g) /\ Asked(h) => g = h
  /\ inFlight <=> \E h \in Requests : Asked(h)
  /\ inFlight /\ ready => fresh

(* A resume that waits for the runner has a call of its own, and it is about *)
(* the row.                                                                  *)
CallsHeld ==
  /\ \A h \in Requests : req[h].call \in Calls =>
       call[req[h].call].at # "idle" /\ call[req[h].call].row = Row
  /\ \A g, h \in Requests : req[g].call \in Calls /\ req[g].call = req[h].call => g = h

ResumeInv == RunnerInv /\ HubTypes /\ OneAsks /\ CallsHeld

-----------------------------------------------------------------------------
(* Steps of a resume, by what they do *)

(* The resume goes to another stage; what is in flight follows. *)
StageMoves(h) ==
  \E at \in Stages, c \in Calls \cup {None} :
    /\ req' = [req EXCEPT ![h] = [at |-> at, call |-> c]]
    /\ c \in Calls <=> at \in Waiting
    /\ \/ inFlight' = inFlight /\ (at \in Asking <=> Asked(h))
       \/ inFlight' = FALSE /\ at \notin Asking /\ (Asked(h) \/ ~inFlight)
       \/ inFlight' = TRUE /\ at \in Asking /\ ~inFlight /\ ready' = FALSE

(* What it does to the row and to the rest of the hub's memory. *)
RowMoves ==
  /\ active' \in BOOLEAN /\ ready' \in BOOLEAN /\ attempt' \in BOOLEAN
  /\ quarantined' \in BOOLEAN /\ fresh' \in BOOLEAN /\ overlooked' \in BOOLEAN
  /\ before' \in 0 .. MaxGen
  /\ resumes' \in 0 .. MaxResumes /\ troubles' \in 0 .. MaxTroubles
  /\ ready' => ready /\ fresh' = fresh

(* What it does to the calls of the runner. *)
CallMoves(h) ==
  \/ \E c \in Calls : /\ StopStep(c, Row) \/ Spawn(c, Row)
                      /\ req'[h].call = c
  \/ req[h].call \in Calls /\ Collect(req[h].call) /\ req'[h].call \notin Calls
  \/ UNCHANGED <<runner, call>> /\ req'[h].call \notin Calls

LEMMA StageIsTyped ==
  ASSUME HubTypes, NEW h \in Requests
  PROVE  req[h].at \in Stages /\ req[h].call \in Calls \cup {None} /\ (Asked(h) <=> req[h].at \in Asking)
BY DEF HubTypes, Asked

(* Moves and Over, in the form StageMoves asks for. *)
LEMMA MovesOne ==
  ASSUME HubTypes, NEW h \in Requests, NEW at \in Stages, NEW c \in Calls \cup {None}, Moves(h, at, c),
         c \in Calls <=> at \in Waiting,
         \/ inFlight' = inFlight /\ (at \in Asking <=> Asked(h))
         \/ inFlight' = FALSE /\ at \notin Asking /\ (Asked(h) \/ ~inFlight)
         \/ inFlight' = TRUE /\ at \in Asking /\ ~inFlight /\ ready' = FALSE
  PROVE  StageMoves(h) /\ req'[h].call = c
BY DEF Moves, StageMoves, HubTypes

LEMMA OverOne ==
  ASSUME HubTypes, NEW h \in Requests, Over(h), Asked(h) \/ ~inFlight
  PROVE  StageMoves(h) /\ req'[h].call = None
<1>1. Moves(h, "idle", None) /\ inFlight' = FALSE
  BY DEF Over, Quiet, Moves
<1>2. "idle" \in Stages /\ "idle" \notin Asking /\ "idle" \notin Waiting /\ None \notin Calls
  BY ResumeAssumption DEF Stages, Asking, Waiting
<1>. QED
  BY <1>1, <1>2, MovesOne

(* Trouble, and the writes that it may spoil. *)
LEMMA TroubleBounds ==
  ASSUME HubTypes
  PROVE  /\ UNCHANGED bounds => resumes' \in 0 .. MaxResumes /\ troubles' \in 0 .. MaxTroubles
         /\ Trouble => resumes' \in 0 .. MaxResumes /\ troubles' \in 0 .. MaxTroubles
BY ResumeAssumption DEF HubTypes, bounds, Trouble

LEMMA ClearWrites ==
  ASSUME HubTypes, NEW q \in BOOLEAN, Clear(q)
  PROVE  /\ attempt' \in BOOLEAN /\ quarantined' \in BOOLEAN
         /\ resumes' \in 0 .. MaxResumes /\ troubles' \in 0 .. MaxTroubles
<1>1. CASE attempt' = FALSE /\ quarantined' = q /\ UNCHANGED bounds
  BY <1>1, TroubleBounds
<1>2. CASE Trouble /\ quarantined' = TRUE /\ UNCHANGED attempt
  BY <1>2, TroubleBounds DEF HubTypes
<1>. QED
  BY <1>1, <1>2 DEF Clear

LEMMA ClearGoneMoves ==
  ASSUME HubTypes, NEW q \in BOOLEAN, ClearGone(q), UNCHANGED <<before, fresh>>, overlooked' \in BOOLEAN
  PROVE  RowMoves
<1>1. Clear(q) /\ active' = FALSE /\ ready' = (ready /\ ~active)
  BY DEF ClearGone
<1>. QED
  BY <1>1, ClearWrites DEF RowMoves, HubTypes

LEMMA QuarantineMoves ==
  ASSUME HubTypes, Quarantine, UNCHANGED history
  PROVE  RowMoves
<1>1. UNCHANGED <<active, ready>> /\ quarantined' = TRUE
  BY DEF Quarantine
<1>2. CASE attempt' = TRUE /\ UNCHANGED bounds
  BY <1>1, <1>2, TroubleBounds DEF RowMoves, HubTypes, history
<1>3. CASE Trouble /\ UNCHANGED attempt
  BY <1>1, <1>3, TroubleBounds DEF RowMoves, HubTypes, history
<1>. QED
  BY <1>2, <1>3 DEF Quarantine

LEMMA NothingMoves ==
  ASSUME HubTypes, UNCHANGED <<session, before, fresh, bounds>>, quarantined' \in BOOLEAN, overlooked' \in BOOLEAN
  PROVE  RowMoves
BY TroubleBounds DEF RowMoves, HubTypes, session

(* A resume that begins: no other one is in flight. *)
LEMMA BeginMoves ==
  ASSUME HubTypes, TypeOK, NEW h \in Requests, ~inFlight, Begin(h)
  PROVE  StageMoves(h) /\ RowMoves /\ CallMoves(h)
<1>1. RowMoves
  <2>1. resumes < MaxResumes /\ resumes' = resumes + 1 /\ troubles' = troubles
    BY DEF Begin
  <2>2. resumes' \in 0 .. MaxResumes /\ troubles' \in 0 .. MaxTroubles
    BY <2>1, ResumeAssumption DEF HubTypes
  <2>3. /\ attempt' = TRUE /\ ready' = FALSE /\ fresh' = FALSE /\ overlooked' = FALSE /\ before' = gens
        /\ UNCHANGED <<active, quarantined>>
    BY DEF Begin
  <2>4. gens \in 0 .. MaxGen
    BY DEF TypeOK
  <2>. QED
    BY <2>2, <2>3, <2>4 DEF RowMoves, HubTypes
<1>2. CASE up
  <2>1. PICK c \in Calls : Spawn(c, Row) /\ Moves(h, "spawning", c)
    BY <1>2 DEF Begin
  <2>2. "spawning" \in Stages /\ "spawning" \in Asking /\ "spawning" \in Waiting
    BY DEF Stages, Asking, Waiting
  <2>3. inFlight' = TRUE /\ ready' = FALSE
    BY <1>2 DEF Begin
  <2>4. StageMoves(h) /\ req'[h].call = c
    BY <2>1, <2>2, <2>3, MovesOne
  <2>. QED
    BY <1>1, <2>1, <2>4 DEF CallMoves
<1>3. CASE ~up
  <2>1. Over(h) /\ UNCHANGED <<runner, call>>
    BY <1>3 DEF Begin
  <2>2. StageMoves(h) /\ req'[h].call = None
    BY <2>1, OverOne
  <2>. QED
    BY <1>1, <2>1, <2>2, ResumeAssumption DEF CallMoves
<1>. QED
  BY <1>2, <1>3

(* A stop is asked for by a resume that is in the same state of asking before and after. *)
LEMMA StopMoves ==
  ASSUME HubTypes, NEW h \in Requests, NEW at \in Waiting, Stop(h, at), UNCHANGED inFlight, at \in Asking <=> Asked(h)
  PROVE  StageMoves(h) /\ CallMoves(h)
<1>1. PICK c \in Calls : StopStep(c, Row) /\ Moves(h, at, c)
  BY DEF Stop
<1>2. at \in Stages
  BY DEF Waiting, Stages, Asking
<1>3. StageMoves(h) /\ req'[h].call = c
  BY <1>1, <1>2, MovesOne
<1>. QED
  BY <1>1, <1>3 DEF CallMoves

LEMMA HearsMoves ==
  ASSUME HubTypes, NEW h \in Requests, req[h].at \in Waiting, Hears(h), req'[h].call = None
  PROVE  CallMoves(h)
BY ResumeAssumption DEF HubTypes, Hears, CallMoves

-----------------------------------------------------------------------------
LEMMA ResumeMoves ==
  ASSUME HubTypes, OneAsks, TypeOK, NEW h \in Requests, ResumeStep(h)
  PROVE  StageMoves(h) /\ RowMoves /\ CallMoves(h)
<1>. USE DEF Stages, Asking, Waiting, Asked
<1>0. /\ None \notin Calls
      /\ Asked(h) => inFlight
      /\ quarantined \in BOOLEAN
  BY ResumeAssumption DEF OneAsks, HubTypes
<1>00. /\ UNCHANGED history => overlooked' \in BOOLEAN /\ UNCHANGED <<before, fresh>>
       /\ UNCHANGED overlooked => overlooked' \in BOOLEAN
       /\ Settled(Covers(h)) \/ Settled(FALSE) => overlooked' \in BOOLEAN
  BY DEF HubTypes, history, Settled
<1>1. CASE Resume(h)
  BY <1>1, BeginMoves DEF Resume, Refused
<1>2. CASE Reconcile(h)
  <2>1. StageMoves(h) /\ CallMoves(h)
    BY <1>2, StopMoves DEF Reconcile
  <2>2. RowMoves
    BY <1>0, <1>00, <1>2, NothingMoves DEF Reconcile
  <2>. QED
    BY <2>1, <2>2
<1>3. CASE Reconciled(h)
  <2>1. PICK at \in {"idle", "settled"} : Moves(h, at, None)
    BY <1>3 DEF Reconciled
  <2>2. StageMoves(h) /\ req'[h].call = None
    BY <1>0, <1>00, <1>3, <2>1, MovesOne DEF Reconciled
  <2>3. CallMoves(h)
    BY <1>3, <2>2, HearsMoves DEF Reconciled
  <2>4. RowMoves
    BY <1>0, <1>00, <1>3, ClearGoneMoves, NothingMoves DEF Reconciled
  <2>. QED
    BY <2>2, <2>3, <2>4
<1>4. CASE ResumeSettled(h)
  <2>1. CASE ~inFlight /\ ~active /\ Begin(h)
    BY <2>1, BeginMoves
  <2>2. CASE /\ Moves(h, "idle", None)
             /\ UNCHANGED <<runner, call, session, inFlight, quarantined, history, bounds>>
    <3>1. StageMoves(h) /\ req'[h].call = None
      BY <1>0, <1>00, <1>4, <2>2, MovesOne DEF ResumeSettled
    <3>2. RowMoves
      BY <1>0, <1>00, <2>2, NothingMoves
    <3>. QED
      BY <1>0, <1>00, <2>2, <3>1, <3>2 DEF CallMoves
  <2>. QED
    BY <1>4, <2>1, <2>2 DEF ResumeSettled
<1>5. CASE Spawned(h)
  <2>1. RowMoves
    BY <1>0, <1>00, <1>5, NothingMoves DEF Spawned
  <2>2. StageMoves(h) /\ req'[h].call = None
    <3>1. CASE Moves(h, "activating", None) /\ UNCHANGED inFlight
      BY <1>0, <1>00, <1>5, <3>1, MovesOne DEF Spawned
    <3>2. CASE Over(h)
      BY <1>5, <3>2, OverOne DEF Spawned
    <3>. QED
      BY <1>5, <3>1, <3>2 DEF Spawned
  <2>3. CASE Hears(h)
    BY <1>5, <2>1, <2>2, <2>3, HearsMoves DEF Spawned
  <2>4. CASE UNCHANGED <<runner, call>>
    BY <1>0, <1>00, <2>1, <2>2, <2>4 DEF CallMoves
  <2>. QED
    BY <1>5, <2>3, <2>4 DEF Spawned
<1>6. CASE Activated(h)
  <2>1. StageMoves(h) /\ req'[h].call = None
    BY <1>0, <1>00, <1>6, MovesOne DEF Activated
  <2>2. RowMoves
    BY <1>0, <1>00, <1>6, NothingMoves DEF Activated
  <2>. QED
    BY <1>0, <1>00, <1>6, <2>1, <2>2 DEF CallMoves, Activated
<1>7. CASE ActivateTimeout(h)
  <2>1. RowMoves
    BY <1>0, <1>00, <1>7, NothingMoves DEF ActivateTimeout
  <2>2. CASE Stop(h, "cleaning") /\ UNCHANGED <<inFlight, quarantined>>
    BY <1>7, <2>1, <2>2, StopMoves DEF ActivateTimeout
  <2>3. CASE Over(h) /\ UNCHANGED <<runner, call>>
    BY <1>0, <1>00, <1>7, <2>1, <2>3, OverOne DEF ActivateTimeout, CallMoves
  <2>. QED
    BY <1>7, <2>2, <2>3 DEF ActivateTimeout
<1>8. CASE Cleaned(h)
  <2>1. StageMoves(h) /\ req'[h].call = None
    BY <1>8, OverOne DEF Cleaned
  <2>2. CallMoves(h)
    BY <1>8, <2>1, HearsMoves DEF Cleaned
  <2>3. RowMoves
    BY <1>0, <1>00, <1>8, ClearGoneMoves, NothingMoves DEF Cleaned
  <2>. QED
    BY <2>1, <2>2, <2>3
<1>9. CASE Readied(h)
  <2>1. StageMoves(h) /\ req'[h].call = None
    BY <1>9, OverOne DEF Readied
  <2>2. RowMoves
    BY <1>00, <1>9, ClearWrites DEF Readied, RowMoves, HubTypes
  <2>. QED
    BY <1>0, <1>00, <1>9, <2>1, <2>2 DEF Readied, CallMoves
<1>10. CASE Ended(h)
  <2>1. StageMoves(h) /\ req'[h].call = None
    BY <1>10, OverOne DEF Ended
  <2>2. RowMoves
    BY <1>0, <1>00, <1>10, ClearWrites DEF Ended, RowMoves, HubTypes
  <2>. QED
    BY <1>0, <1>00, <1>10, <2>1, <2>2 DEF Ended, CallMoves
<1>11. CASE ReadyTimeout(h)
  <2>1. CASE Stop(h, "stopping") /\ UNCHANGED <<session, inFlight, quarantined, bounds>>
    <3>1. StageMoves(h) /\ CallMoves(h)
      BY <1>11, <2>1, StopMoves DEF ReadyTimeout
    <3>2. RowMoves
      BY <1>0, <1>00, <1>11, <2>1, NothingMoves DEF ReadyTimeout
    <3>. QED
      BY <3>1, <3>2
  <2>2. CASE Over(h) /\ Quarantine /\ UNCHANGED <<runner, call>>
    <3>1. StageMoves(h) /\ req'[h].call = None
      BY <1>11, <2>2, OverOne DEF ReadyTimeout
    <3>2. RowMoves
      BY <1>00, <1>11, <2>2, QuarantineMoves DEF ReadyTimeout
    <3>. QED
      BY <1>0, <1>00, <2>2, <3>1, <3>2 DEF CallMoves
  <2>. QED
    BY <1>11, <2>1, <2>2 DEF ReadyTimeout
<1>12. CASE Stopped(h)
  <2>1. StageMoves(h) /\ req'[h].call = None
    <3>1. CASE Moves(h, "inactivating", None) /\ UNCHANGED inFlight
      BY <1>0, <1>00, <1>12, <3>1, MovesOne DEF Stopped
    <3>2. CASE Over(h)
      BY <1>12, <3>2, OverOne DEF Stopped
    <3>. QED
      BY <1>12, <3>1, <3>2 DEF Stopped
  <2>2. CallMoves(h)
    BY <1>12, <2>1, HearsMoves DEF Stopped
  <2>3. RowMoves
    BY <1>0, <1>00, <1>12, NothingMoves, ClearGoneMoves, QuarantineMoves DEF Stopped, history
  <2>. QED
    BY <2>1, <2>2, <2>3
<1>13. CASE Inactivated(h)
  <2>1. StageMoves(h) /\ req'[h].call = None
    BY <1>13, OverOne DEF Inactivated
  <2>2. RowMoves
    <3>1. CASE Clear(quarantined) /\ UNCHANGED <<active, ready>>
      BY <1>0, <1>00, <1>13, <3>1, ClearWrites DEF Inactivated, RowMoves, HubTypes
    <3>2. CASE Quarantine
      BY <1>13, <3>2, QuarantineMoves DEF Inactivated
    <3>. QED
      BY <1>13, <3>1, <3>2 DEF Inactivated
  <2>. QED
    BY <1>0, <1>00, <1>13, <2>1, <2>2 DEF Inactivated, CallMoves
<1>. QED
  BY <1>1, <1>2, <1>3, <1>4, <1>5, <1>6, <1>7, <1>8, <1>9, <1>10, <1>11, <1>12, <1>13 DEF ResumeStep, Progress

-----------------------------------------------------------------------------
(* What those steps preserve *)

(* To the machine a step of a resume is a request, the end of one, or nothing. *)
LEMMA CallMovesRun ==
  ASSUME NEW h \in Requests, CallMoves(h)
  PROVE  [Next]_vars
<1>1. ASSUME NEW c \in Calls, StopStep(c, Row) \/ Spawn(c, Row) PROVE Next
  BY <1>1, ResumeAssumption DEF Next
<1>2. ASSUME NEW c \in Calls, Collect(c) PROVE Next
  BY <1>2 DEF Next
<1>3. UNCHANGED <<runner, call>> => UNCHANGED vars
  BY DEF vars
<1>. QED
  BY <1>1, <1>2, <1>3 DEF CallMoves

LEMMA HubTypesKept ==
  ASSUME HubTypes, NEW h \in Requests, StageMoves(h), RowMoves, UNCHANGED <<phase, ends>>
  PROVE  HubTypes'
<1>1. PICK at \in Stages, c \in Calls \cup {None} :
        /\ req' = [req EXCEPT ![h] = [at |-> at, call |-> c]]
        /\ c \in Calls <=> at \in Waiting
        /\ inFlight' \in BOOLEAN
  BY DEF StageMoves, HubTypes
<1>2. req' \in [Requests -> [at : Stages, call : Calls \cup {None}]]
  BY <1>1 DEF HubTypes
<1>3. \A g \in Requests : req'[g].call \in Calls <=> req'[g].at \in Waiting
  BY <1>1 DEF HubTypes
<1>. QED
  BY <1>1, <1>2, <1>3 DEF HubTypes, RowMoves

LEMMA OneAsksKept ==
  ASSUME HubTypes, OneAsks, NEW h \in Requests, StageMoves(h), RowMoves
  PROVE  OneAsks'
<1>1. PICK at \in Stages, c \in Calls \cup {None} :
        /\ req' = [req EXCEPT ![h] = [at |-> at, call |-> c]]
        /\ \/ inFlight' = inFlight /\ (at \in Asking <=> Asked(h))
           \/ inFlight' = FALSE /\ at \notin Asking /\ (Asked(h) \/ ~inFlight)
           \/ inFlight' = TRUE /\ at \in Asking /\ ~inFlight /\ ready' = FALSE
  BY DEF StageMoves
<1>2. /\ Asked(h)' <=> at \in Asking
      /\ \A g \in Requests \ {h} : Asked(g)' <=> Asked(g)
  BY <1>1 DEF Asked, HubTypes
<1>3. ready' => ready /\ fresh' = fresh
  BY DEF RowMoves
<1>4. inFlight \in BOOLEAN /\ inFlight' \in BOOLEAN
  BY <1>1 DEF HubTypes
<1>5. CASE inFlight' = inFlight /\ (at \in Asking <=> Asked(h))
  <2>1. \A g \in Requests : Asked(g)' <=> Asked(g)
    BY <1>2, <1>5
  <2>. QED
    BY <1>3, <1>5, <2>1 DEF OneAsks
<1>6. CASE inFlight' = FALSE /\ at \notin Asking /\ (Asked(h) \/ ~inFlight)
  <2>1. \A g \in Requests : ~Asked(g)'
    BY <1>2, <1>6 DEF OneAsks
  <2>. QED
    BY <1>6, <2>1 DEF OneAsks
<1>7. CASE inFlight' = TRUE /\ at \in Asking /\ ~inFlight /\ ready' = FALSE
  <2>1. \A g \in Requests : Asked(g)' <=> g = h
    BY <1>2, <1>7 DEF OneAsks
  <2>. QED
    BY <1>7, <2>1 DEF OneAsks
<1>. QED
  BY <1>1, <1>5, <1>6, <1>7

LEMMA CallsKept ==
  ASSUME TypeOK, HubTypes, CallsHeld, NEW h \in Requests, StageMoves(h), CallMoves(h)
  PROVE  CallsHeld'
<1>1. \A g \in Requests \ {h} : req'[g].call = req[g].call
  BY DEF StageMoves, HubTypes
<1>2. CASE \E c \in Calls : (StopStep(c, Row) \/ Spawn(c, Row)) /\ req'[h].call = c
  <2>1. PICK c \in Calls : (StopStep(c, Row) \/ Spawn(c, Row)) /\ req'[h].call = c
    BY <1>2, ResumeAssumption
  <2>2. /\ call[c].at = "idle" /\ call'[c].at # "idle" /\ call'[c].row = Row
        /\ \A d \in Calls \ {c} : call'[d] = call[d]
    BY <2>1, AskingTakesCall, RunnerAssumption, ResumeAssumption
  <2>3. \A g \in Requests \ {h} : req[g].call # c
    BY <2>2 DEF CallsHeld
  <2>. QED
    BY <1>1, <2>1, <2>2, <2>3 DEF CallsHeld
<1>3. CASE req[h].call \in Calls /\ Collect(req[h].call) /\ req'[h].call \notin Calls
  <2>1. \A d \in Calls : d # req[h].call => call'[d] = call[d]
    BY <1>3 DEF Collect, TypeOK
  <2>2. \A g \in Requests \ {h} : req[g].call # req[h].call
    BY <1>3 DEF CallsHeld
  <2>. QED
    BY <1>1, <1>3, <2>1, <2>2 DEF CallsHeld
<1>4. CASE UNCHANGED <<runner, call>> /\ req'[h].call \notin Calls
  BY <1>1, <1>4 DEF CallsHeld
<1>. QED
  BY <1>2, <1>3, <1>4 DEF CallMoves

LEMMA ResumeStepKeeps ==
  ASSUME ResumeInv, NEW h \in Requests, ResumeStep(h)
  PROVE  ResumeInv' /\ [Next]_vars
<1>1. StageMoves(h) /\ RowMoves /\ CallMoves(h)
  BY ResumeMoves DEF ResumeInv, RunnerInv
<1>2. [Next]_vars
  BY <1>1, CallMovesRun
<1>3. RunnerInv'
  BY <1>2, RunnerNext, RunnerAssumption DEF ResumeInv
<1>4. HubTypes'
  BY <1>1, HubTypesKept DEF ResumeInv, ResumeStep
<1>5. OneAsks'
  BY <1>1, OneAsksKept DEF ResumeInv
<1>6. TypeOK
  BY DEF ResumeInv, RunnerInv
<1>7. CallsHeld'
  BY <1>1, <1>6, CallsKept DEF ResumeInv
<1>. QED
  BY <1>2, <1>3, <1>4, <1>5, <1>7 DEF ResumeInv

-----------------------------------------------------------------------------
(* The other steps *)

(* Steps of the hub that leave the machine alone. *)
LEMMA MachineRests ==
  ASSUME RunnerInv, UNCHANGED <<runner, call>>
  PROVE  RunnerInv' /\ [Next]_vars
<1>1. UNCHANGED vars
  BY DEF vars
<1>. QED
  BY <1>1, RunnerNext, RunnerAssumption

LEMMA MachineKeeps ==
  ASSUME ResumeInv, MachineStep
  PROVE  ResumeInv' /\ [Next]_vars
<1>1. Work
  BY MachineWorks
<1>2. [Next]_vars
  BY <1>1 DEF Next
<1>3. RunnerInv'
  BY <1>2, RunnerNext, RunnerAssumption DEF ResumeInv
<1>4. UNCHANGED <<ends, hub>>
  BY DEF MachineStep
<1>5. HubTypes'
  <2>1. phase' \in [Pids -> {"running", "ready", "leaving"}]
    BY DEF MachineStep, ResumeInv, HubTypes
  <2>2. resumes' \in 0 .. MaxResumes /\ troubles' \in 0 .. MaxTroubles
    BY TroubleBounds DEF MachineStep, ResumeInv
  <2>. QED
    BY <1>4, <2>1, <2>2 DEF ResumeInv, HubTypes, hub, session, history
<1>6. OneAsks'
  BY <1>4 DEF ResumeInv, OneAsks, Asked, hub, session, history
<1>7. CallsHeld'
  <2>1. \A c \in Calls : (call'[c].at = "idle" <=> call[c].at = "idle") /\ call'[c].row = call[c].row
    BY <1>1, WorkKeepsRequests, RunnerAssumption DEF ResumeInv, RunnerInv
  <2>. QED
    BY <1>4, <2>1 DEF ResumeInv, CallsHeld, hub
<1>. QED
  BY <1>2, <1>3, <1>5, <1>6, <1>7 DEF ResumeInv

(* What the hub notices, and what the process of the session says. *)
LEMMA NoticeKeeps ==
  ASSUME ResumeInv,
         \/ SessionEnd \/ Expire \/ Archive
         \/ \E p \in Pids : Alive(p) \/ SaysReady(p) \/ Leaves(p)
  PROVE  ResumeInv' /\ [Next]_vars
<1>. USE DEF ResumeInv, HubTypes, OneAsks, CallsHeld, Asked
<1>1. UNCHANGED <<runner, call, req, inFlight, quarantined>>
  BY DEF SessionEnd, Expire, Archive, Alive, SaysReady, Leaves, hub
<1>2. RunnerInv' /\ [Next]_vars /\ CallsHeld'
  BY <1>1, MachineRests
<1>3. /\ \A g, h \in Requests : Asked(g)' /\ Asked(h)' => g = h
      /\ inFlight' <=> \E h \in Requests : Asked(h)'
      /\ req' \in [Requests -> [at : Stages, call : Calls \cup {None}]]
      /\ \A h \in Requests : req'[h].call \in Calls <=> req'[h].at \in Waiting
      /\ inFlight' \in BOOLEAN /\ quarantined' \in BOOLEAN
  BY <1>1
<1>4. /\ ends' \subseteq 1 .. MaxGen /\ phase' \in [Pids -> {"running", "ready", "leaving"}]
      /\ resumes' \in 0 .. MaxResumes /\ troubles' \in 0 .. MaxTroubles
  <2>1. resumes' \in 0 .. MaxResumes /\ troubles' \in 0 .. MaxTroubles
    BY TroubleBounds DEF SessionEnd, Expire, Archive, Alive, SaysReady, Leaves
  <2>2. ends' \subseteq 1 .. MaxGen
    <3>1. \A p \in Pids : Speaks(p) => proc[p].gen \in 1 .. MaxGen
      BY DEF Speaks, Live, RunnerInv, TypeOK, Process
    <3>2. \/ ends' = ends
          \/ (\E gen \in ends : ends' = ends \ {gen})
          \/ (\E p \in Pids : Speaks(p) /\ ends' = ends \cup {proc[p].gen})
      BY DEF SessionEnd, Expire, Archive, Alive, SaysReady, Leaves, Goes
    <3>3. ASSUME NEW p \in Pids, Speaks(p), ends' = ends \cup {proc[p].gen} PROVE ends' \subseteq 1 .. MaxGen
      BY <3>1, <3>3
    <3>4. ASSUME NEW gen \in ends, ends' = ends \ {gen} PROVE ends' \subseteq 1 .. MaxGen
      BY <3>4
    <3>. QED
      BY <3>2, <3>3, <3>4
  <2>3. phase' \in [Pids -> {"running", "ready", "leaving"}]
    BY DEF SessionEnd, Expire, Archive, Alive, SaysReady, Leaves, Goes
  <2>. QED
    BY <2>1, <2>2, <2>3
<1>5. /\ active' \in BOOLEAN /\ ready' \in BOOLEAN /\ attempt' \in BOOLEAN
      /\ before' \in 0 .. MaxGen /\ fresh' \in BOOLEAN /\ overlooked' \in BOOLEAN
      /\ inFlight' /\ ready' => fresh'
  <2>1. CASE SessionEnd \/ Archive
    BY <1>1, <2>1 DEF SessionEnd, Archive, EndSession, Settled
  <2>2. CASE Expire
    BY <2>2 DEF Expire, history
  <2>3. CASE \E p \in Pids : Alive(p)
    BY <2>3 DEF Alive, history
  <2>4. CASE \E p \in Pids : SaysReady(p)
    BY <2>4 DEF SaysReady
  <2>5. CASE \E p \in Pids : Leaves(p)
    BY <2>5 DEF Leaves, hub, session, history
  <2>. QED
    BY <2>1, <2>2, <2>3, <2>4, <2>5
<1>. QED
  BY <1>2, <1>3, <1>4, <1>5

(* A restart forgets the resumes, not the attempt. *)
LEMMA RestartKeeps ==
  ASSUME ResumeInv, HubRestart
  PROVE  ResumeInv' /\ [Next]_vars
<1>1. RunnerInv' /\ [Next]_vars
  BY MachineRests DEF HubRestart, ResumeInv
<1>2. \A h \in Requests : req'[h].at = "idle" /\ req'[h].call = None
  BY DEF HubRestart, Quiet
<1>3. None \notin Calls /\ "idle" \notin Waiting /\ "idle" \notin Asking /\ "idle" \in Stages
  BY ResumeAssumption DEF Waiting, Asking, Stages
<1>4. req' \in [Requests -> [at : Stages, call : Calls \cup {None}]]
  BY <1>3 DEF HubRestart, Quiet
<1>5. inFlight' = FALSE /\ active' = FALSE /\ ready' = FALSE /\ quarantined' = FALSE
      /\ UNCHANGED <<phase, ends, attempt, before, fresh, overlooked>>
  BY DEF HubRestart, history
<1>6. resumes' \in 0 .. MaxResumes /\ troubles' \in 0 .. MaxTroubles
  BY TroubleBounds DEF HubRestart, ResumeInv
<1>7. HubTypes'
  BY <1>2, <1>3, <1>4, <1>5, <1>6 DEF ResumeInv, HubTypes
<1>8. OneAsks' /\ CallsHeld'
  BY <1>2, <1>3, <1>5 DEF OneAsks, CallsHeld, Asked
<1>. QED
  BY <1>1, <1>7, <1>8 DEF ResumeInv

LEMMA UnheardKeeps ==
  ASSUME ResumeInv, NEW c \in Calls, Unheard(c)
  PROVE  ResumeInv' /\ [Next]_vars
<1>1. Collect(c) /\ UNCHANGED <<hub, phase, ends, bounds>>
  BY DEF Unheard
<1>2. [Next]_vars
  BY <1>1 DEF Next
<1>3. RunnerInv'
  BY <1>2, RunnerNext, RunnerAssumption DEF ResumeInv
<1>4. HubTypes' /\ OneAsks'
  BY <1>1 DEF ResumeInv, HubTypes, OneAsks, Asked, hub, session, history, bounds
<1>5. \A d \in Calls \ {c} : call'[d] = call[d]
  BY <1>1 DEF ResumeInv, RunnerInv, TypeOK, Collect
<1>6. CallsHeld'
  BY <1>1, <1>5 DEF ResumeInv, CallsHeld, Unheard, hub
<1>. QED
  BY <1>2, <1>3, <1>4, <1>6 DEF ResumeInv

-----------------------------------------------------------------------------
LEMMA ResumeBegins == ResumeInit => ResumeInv /\ Init
<1>. SUFFICES ASSUME ResumeInit PROVE ResumeInv /\ Init
  OBVIOUS
<1>1. Init /\ RunnerInv
  BY RunnerInit, RunnerAssumption DEF ResumeInit
<1>2. \A h \in Requests : req[h].at = "idle" /\ req[h].call = None
  BY DEF ResumeInit, Quiet
<1>3. None \notin Calls /\ "idle" \notin Waiting /\ "idle" \notin Asking /\ "idle" \in Stages
  BY ResumeAssumption DEF Waiting, Asking, Stages
<1>4. HubTypes
  <2>1. active \in BOOLEAN /\ ready \in BOOLEAN
    BY DEF ResumeInit
  <2>2. req \in [Requests -> [at : Stages, call : Calls \cup {None}]]
    BY <1>3 DEF ResumeInit, Quiet
  <2>3. phase \in [Pids -> {"running", "ready", "leaving"}] /\ ends \subseteq 1 .. MaxGen /\ before \in 0 .. MaxGen
    BY <1>1 DEF ResumeInit, RunnerInv, TypeOK
  <2>4. resumes \in 0 .. MaxResumes /\ troubles \in 0 .. MaxTroubles
    BY ResumeAssumption DEF ResumeInit
  <2>. QED
    BY <1>2, <1>3, <2>1, <2>2, <2>3, <2>4 DEF ResumeInit, HubTypes
<1>5. OneAsks /\ CallsHeld
  BY <1>2, <1>3 DEF ResumeInit, OneAsks, CallsHeld, Asked
<1>. QED
  BY <1>1, <1>4, <1>5 DEF ResumeInv

LEMMA ResumeSteps == ResumeInv /\ [ResumeNext]_resumeVars => ResumeInv' /\ [Next]_vars
<1>. SUFFICES ASSUME ResumeInv, [ResumeNext]_resumeVars PROVE ResumeInv' /\ [Next]_vars
  OBVIOUS
<1>1. CASE ResumeNext
  BY <1>1, MachineKeeps, NoticeKeeps, RestartKeeps, ResumeStepKeeps, UnheardKeeps DEF ResumeNext
<1>2. CASE UNCHANGED resumeVars
  <2>. UNCHANGED <<runner, call>>
    BY <1>2 DEF resumeVars, vars
  <2>1. RunnerInv' /\ [Next]_vars
    BY MachineRests DEF ResumeInv
  <2>2. HubTypes' /\ OneAsks' /\ CallsHeld'
    BY <1>2 DEF ResumeInv, HubTypes, OneAsks, CallsHeld, Asked, resumeVars, hub, session, history, bounds
  <2>. QED
    BY <2>1, <2>2 DEF ResumeInv
<1>. QED
  BY <1>1, <1>2

(* The hub and the process of the session do nothing to the machine that the *)
(* runner does not allow: SessionRunner's specification holds of every run    *)
(* of a resume, crashes, restarts and lost answers included.                  *)
THEOREM ResumeImplementsRunner == ResumeSpec => Spec
BY ResumeBegins, ResumeSteps, PTL DEF ResumeSpec, Spec

(* Every variable keeps its type, and a call is held by a resume exactly while *)
(* it waits for the runner.                                                     *)
THEOREM ResumeTypes == ResumeSpec => []ResumeTypeOK
<1>1. ResumeInv => ResumeTypeOK
  BY DEF ResumeInv, RunnerInv, HubTypes, ResumeTypeOK
<1>. QED
  BY ResumeBegins, ResumeSteps, <1>1, PTL DEF ResumeSpec

(* One resume at most has asked the runner for a process, in flight is what it  *)
(* is, and the ready bit that it may find was said since it began.              *)
THEOREM OneResumeAlways == ResumeSpec => []OneResume
<1>1. ResumeInv => OneResume
  BY DEF ResumeInv, RunnerInv, HubTypes, ResumeTypeOK, OneAsks, OneResume
<1>. QED
  BY ResumeBegins, ResumeSteps, <1>1, PTL DEF ResumeSpec

-----------------------------------------------------------------------------
(* The attempt, and the process it was written for *)

(* No process of the row that was written down has yet to be ready, or to start. *)
NoStarter == ~Pending(Row) /\ \A p \in Pids : Recorded(p, Row) => phase[p] # "running"

(* Of what is younger than the last resume, and of what has yet to be ready, the *)
(* runner wrote down every process.                                              *)
Young ==
  /\ ends \subseteq 1 .. gens /\ before \in 0 .. gens
  /\ \A p \in Pids : Live(p) => proc[p].gen \in 1 .. gens
  /\ \A p \in Pids : Live(p) /\ (proc[p].gen > before \/ phase[p] = "running") => Recorded(p, Row)

(* What tells of the process that the attempt was written for: readiness, the end *)
(* of a process younger than the resume, a stop that covers it.                   *)
Noted ==
  /\ NoStarter \/ attempt \/ overlooked
  /\ fresh => NoStarter
  /\ \A gen \in ends : gen > before => NoStarter
  /\ \A h \in Requests : req[h].at = "inactivating" => NoStarter \/ overlooked

NotedInv == ResumeInv /\ Young /\ Noted

(* One recorded process at most, and none while a spawn has yet to start. *)
LEMMA OnlyOne ==
  ASSUME RunnerInv, NEW p \in Pids, Recorded(p, Row)
  PROVE  ~Pending(Row) /\ \A q \in Pids : Recorded(q, Row) => q = p
<1>1. records[p] # None /\ records[p].row = Row
  BY DEF RunnerInv, RecordsKept, Recorded
<1>2. \A q \in Pids : Recorded(q, Row) => q = p
  BY <1>1 DEF RunnerInv, RecordsKept, RowsOnce, Recorded
<1>3. up => childRow[p] = Row /\ childRow[p] # None
  BY <1>1, ResumeAssumption, RunnerAssumption DEF RunnerInv, RowsHeld
<1>4. up => childAlive[Row]
  BY <1>3 DEF RunnerInv, RowsHeld
<1>. QED
  BY <1>2, <1>4 DEF Pending

(* Only the start of a process takes a number. *)
LEMMA GensStay ==
  ASSUME RunnerInv, Next, \A r \in Rows, p \in Pids, readable \in BOOLEAN : ~Start(r, p, readable)
  PROVE  gens' = gens /\ NoNewChild
<1>1. NoNewChild
  BY OnlyStartSpawns DEF RunnerInv
<1>2. ASSUME NEW p \in Pids, ChildStep(p) PROVE gens' = gens
  BY <1>2 DEF ChildStep, Webhook, WebhookTimeout, OwnExit, Exit, Reuse, Prune, Reverify
<1>3. ASSUME NEW c \in Calls, NEW r \in Rows, StopStep(c, r) PROVE gens' = gens
  BY <1>3 DEF StopStep, StopTracked, StopRecorded, StopGone, StopRefused, StopUnknown, runner
<1>. QED
  BY <1>1, <1>2, <1>3
     DEF Next, Work, SpawnStep, SpawnFails, Spawn, StopTimeout, StopEnds, Collect, Crash, Recover, runner

LEMMA ReleaseSettles ==
  ASSUME TypeOK, NEW p \in Pids, Release(p), ~Pending(Row), up' = up
  PROVE  ~Pending(Row)'
<1>1. /\ spawned' = [r \in Rows |-> IF r = childRow[p] THEN "none" ELSE spawned[r]]
      /\ childAlive' = [r \in Rows |-> IF r = childRow[p] THEN FALSE ELSE childAlive[r]]
  BY DEF Release
<1>2. Row \in Rows
  BY ResumeAssumption
<1>. QED
  BY <1>1, <1>2 DEF Pending

(* Every step of the runner but the request of a spawn, which alone gives it a *)
(* process to start.                                                           *)
NoRequest == Work \/ \E c \in Calls : Collect(c) \/ \E r \in Rows : StopStep(c, r)

LEMMA NotPendingStays ==
  ASSUME RunnerInv, NoRequest, ~Pending(Row)
  PROVE  ~Pending(Row)'
<1>. USE ResumeAssumption
<1>0. TypeOK
  BY DEF RunnerInv
<1>1. ASSUME UNCHANGED <<up, spawned, childAlive>> PROVE ~Pending(Row)'
  BY <1>1 DEF Pending
<1>2. ASSUME NEW p \in Pids, ChildStep(p) PROVE ~Pending(Row)'
  <2>1. CASE Webhook(p)
    BY <1>0, <2>1 DEF Webhook, Pending, TypeOK
  <2>2. CASE WebhookTimeout(p)
    BY <1>0, <2>2 DEF WebhookTimeout, Pending, TypeOK
  <2>3. CASE OwnExit(p) \/ Prune(p)
    <3>1. Release(p) /\ up' = up
      BY <2>3 DEF OwnExit, Prune, ChildExited
    <3>. QED
      BY <1>0, <3>1, ReleaseSettles
  <2>4. CASE Exit(p) \/ Reuse(p)
    BY <1>1, <2>4 DEF Exit, Reuse, memory
  <2>5. CASE Reverify(p)
    BY <1>0, <2>5 DEF Reverify, Pending, TypeOK
  <2>. QED
    BY <1>2, <2>1, <2>2, <2>3, <2>4, <2>5 DEF ChildStep
<1>3. ASSUME NEW r \in Rows, SpawnStep(r) PROVE ~Pending(Row)'
  BY <1>0, <1>3 DEF SpawnStep, SpawnFails, Start, Pending, TypeOK
<1>4. ASSUME NEW c \in Calls, StopTimeout(c) \/ StopEnds(c) PROVE ~Pending(Row)'
  <2>1. CASE StopTimeout(c)
    BY <1>1, <2>1 DEF StopTimeout, runner, memory
  <2>2. CASE StopEnds(c)
    <3>1. up' = up /\ call[c].at = "killing"
      BY <2>2 DEF StopEnds
    <3>2. call[c].pid \in Pids
      BY <1>0, <3>1 DEF RunnerInv, StopsAim, TypeOK, Call
    <3>. QED
      BY <1>0, <1>1, <2>2, <3>1, <3>2, ReleaseSettles DEF StopEnds
  <2>. QED
    BY <1>4, <2>1, <2>2
<1>5. CASE Crash
  BY <1>5 DEF Crash, Pending
<1>6. ASSUME NEW blind \in SUBSET Pids, Recover(blind) PROVE ~Pending(Row)'
  BY <1>6 DEF Recover, Pending
<1>7. ASSUME NEW c \in Calls, Collect(c) PROVE ~Pending(Row)'
  BY <1>1, <1>7 DEF Collect, runner, memory
<1>8. ASSUME NEW c \in Calls, NEW r \in Rows, StopStep(c, r) PROVE ~Pending(Row)'
  <2>1. ASSUME NEW p \in Pids, StopGone(c, r, p) PROVE ~Pending(Row)'
    <3>1. Release(p) /\ up' = up
      BY <2>1 DEF StopGone
    <3>. QED
      BY <1>0, <3>1, ReleaseSettles
  <2>2. ASSUME NEW p \in Pids, StopTracked(c, r, p) \/ StopRecorded(c, r, p) \/ StopRefused(c, r, p)
        PROVE  ~Pending(Row)'
    BY <1>1, <2>2 DEF StopTracked, StopRecorded, StopRefused, runner, memory
  <2>3. ASSUME StopUnknown(c, r) PROVE ~Pending(Row)'
    BY <1>1, <2>3 DEF StopUnknown, runner, memory
  <2>. QED
    BY <1>8, <2>1, <2>2, <2>3 DEF StopStep
<1>. QED
  BY <1>2, <1>3, <1>4, <1>5, <1>6, <1>7, <1>8 DEF NoRequest, Work

(* A step without a start, in which no process becomes one that has yet to be ready. *)
LEMMA ProcessesStay ==
  ASSUME RunnerInv, Next, gens' = gens, \A p \in Pids : phase'[p] = "running" => phase[p] = "running"
  PROVE  /\ NoStarter /\ NoRequest => NoStarter'
         /\ \A p \in Pids : Live(p)' => Live(p) /\ proc'[p].gen = proc[p].gen /\ (Recorded(p, Row) => Recorded(p, Row)')
<1>1. \A r \in Rows, p \in Pids, readable \in BOOLEAN : ~Start(r, p, readable)
  BY DEF Start, RunnerInv, TypeOK
<1>2. NoNewChild
  BY <1>1, GensStay
<1>3. \A p \in Pids : Recorded(p, Row)' => Recorded(p, Row)
  BY <1>2 DEF NoNewChild, Recorded
<1>4. ASSUME NoStarter, NoRequest PROVE NoStarter'
  <2>1. ~Pending(Row)'
    BY <1>4, NotPendingStays DEF NoStarter
  <2>. QED
    BY <1>3, <1>4, <2>1 DEF NoStarter
<1>5. \A p \in Pids : Live(p)' => Live(p) /\ proc'[p].gen = proc[p].gen /\ (Recorded(p, Row) => Recorded(p, Row)')
  BY <1>2 DEF NoNewChild, Recorded
<1>. QED
  BY <1>4, <1>5

LEMMA YoungStays ==
  ASSUME Young, gens' = gens, ends' \subseteq 1 .. gens, before' = before,
         \A p \in Pids : phase'[p] = "running" => phase[p] = "running",
         \A p \in Pids : Live(p)' => Live(p) /\ proc'[p].gen = proc[p].gen /\ (Recorded(p, Row) => Recorded(p, Row)')
  PROVE  Young'
BY DEF Young

-----------------------------------------------------------------------------
(* What the machine does *)

LEMMA StartNotes ==
  ASSUME NotedInv, NEW p \in Pids, Start(Row, p, TRUE), UNCHANGED <<ends, hub>>,
         phase' = [q \in Pids |-> IF gens' > gens /\ proc'[q] # proc[q] THEN "running" ELSE phase[q]]
  PROVE  Young' /\ Noted'
<1>1. Pending(Row) /\ gens' = gens + 1 /\ Row \in Rows /\ gens \in Nat
  BY ResumeAssumption DEF Start, NotedInv, ResumeInv, RunnerInv, TypeOK
<1>2. ~NoStarter
  BY <1>1 DEF NoStarter
<1>3. /\ attempt' = attempt /\ overlooked' = overlooked /\ fresh' = fresh /\ before' = before
      /\ ends' = ends /\ req' = req
  BY DEF hub, session, history
<1>4. Noted'
  BY <1>2, <1>3 DEF NotedInv, Noted
<1>5. proc' = [proc EXCEPT ![p] = [row |-> Row, gen |-> gens', recorded |-> TRUE, told |-> FALSE, doomed |-> FALSE]]
  BY DEF Start
<1>6. proc'[p].row = Row /\ proc'[p].gen = gens + 1 /\ proc'[p].recorded = TRUE
  BY <1>1, <1>5 DEF NotedInv, ResumeInv, RunnerInv, TypeOK
<1>7. \A q \in Pids \ {p} : proc'[q] = proc[q] /\ phase'[q] = phase[q]
  BY <1>5 DEF NotedInv, ResumeInv, RunnerInv, TypeOK
<1>8. ASSUME NEW q \in Pids, Live(q)'
      PROVE  /\ proc'[q].gen \in 1 .. gens'
             /\ proc'[q].gen > before' \/ phase'[q] = "running" => Recorded(q, Row)'
  <2>1. CASE q = p
    BY <1>1, <1>6, <1>8, <2>1 DEF Recorded
  <2>2. CASE q # p
    <3>1. Live(q) /\ proc'[q] = proc[q] /\ phase'[q] = phase[q]
      BY <1>7, <1>8, <2>2 DEF Live
    <3>2. proc[q].gen \in 1 .. gens'
      BY <1>1, <3>1 DEF NotedInv, Young
    <3>3. proc[q].gen > before \/ phase[q] = "running" => Recorded(q, Row)
      BY <3>1 DEF NotedInv, Young
    <3>4. Recorded(q, Row) => Recorded(q, Row)'
      BY <3>1, <1>8 DEF Recorded
    <3>. QED
      BY <1>3, <3>1, <3>2, <3>3, <3>4
  <2>. QED
    BY <2>1, <2>2
<1>9. ends' \subseteq 1 .. gens' /\ before' \in 0 .. gens'
  BY <1>1, <1>3 DEF NotedInv, Young
<1>10. Young'
  BY <1>8, <1>9 DEF Young
<1>. QED
  BY <1>4, <1>10

LEMMA NotedStays ==
  ASSUME Noted, NoStarter => NoStarter', UNCHANGED <<attempt, overlooked, fresh, before, ends, req>>
  PROVE  Noted'
BY DEF Noted

LEMMA MachineNotes ==
  ASSUME NotedInv, MachineStep
  PROVE  Young' /\ Noted'
<1>0. ResumeInv /\ RunnerInv /\ Young /\ Noted /\ gens \in Nat
  BY DEF NotedInv, ResumeInv, RunnerInv, TypeOK
<1>1. Work /\ Next
  BY MachineWorks DEF Next
<1>2. /\ UNCHANGED <<ends, hub>>
      /\ phase' = [q \in Pids |-> IF gens' > gens /\ proc'[q] # proc[q] THEN "running" ELSE phase[q]]
  BY DEF MachineStep
<1>3. CASE gens' = gens
  <2>1. \A p \in Pids : phase'[p] = "running" => phase[p] = "running"
    BY <1>0, <1>2, <1>3
  <2>2. NoRequest
    BY <1>1 DEF NoRequest
  <2>3. /\ NoStarter => NoStarter'
        /\ \A p \in Pids : Live(p)' => Live(p) /\ proc'[p].gen = proc[p].gen /\ (Recorded(p, Row) => Recorded(p, Row)')
    BY <1>0, <1>1, <1>3, <2>1, <2>2, ProcessesStay
  <2>4. UNCHANGED <<attempt, overlooked, fresh, before, ends, req>>
    BY <1>2 DEF hub, session, history
  <2>5. Noted'
    BY <1>0, <2>3, <2>4, NotedStays
  <2>6. ends' \subseteq 1 .. gens /\ before' = before
    BY <1>0, <2>4 DEF Young
  <2>. QED
    BY <1>0, <1>3, <2>1, <2>3, <2>5, <2>6, YoungStays
<1>4. CASE gens' # gens
  <2>1. \E p \in Pids : Start(Row, p, TRUE)
    BY <1>4 DEF MachineStep, Crash, Webhook, WebhookTimeout, Prune, OwnExit, Exit, SpawnFails, StopTimeout, StopEnds,
                Recover, runner
  <2>. QED
    BY <1>2, <2>1, StartNotes
<1>. QED
  BY <1>3, <1>4

-----------------------------------------------------------------------------
(* What the process says and the hub notices *)

LEMMA StandStill ==
  ASSUME UNCHANGED <<runner, call>>
  PROVE  /\ gens' = gens /\ (Pending(Row)' <=> Pending(Row))
         /\ \A p \in Pids : /\ Live(p)' <=> Live(p) 
                            /\ Recorded(p, Row)' <=> Recorded(p, Row)
                            /\ proc'[p].gen = proc[p].gen
BY DEF runner, memory, Pending, Live, Recorded

(* A process younger than the resume that goes was the one that was written down. *)
LEMMA GoesNotes ==
  ASSUME NotedInv, NEW p \in Pids, Goes(p), UNCHANGED <<runner, call>>
  PROVE  /\ proc[p].gen > before => NoStarter'
         /\ ends' = ends \cup {proc[p].gen} /\ proc[p].gen \in 1 .. gens
         /\ \A q \in Pids : phase'[q] = "running" => phase[q] = "running"
         /\ NoStarter => NoStarter'
<1>0. ResumeInv /\ RunnerInv /\ Young /\ Noted
  BY DEF NotedInv, ResumeInv
<1>1. Live(p) /\ phase' = [phase EXCEPT ![p] = "leaving"] /\ ends' = ends \cup {proc[p].gen}
  BY DEF Goes, Speaks
<1>2. proc[p].gen \in 1 .. gens
  BY <1>0, <1>1 DEF Young
<1>3. \A q \in Pids : phase'[q] = "running" => phase[q] = "running" /\ q # p
  BY <1>0, <1>1 DEF ResumeInv, HubTypes
<1>4. NoStarter => NoStarter'
  BY <1>3, StandStill DEF NoStarter
<1>5. ASSUME proc[p].gen > before PROVE NoStarter'
  <2>1. Recorded(p, Row)
    BY <1>0, <1>1, <1>5 DEF Young
  <2>2. ~Pending(Row) /\ \A q \in Pids : Recorded(q, Row) => q = p
    BY <1>0, <2>1, OnlyOne
  <2>. QED
    BY <1>3, <2>2, StandStill DEF NoStarter
<1>. QED
  BY <1>1, <1>2, <1>3, <1>4, <1>5

LEMMA NoticeNotes ==
  ASSUME NotedInv,
         \/ SessionEnd \/ Expire \/ Archive \/ HubRestart
         \/ \E p \in Pids : Alive(p) \/ SaysReady(p) \/ Leaves(p)
  PROVE  Young' /\ Noted'
<1>0. /\ ResumeInv /\ RunnerInv /\ Young /\ Noted /\ before \in Nat
      /\ overlooked \in BOOLEAN /\ attempt \in BOOLEAN
  BY DEF NotedInv, ResumeInv, HubTypes
<1>1. UNCHANGED <<runner, call>>
  BY DEF SessionEnd, Expire, Archive, HubRestart, Alive, SaysReady, Leaves
<1>2. /\ gens' = gens
      /\ \A p \in Pids : Live(p)' => Live(p) /\ proc'[p].gen = proc[p].gen /\ (Recorded(p, Row) => Recorded(p, Row)')
  BY <1>1, StandStill
<1>3. UNCHANGED phase => (NoStarter => NoStarter')
  BY <1>1, StandStill DEF NoStarter
<1>4. ASSUME ends' \subseteq 1 .. gens, before' = before, \A p \in Pids : phase'[p] = "running" => phase[p] = "running"
      PROVE  Young'
  BY <1>0, <1>2, <1>4, YoungStays
<1>5. ends \subseteq 1 .. gens
  BY <1>0 DEF Young
<1>6. CASE Expire \/ \E p \in Pids : Alive(p)
  <2>1. UNCHANGED <<phase, attempt, overlooked, fresh, before, ends, req>>
    BY <1>6 DEF Expire, Alive, history
  <2>2. Noted'
    BY <1>0, <1>3, <2>1, NotedStays
  <2>. QED
    BY <1>4, <1>5, <2>1, <2>2
<1>7. CASE HubRestart
  <2>1. UNCHANGED <<phase, attempt, overlooked, fresh, before, ends>> /\ \A h \in Requests : req'[h].at = "idle"
    BY <1>7 DEF HubRestart, history, Quiet
  <2>2. Noted'
    BY <1>0, <1>3, <2>1 DEF Noted
  <2>. QED
    BY <1>4, <1>5, <2>1, <2>2
<1>8. CASE SessionEnd
  <2>1. PICK gen \in ends : ends' = ends \ {gen} /\ EndSession(gen > before)
    BY <1>8 DEF SessionEnd
  <2>2. UNCHANGED <<phase, fresh, before, req>>
    BY <1>8 DEF SessionEnd
  <2>3. attempt' = FALSE /\ overlooked' = (overlooked \/ (attempt /\ ~(gen > before)))
    BY <2>1 DEF EndSession, Settled
  <2>4. NoStarter => NoStarter'
    BY <1>3, <2>2
  <2>5. NoStarter' \/ attempt' \/ overlooked'
    BY <1>0, <2>1, <2>3, <2>4 DEF Noted
  <2>6. overlooked => overlooked'
    BY <2>3
  <2>7. Noted'
    BY <1>0, <2>1, <2>2, <2>4, <2>5, <2>6 DEF Noted
  <2>. QED
    BY <1>4, <1>5, <2>1, <2>2, <2>7
<1>9. ASSUME NEW p \in Pids, Goes(p), UNCHANGED <<fresh, before, req>>, overlooked => overlooked',
             NoStarter' \/ attempt' \/ overlooked'
      PROVE  Young' /\ Noted'
  <2>1. /\ proc[p].gen > before => NoStarter'
        /\ ends' = ends \cup {proc[p].gen} /\ proc[p].gen \in 1 .. gens
        /\ \A q \in Pids : phase'[q] = "running" => phase[q] = "running"
        /\ NoStarter => NoStarter'
    BY <1>1, <1>9, GoesNotes
  <2>2. \A gen \in ends' : gen > before' => NoStarter'
    BY <1>0, <1>9, <2>1 DEF Noted
  <2>3. Noted'
    BY <1>0, <1>9, <2>1, <2>2 DEF Noted
  <2>. QED
    BY <1>4, <1>5, <1>9, <2>1, <2>3
<1>10. ASSUME NEW p \in Pids, Leaves(p) PROVE Young' /\ Noted'
  <2>1. Goes(p) /\ UNCHANGED <<attempt, overlooked, fresh, before, req>>
    BY <1>10 DEF Leaves, hub, session, history
  <2>2. NoStarter => NoStarter'
    BY <1>1, <2>1, GoesNotes
  <2>3. NoStarter' \/ attempt' \/ overlooked'
    BY <1>0, <2>1, <2>2 DEF Noted
  <2>. QED
    BY <1>9, <2>1, <2>3
<1>11. CASE Archive
  <2>1. UNCHANGED <<fresh, before, req>>
    BY <1>11 DEF Archive
  <2>2. ASSUME NEW p \in Pids, Goes(p), EndSession(proc[p].gen > before) PROVE Young' /\ Noted'
    <3>1. overlooked' = (overlooked \/ (attempt /\ ~(proc[p].gen > before)))
      BY <2>2 DEF EndSession, Settled
    <3>2. (NoStarter => NoStarter') /\ (proc[p].gen > before => NoStarter')
      BY <1>1, <2>2, GoesNotes
    <3>3. NoStarter' \/ attempt' \/ overlooked'
      BY <1>0, <3>1, <3>2 DEF Noted
    <3>. QED
      BY <1>9, <2>1, <2>2, <3>1, <3>3
  <2>3. ASSUME EndSession(FALSE), UNCHANGED <<phase, ends>> PROVE Young' /\ Noted'
    <3>1. overlooked' = (overlooked \/ attempt)
      BY <2>3 DEF EndSession, Settled
    <3>2. NoStarter => NoStarter'
      BY <1>3, <2>3
    <3>3. Noted'
      BY <1>0, <2>1, <2>3, <3>1, <3>2 DEF Noted
    <3>. QED
      BY <1>4, <1>5, <2>1, <2>3, <3>3
  <2>. QED
    BY <1>11, <2>2, <2>3 DEF Archive
<1>12. ASSUME NEW p \in Pids, SaysReady(p) PROVE Young' /\ Noted'
  <2>1. /\ Live(p) /\ phase[p] = "running" /\ phase' = [phase EXCEPT ![p] = "ready"]
        /\ UNCHANGED <<attempt, overlooked, before, ends, req>>
    BY <1>12 DEF SaysReady, Speaks
  <2>2. Recorded(p, Row)
    BY <1>0, <2>1 DEF Young
  <2>3. ~Pending(Row) /\ \A q \in Pids : Recorded(q, Row) => q = p
    BY <1>0, <2>2, OnlyOne
  <2>4. \A q \in Pids : phase'[q] = "running" => phase[q] = "running" /\ q # p
    BY <1>0, <2>1 DEF ResumeInv, HubTypes
  <2>5. NoStarter'
    BY <1>1, <2>3, <2>4, StandStill DEF NoStarter
  <2>6. Noted'
    BY <2>5 DEF Noted
  <2>. QED
    BY <1>4, <1>5, <2>1, <2>4, <2>6
<1>. QED
  BY <1>6, <1>7, <1>8, <1>10, <1>11, <1>12

-----------------------------------------------------------------------------
(* What a resume does *)

(* It begins, hears of the process, or leaves the attempt as it is. *)
NoteMoves(h) ==
  \/ Begin(h) /\ ~inFlight
  \/ /\ UNCHANGED <<before, fresh>> /\ (overlooked => overlooked')
     /\ \/ NoStarter \/ overlooked'
        \/ (attempt => attempt') /\ req'[h].at # "inactivating"

(* A stop that says the process is gone, and covers all there can be, has left none. *)
LEMMA CoversNone ==
  ASSUME NotedInv, NEW h \in Requests, req[h].at \in Waiting, Hears(h), IsGone(h), Covers(h)
  PROVE  NoStarter
<1>0. ResumeInv /\ RunnerInv /\ Young
  BY DEF NotedInv, ResumeInv
<1>1. req[h].call \in Calls
  BY <1>0 DEF ResumeInv, HubTypes
<1>. DEFINE c == req[h].call
<1>2. call[c].row = Row /\ call[c].at = "answered" /\ call[c].sole /\ call[c].out \in {"stopped", "already_gone"}
  BY <1>0, <1>1 DEF ResumeInv, CallsHeld, Hears, IsGone, Out, Covers
<1>3. \A p \in Pids : Recorded(p, Row) => proc[p].gen > call[c].since
  BY <1>0, <1>1, <1>2 DEF RunnerInv, StopIsTruthful
<1>4. call[c].since = gens /\ ~Pending(Row)
  BY DEF Covers
<1>5. \A p \in Pids : Recorded(p, Row) => proc[p].gen \in 1 .. gens
  BY <1>0 DEF Young, Recorded
<1>6. gens \in Nat
  BY <1>0 DEF RunnerInv, TypeOK
<1>. QED
  BY <1>3, <1>4, <1>5, <1>6 DEF NoStarter

LEMMA AnswerNotes ==
  ASSUME NotedInv, NEW h \in Requests, req[h].at \in Waiting, Hears(h), IsGone(h), Settled(Covers(h))
  PROVE  (overlooked => overlooked') /\ (NoStarter \/ overlooked' \/ (~attempt /\ (NoStarter \/ overlooked)))
BY CoversNone DEF Settled, NotedInv, Noted

LEMMA ResumeNotes ==
  ASSUME NotedInv, NEW h \in Requests, ResumeStep(h)
  PROVE  NoteMoves(h)
<1>. USE DEF NoteMoves
<1>0. /\ ResumeInv /\ RunnerInv /\ Young /\ Noted /\ OneAsks /\ HubTypes
      /\ overlooked \in BOOLEAN /\ attempt \in BOOLEAN
      /\ NoStarter \/ attempt \/ overlooked
      /\ Asked(h) => inFlight
  BY DEF NotedInv, ResumeInv, HubTypes, Noted, OneAsks
<1>1. UNCHANGED history => UNCHANGED <<before, fresh, overlooked>>
  BY DEF history
<1>2. UNCHANGED session => attempt' = attempt
  BY DEF session
<1>3. ASSUME NEW at, NEW c, Moves(h, at, c) PROVE req'[h].at = at
  BY <1>0, <1>3 DEF Moves, HubTypes
<1>4. Over(h) => req'[h].at = "idle"
  BY <1>0 DEF Over, HubTypes, Quiet
<1>5. Quarantine => (attempt => attempt')
  BY DEF Quarantine
<1>6. CASE Resume(h)
  BY <1>6 DEF Resume, Refused
<1>7. CASE Reconcile(h)
  <2>1. PICK c \in Calls : Moves(h, "reconciling", c)
    BY <1>7 DEF Reconcile, Stop
  <2>. QED
    BY <1>1, <1>2, <1>3, <1>7, <2>1 DEF Reconcile
<1>8. CASE Reconciled(h)
  <2>1. req[h].at \in Waiting /\ Hears(h) /\ UNCHANGED <<before, fresh>>
    BY <1>8 DEF Reconciled, Waiting
  <2>2. CASE IsGone(h)
    BY <1>0, <1>8, <2>1, <2>2, AnswerNotes DEF Reconciled
  <2>3. CASE ~IsGone(h)
    BY <1>2, <1>3, <1>8, <2>1, <2>3 DEF Reconciled
  <2>. QED
    BY <2>2, <2>3
<1>9. CASE ResumeSettled(h)
  BY <1>1, <1>2, <1>3, <1>9 DEF ResumeSettled
<1>10. CASE Spawned(h)
  BY <1>1, <1>2, <1>3, <1>4, <1>10 DEF Spawned
<1>11. CASE Activated(h)
  BY <1>1, <1>2, <1>3, <1>11 DEF Activated
<1>12. CASE ActivateTimeout(h)
  <2>1. Over(h) \/ \E c \in Calls : Moves(h, "cleaning", c)
    BY <1>12 DEF ActivateTimeout, Stop
  <2>. QED
    BY <1>1, <1>2, <1>3, <1>4, <1>12, <2>1 DEF ActivateTimeout
<1>13. CASE Cleaned(h)
  <2>1. req[h].at \in Waiting /\ Hears(h) /\ UNCHANGED <<before, fresh>>
    BY <1>13 DEF Cleaned, Waiting
  <2>2. CASE IsGone(h)
    BY <1>0, <1>13, <2>1, <2>2, AnswerNotes DEF Cleaned
  <2>3. CASE ~IsGone(h)
    BY <1>2, <1>4, <1>13, <2>1, <2>3 DEF Cleaned
  <2>. QED
    BY <2>2, <2>3
<1>14. CASE Readied(h)
  <2>1. Asked(h) /\ ready
    BY <1>14 DEF Readied, Asked, Asking
  <2>2. NoStarter
    BY <1>0, <2>1 DEF OneAsks, Noted
  <2>. QED
    BY <1>1, <1>14, <2>2 DEF Readied
<1>15. CASE Ended(h)
  <2>1. overlooked' = (overlooked \/ attempt) /\ UNCHANGED <<before, fresh>>
    BY <1>15 DEF Ended, Settled
  <2>. QED
    BY <1>0, <2>1
<1>16. CASE ReadyTimeout(h)
  <2>1. ASSUME NEW c \in Calls, Moves(h, "stopping", c) PROVE req'[h].at = "stopping"
    BY <1>3, <2>1
  <2>2. req'[h].at # "inactivating"
    BY <1>4, <1>16, <2>1 DEF ReadyTimeout, Stop
  <2>. QED
    BY <1>1, <1>2, <1>5, <1>16, <2>2 DEF ReadyTimeout
<1>17. CASE Stopped(h)
  <2>1. req[h].at \in Waiting /\ Hears(h) /\ UNCHANGED <<before, fresh>>
    BY <1>17 DEF Stopped, Waiting
  <2>2. CASE IsGone(h) /\ Settled(Covers(h))
    BY <1>0, <2>1, <2>2, AnswerNotes
  <2>3. CASE Over(h) /\ Quarantine /\ UNCHANGED overlooked
    BY <1>4, <1>5, <2>1, <2>3
  <2>. QED
    BY <1>17, <2>2, <2>3 DEF Stopped, IsGone
<1>18. CASE Inactivated(h)
  <2>1. NoStarter \/ overlooked
    BY <1>0, <1>18 DEF Noted, Inactivated
  <2>. QED
    BY <1>1, <1>18, <2>1 DEF Inactivated
<1>. QED
  BY <1>6, <1>7, <1>8, <1>9, <1>10, <1>11, <1>12, <1>13, <1>14, <1>15, <1>16, <1>17, <1>18 DEF ResumeStep, Progress

(* Only a resume that begins asks for a process. *)
LEMMA OnlyBeginAsks ==
  ASSUME HubTypes, NEW h \in Requests, ResumeStep(h), ~(Begin(h) /\ ~inFlight)
  PROVE  NoRequest \/ UNCHANGED <<runner, call>>
<1>1. ASSUME NEW at, Stop(h, at) PROVE NoRequest
  BY <1>1, ResumeAssumption DEF Stop, NoRequest
<1>2. ASSUME req[h].at \in Waiting, Hears(h) PROVE NoRequest
  <2>1. req[h].call \in Calls
    BY <1>2 DEF HubTypes
  <2>. QED
    BY <1>2, <2>1 DEF Hears, NoRequest
<1>3. ~Resume(h)
  BY DEF Resume, Refused
<1>4. CASE Reconcile(h) \/ ActivateTimeout(h) \/ ReadyTimeout(h)
  BY <1>1, <1>4 DEF Reconcile, ActivateTimeout, ReadyTimeout
<1>5. CASE Reconciled(h) \/ Spawned(h) \/ Cleaned(h) \/ Stopped(h)
  BY <1>2, <1>5 DEF Reconciled, Spawned, Cleaned, Stopped, Waiting
<1>6. CASE ResumeSettled(h) \/ Activated(h) \/ Readied(h) \/ Ended(h) \/ Inactivated(h)
  BY <1>6 DEF ResumeSettled, Activated, Readied, Ended, Inactivated
<1>. QED
  BY <1>3, <1>4, <1>5, <1>6 DEF ResumeStep, Progress

LEMMA ResumeStepNotes ==
  ASSUME NotedInv, NEW h \in Requests, ResumeStep(h)
  PROVE  Young' /\ Noted'
<1>0. ResumeInv /\ RunnerInv /\ Young /\ Noted /\ TypeOK /\ HubTypes
  BY DEF NotedInv, ResumeInv, RunnerInv
<1>1. UNCHANGED <<phase, ends>>
  BY DEF ResumeStep
<1>2. StageMoves(h) /\ CallMoves(h)
  BY <1>0, ResumeMoves DEF ResumeInv
<1>3. UNCHANGED <<runner, call>> \/ Next
  <2>1. [Next]_vars
    BY <1>2, CallMovesRun
  <2>. QED
    BY <2>1 DEF vars
<1>4. /\ gens' = gens
      /\ \A p \in Pids : Live(p)' => Live(p) /\ proc'[p].gen = proc[p].gen /\ (Recorded(p, Row) => Recorded(p, Row)')
  <2>1. gens' = gens
    BY <1>2 DEF CallMoves, StopStep, StopTracked, StopRecorded, StopGone, StopRefused, StopUnknown, Spawn, Collect, runner
  <2>. QED
    BY <1>0, <1>1, <1>3, <2>1, ProcessesStay, StandStill
<1>5. NoRequest \/ UNCHANGED <<runner, call>> => (NoStarter => NoStarter')
  <2>1. CASE UNCHANGED <<runner, call>>
    BY <1>1, <2>1, StandStill DEF NoStarter
  <2>2. CASE NoRequest
    <3>1. Next
      BY <2>2 DEF NoRequest, Next
    <3>. QED
      BY <1>0, <1>1, <1>4, <2>2, <3>1, ProcessesStay
  <2>. QED
    BY <2>1, <2>2
<1>6. \A g \in Requests \ {h} : req'[g] = req[g]
  BY <1>0, <1>2 DEF StageMoves, HubTypes
<1>7. CASE Begin(h) /\ ~inFlight
  <2>1. attempt' = TRUE /\ before' = gens /\ fresh' = FALSE
    BY <1>7 DEF Begin
  <2>2. req'[h].at # "inactivating"
    BY <1>0, <1>7 DEF Begin, Moves, Over, Quiet, HubTypes
  <2>3. \A g \in Requests \ {h} : req'[g].at # "inactivating"
    BY <1>0, <1>6, <1>7 DEF ResumeInv, OneAsks, Asked, Asking
  <2>4. ends' \subseteq 1 .. gens /\ gens \in Nat
    BY <1>0, <1>1 DEF Young, TypeOK
  <2>5. \A gen \in ends' : ~(gen > before')
    BY <2>1, <2>4
  <2>6. Noted'
    BY <2>1, <2>2, <2>3, <2>5 DEF Noted
  <2>7. \A p \in Pids : Live(p)' => ~(proc'[p].gen > before') /\ proc'[p].gen \in 1 .. gens'
    BY <1>0, <1>4, <2>1, <2>4 DEF Young
  <2>8. \A p \in Pids : Live(p)' /\ phase'[p] = "running" => Recorded(p, Row)'
    BY <1>0, <1>1, <1>4 DEF Young
  <2>9. Young'
    BY <1>4, <2>1, <2>4, <2>7, <2>8 DEF Young
  <2>. QED
    BY <2>6, <2>9
<1>8. CASE ~(Begin(h) /\ ~inFlight)
  <2>1. /\ UNCHANGED <<before, fresh>> /\ (overlooked => overlooked')
        /\ \/ NoStarter \/ overlooked'
           \/ (attempt => attempt') /\ req'[h].at # "inactivating"
    BY <1>8, ResumeNotes DEF NoteMoves
  <2>2. NoRequest \/ UNCHANGED <<runner, call>>
    BY <1>0, <1>8, OnlyBeginAsks
  <2>3. NoStarter => NoStarter'
    BY <1>5, <2>2
  <2>4. NoStarter' \/ attempt' \/ overlooked'
    BY <1>0, <2>1, <2>3 DEF Noted
  <2>5. \A g \in Requests : req'[g].at = "inactivating" => NoStarter' \/ overlooked'
    BY <1>0, <1>6, <2>1, <2>3 DEF Noted
  <2>6. Noted'
    BY <1>0, <1>1, <2>1, <2>3, <2>4, <2>5 DEF Noted
  <2>7. ends' \subseteq 1 .. gens
    BY <1>0, <1>1 DEF Young
  <2>8. Young'
    BY <1>0, <1>1, <1>4, <2>1, <2>7, YoungStays
  <2>. QED
    BY <2>6, <2>8
<1>. QED
  BY <1>7, <1>8

LEMMA UnheardNotes ==
  ASSUME NotedInv, NEW c \in Calls, Unheard(c)
  PROVE  Young' /\ Noted'
<1>0. ResumeInv /\ RunnerInv /\ Young /\ Noted
  BY DEF NotedInv, ResumeInv
<1>1. Collect(c) /\ UNCHANGED <<hub, phase, ends>>
  BY DEF Unheard
<1>2. NoRequest /\ Next /\ gens' = gens
  BY <1>1 DEF NoRequest, Next, Collect, runner
<1>3. UNCHANGED <<attempt, overlooked, fresh, before, ends, req, phase>>
  BY <1>1 DEF hub, session, history
<1>4. /\ NoStarter => NoStarter'
      /\ \A p \in Pids : Live(p)' => Live(p) /\ proc'[p].gen = proc[p].gen /\ (Recorded(p, Row) => Recorded(p, Row)')
  BY <1>0, <1>2, <1>3, ProcessesStay
<1>5. Noted'
  BY <1>0, <1>3, <1>4, NotedStays
<1>6. ends' \subseteq 1 .. gens
  BY <1>0, <1>3 DEF Young
<1>. QED
  BY <1>0, <1>2, <1>3, <1>4, <1>5, <1>6, YoungStays

LEMMA NotedBegins == ResumeInit => NotedInv
<1>. SUFFICES ASSUME ResumeInit PROVE NotedInv
  OBVIOUS
<1>1. ResumeInv /\ Init
  BY ResumeBegins
<1>2. /\ ends = {} /\ before = gens /\ fresh = FALSE /\ \A h \in Requests : req[h].at = "idle"
      /\ \A p \in Pids : phase[p] = "ready"
  BY DEF ResumeInit, Quiet
<1>3. gens \in Nat /\ \A p \in Pids : Live(p) => proc[p].gen = 1 /\ gens = 1
  BY <1>1, RunnerAssumption DEF Init, Live
<1>4. Young
  BY <1>2, <1>3 DEF Young
<1>5. ~Pending(Row)
  BY <1>1, ResumeAssumption DEF Init, Pending
<1>6. NoStarter
  BY <1>2, <1>5 DEF NoStarter
<1>7. Noted
  BY <1>2, <1>6 DEF Noted
<1>. QED
  BY <1>1, <1>4, <1>7 DEF NotedInv

LEMMA NotedSteps == NotedInv /\ [ResumeNext]_resumeVars => NotedInv'
<1>. SUFFICES ASSUME NotedInv, [ResumeNext]_resumeVars PROVE NotedInv'
  OBVIOUS
<1>1. ResumeInv'
  BY ResumeSteps DEF NotedInv
<1>2. CASE ResumeNext
  <2>1. Young' /\ Noted'
    BY <1>2, MachineNotes, NoticeNotes, ResumeStepNotes, UnheardNotes DEF ResumeNext
  <2>. QED
    BY <1>1, <2>1 DEF NotedInv
<1>3. CASE UNCHANGED resumeVars
  <2>1. UNCHANGED <<runner, call>> /\ UNCHANGED <<phase, ends, attempt, overlooked, fresh, before, req>>
    BY <1>3 DEF resumeVars, vars, hub, session, history
  <2>2. NoStarter => NoStarter'
    BY <2>1, StandStill DEF NoStarter
  <2>3. Noted'
    BY <2>1, <2>2, NotedStays DEF NotedInv
  <2>4. Young'
    BY <2>1, StandStill, YoungStays DEF NotedInv, Young
  <2>. QED
    BY <1>1, <2>3, <2>4 DEF NotedInv
<1>. QED
  BY <1>2, <1>3

(* As long as a process that was written down has not said ready, or is still to *)
(* be started, the row carries the attempt, for every number of resumes, restarts *)
(* and failed writes; unless it was settled by what tells nothing of the process. *)
THEOREM UnreadyAlwaysNoted == ResumeSpec => []UnreadyIsNoted
<1>1. NotedInv => UnreadyIsNoted
  BY DEF NotedInv, Noted, NoStarter, UnreadyIsNoted
<1>. QED
  BY NotedBegins, NotedSteps, <1>1, PTL DEF ResumeSpec

-----------------------------------------------------------------------------
(* Only an answer that the process is gone settles an attempt. *)
LEMMA SettlesWhenGone ==
  ASSUME ResumeInv, ResumeNext, NEW h \in Requests, Settles(h)
  PROVE  Hears(h) /\ IsGone(h) /\ req[h].call \in Calls
<1>1. ASSUME NEW g \in Requests, ResumeStep(g) PROVE g = h
  <2>1. StageMoves(g)
    BY <1>1, ResumeMoves DEF ResumeInv, RunnerInv
  <2>2. g # h => req'[h] = req[h]
    BY <2>1 DEF StageMoves, ResumeInv, HubTypes
  <2>. QED
    BY <2>2 DEF Settles
<1>2. ResumeStep(h)
  <2>1. UNCHANGED req \/ UNCHANGED attempt \/ \E g \in Requests : ResumeStep(g)
    BY DEF ResumeNext, MachineStep, SessionEnd, Expire, Archive, HubRestart, Alive, SaysReady, Leaves, Unheard, hub, session
  <2>. QED
    BY <1>1, <2>1 DEF Settles
<1>3. req[h].at \in {"reconciling", "cleaning", "stopping"} /\ attempt /\ ~attempt'
  BY DEF Settles
<1>4. Reconciled(h) \/ Cleaned(h) \/ Stopped(h)
  BY <1>2, <1>3 DEF ResumeStep, Progress, Resume, Reconcile, ResumeSettled, Spawned, Activated, ActivateTimeout,
                    Readied, Ended, ReadyTimeout, Inactivated
<1>5. Hears(h)
  BY <1>4 DEF Reconciled, Cleaned, Stopped
<1>6. UNCHANGED session => attempt' = attempt
  BY DEF session
<1>7. Quarantine => attempt'
  BY <1>3 DEF Quarantine
<1>8. IsGone(h)
  BY <1>3, <1>4, <1>6, <1>7 DEF Reconciled, Cleaned, Stopped, IsGone
<1>. QED
  BY <1>3, <1>5, <1>8 DEF ResumeInv, HubTypes, Waiting

(* An attempt that is cleared for an answer of the runner leaves no child that  *)
(* was written down before the runner was asked, if it knew one process: the    *)
(* answer is truthful when it is given, and still is when the hub reads it.     *)
THEOREM ClearedAlwaysGone == ResumeSpec => ClearedIsGone
<1>1. ASSUME ResumeInv, ResumeNext, NEW h \in Requests, Settles(h), call[req[h].call].sole,
             NEW p \in Pids, Recorded(p, Row)
      PROVE  proc[p].gen > call[req[h].call].since
  <2>1. Hears(h) /\ IsGone(h) /\ req[h].call \in Calls
    BY <1>1, SettlesWhenGone
  <2>2. call[req[h].call].row = Row
    BY <1>1, <2>1 DEF ResumeInv, CallsHeld
  <2>3. Recorded(p, Row)
    BY <1>1 DEF Recorded, Live, Recorded, Live
  <2>4. StopIsTruthful
    BY <1>1 DEF ResumeInv, RunnerInv
  <2>5. call[req[h].call].at = "answered" /\ call[req[h].call].out \in {"stopped", "already_gone"}
    BY <2>1 DEF Hears, IsGone, Out
  <2>. QED
    BY <1>1, <2>1, <2>2, <2>3, <2>4, <2>5 DEF StopIsTruthful
<1>2. ResumeInv /\ [ResumeNext]_resumeVars =>
        [\A h \in Requests : Settles(h) /\ call[req[h].call].sole =>
           \A p \in Pids : Recorded(p, Row) => proc[p].gen > call[req[h].call].since]_resumeVars
  BY <1>1
<1>. QED
  BY ResumeBegins, ResumeSteps, <1>2, PTL DEF ResumeSpec, ClearedIsGone
=============================================================================
