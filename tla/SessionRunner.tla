--------------------------- MODULE SessionRunner ---------------------------
(***************************************************************************)
(* The runner of one machine (cli/src/runner/run.ts): it spawns session    *)
(* processes, learns from a webhook which row of the hub each of them      *)
(* serves, observes their exits and stops them.  Processes outlive it: a   *)
(* runner that is started again finds what it spawned in the file of       *)
(* resume processes, and tells a process from a stranger with the same pid *)
(* by its start marker.                                                    *)
(*                                                                         *)
(* Rows are the sessions of the hub.  A row is first served by a process   *)
(* that was spawned without it (Init); every later spawn names the row     *)
(* (existingSessionId), and the process that comes up confirms it.         *)
(***************************************************************************)
EXTENDS Naturals, FiniteSets

CONSTANTS Rows, Pids,
          Calls,        \* requests of the hub that may be under way at once
          None, Stranger,
          MaxGen,       \* bound: processes ever spawned
          MaxCrashes    \* bound: deaths of the runner

VARIABLES
  proc,         \* the processes of the machine, by pid
  gens,         \* spawned so far: the start marker of a process is its number
  up,           \* a runner lives
  crashes,
  handle,       \* pids of the ChildProcess objects of this runner
  tracked,      \* pidToTrackedSession
  requestedBy,  \* pidToRequestedSessionId
  childRow,     \* existingSessionIdByChildPid
  spawned,      \* completedOrInFlight of the deduplicator
  childAlive,   \* childState of the deduplicator
  exits,        \* verifiedExitTombstones, on disk
  records,      \* persistedResumeProcesses, on disk
  call          \* the requests of the hub

memory == <<handle, tracked, requestedBy, childRow, spawned, childAlive>>
runner == <<proc, gens, up, crashes, memory, exits, records>>
vars == <<runner, call>>

Process == [row : Rows, gen : 1 .. MaxGen,
            recorded : BOOLEAN,  \* the runner could read its marker and wrote it down
            told : BOOLEAN,      \* its webhook was sent
            doomed : BOOLEAN]    \* it was signalled
Record == [row : Rows, gen : 1 .. MaxGen, confirmed : BOOLEAN]
Call == [at : {"idle", "held", "killing", "answered"},
         row : Rows \cup {None}, pid : Pids \cup {None},
         known : BOOLEAN,        \* stopping a tracked process, not one found by its record
         since : 0 .. MaxGen,    \* processes spawned when a stop was received
         sole : BOOLEAN,         \* the runner then knew one process of the row at most
         out : {"none", "success", "error", "stopped", "already_gone", "still_alive"}]

ASSUME RunnerAssumption ==
  /\ MaxGen \in Nat /\ MaxCrashes \in Nat
  /\ None \notin Rows \cup Pids \cup Process \cup Record
  /\ Stranger \notin Process \cup {None}

Idle == [at |-> "idle", row |-> None, pid |-> None, known |-> FALSE, since |-> 0,
         sole |-> FALSE, out |-> "none"]
Live(p) == proc[p] \notin {None, Stranger}
Answer(c, out) == [c EXCEPT !.at = "answered", !.pid = None, !.out = out]

(* The row confirmed by the webhook of p, or the one asked for at its spawn. *)
SessionOf(p) == IF requestedBy[p] # None THEN requestedBy[p]
                ELSE IF tracked[p] = "confirmed" THEN proc[p].row ELSE None

(* One process at most serves its row since before the hub ever resumed it: it *)
(* was spawned without a row, confirmed it, and is not in the file.            *)
Init ==
  /\ \E first \in Pids \cup {None}, r \in Rows :
       /\ proc = [p \in Pids |->
            IF p = first THEN [row |-> r, gen |-> 1, recorded |-> FALSE, told |-> TRUE, doomed |-> FALSE]
            ELSE None]
       /\ gens = IF first = None THEN 0 ELSE 1
       /\ handle = {first} \ {None}
       /\ tracked = [p \in Pids |-> IF p = first THEN "confirmed" ELSE "no"]
  /\ gens <= MaxGen
  /\ up = TRUE /\ crashes = 0
  /\ requestedBy = [p \in Pids |-> None]
  /\ childRow = [p \in Pids |-> None]
  /\ spawned = [r \in Rows |-> "none"]
  /\ childAlive = [r \in Rows |-> FALSE]
  /\ exits = {}
  /\ records = [p \in Pids |-> None]
  /\ call = [c \in Calls |-> Idle]

-----------------------------------------------------------------------------
(* What several handlers do *)

(* The promise of the deduplicator settles: everyone who waits on it is answered. *)
Settle(calls, r, out) ==
  [c \in Calls |-> IF calls[c].at = "held" /\ calls[c].row = r THEN Answer(calls[c], out) ELSE calls[c]]

(* The deduplicator forgets the row of p. *)
Release(p) ==
  /\ spawned' = [r \in Rows |-> IF r = childRow[p] THEN "none" ELSE spawned[r]]
  /\ childAlive' = [r \in Rows |-> IF r = childRow[p] THEN FALSE ELSE childAlive[r]]
  /\ childRow' = [childRow EXCEPT ![p] = None]

Forgotten(p) ==
  /\ requestedBy' = [requestedBy EXCEPT ![p] = None]
  /\ records' = [records EXCEPT ![p] = None]

(* onChildExited(p): by the exit event, or by the health check. *)
ChildExited(p) ==
  /\ exits' = exits \cup ({SessionOf(p)} \ {None})
  /\ Release(p)
  /\ tracked' = [tracked EXCEPT ![p] = "no"]
  /\ Forgotten(p)

(* A pid is free for a child when no process has it; the system does not give *)
(* it out again while the runner keeps anything about its last holder.        *)
Free(p) ==
  /\ proc[p] = None /\ childRow[p] = None /\ records[p] = None
  /\ \A c \in Calls : call[c].pid # p

-----------------------------------------------------------------------------
(* Spawning *)

(* A spawn for a row: the first one starts it, the others share its result *)
(* for as long as the deduplicator keeps it.                               *)
Spawn(c, r) ==
  /\ up /\ call[c].at = "idle"
  /\ spawned' = [spawned EXCEPT ![r] = IF @ = "none" THEN "starting" ELSE @]
  /\ call' = [call EXCEPT ![c] =
       CASE spawned[r] \in {"none", "starting"} -> [Idle EXCEPT !.at = "held", !.row = r]
         [] spawned[r] = "ok" -> Answer([Idle EXCEPT !.row = r], "success")
         [] spawned[r] = "failed" -> Answer([Idle EXCEPT !.row = r], "error")]
  /\ UNCHANGED <<proc, gens, up, crashes, handle, tracked, requestedBy, childRow, childAlive, exits, records>>

Pending(r) == up /\ spawned[r] = "starting" /\ ~childAlive[r]

(* The directory is missing, the worktree fails, there is no pid. *)
SpawnFails(r) ==
  /\ Pending(r)
  /\ spawned' = [spawned EXCEPT ![r] = "none"]
  /\ call' = Settle(call, r, "error")
  /\ UNCHANGED <<proc, gens, up, crashes, handle, tracked, requestedBy, childRow, childAlive, exits, records>>

(* The process exists: it is registered, and written down if its marker can be read. *)
Start(r, p, readable) ==
  /\ Pending(r) /\ Free(p) /\ gens < MaxGen
  /\ gens' = gens + 1
  /\ proc' = [proc EXCEPT ![p] = [row |-> r, gen |-> gens', recorded |-> readable,
                                  told |-> FALSE, doomed |-> FALSE]]
  /\ exits' = exits \ {r}
  /\ childRow' = [childRow EXCEPT ![p] = r]
  /\ childAlive' = [childAlive EXCEPT ![r] = TRUE]
  /\ handle' = handle \cup {p}
  /\ tracked' = [tracked EXCEPT ![p] = "waiting"]
  /\ requestedBy' = [requestedBy EXCEPT ![p] = r]
  /\ records' = IF readable
                THEN [records EXCEPT ![p] = [row |-> r, gen |-> gens', confirmed |-> FALSE]]
                ELSE records
  /\ UNCHANGED <<up, crashes, spawned, call>>

(* A process reports its row.  One the runner no longer tracks (its time was *)
(* up, or the runner is a new one) is told to end.                           *)
Webhook(p) ==
  /\ Live(p) /\ ~proc[p].told
  /\ LET r == proc[p].row
         welcome == up /\ tracked[p] # "no"
         awaited == up /\ tracked[p] = "waiting"
     IN
       /\ proc' = [proc EXCEPT ![p].told = TRUE, ![p].doomed = @ \/ (up /\ ~welcome)]
       /\ tracked' = IF welcome THEN [tracked EXCEPT ![p] = "confirmed"] ELSE tracked
       /\ exits' = IF welcome THEN exits \ {r} ELSE exits
       /\ records' = IF welcome /\ records[p] # None
                     THEN [records EXCEPT ![p].confirmed = TRUE] ELSE records
       /\ spawned' = IF awaited THEN [spawned EXCEPT ![r] = "ok"] ELSE spawned
       /\ call' = IF awaited THEN Settle(call, r, "success") ELSE call
  /\ UNCHANGED <<gens, up, crashes, handle, requestedBy, childRow, childAlive>>

(* No webhook in time: the child is signalled and no longer tracked, but its *)
(* row stays with the deduplicator until it is gone.                         *)
WebhookTimeout(p) ==
  /\ up /\ tracked[p] = "waiting"
  /\ tracked' = [tracked EXCEPT ![p] = "no"]
  /\ proc' = [proc EXCEPT ![p].doomed = TRUE]
  /\ spawned' = [spawned EXCEPT ![childRow[p]] = "failed"]
  /\ call' = Settle(call, childRow[p], "error")
  /\ UNCHANGED <<gens, up, crashes, handle, requestedBy, childRow, childAlive, exits, records>>

-----------------------------------------------------------------------------
(* Exits *)

(* A child of this runner dies: the exit event follows in the same turn in  *)
(* which the system stops reporting it alive.                               *)
OwnExit(p) ==
  /\ up /\ p \in handle
  /\ proc' = [proc EXCEPT ![p] = None]
  /\ handle' = handle \ {p}
  /\ ChildExited(p)
  /\ call' = IF tracked[p] = "waiting" THEN Settle(call, childRow[p], "error") ELSE call
  /\ UNCHANGED <<gens, up, crashes>>

(* Any other process dies unnoticed. *)
Exit(p) ==
  /\ proc[p] # None /\ ~(up /\ p \in handle)
  /\ proc' = [proc EXCEPT ![p] = None]
  /\ UNCHANGED <<gens, up, crashes, memory, exits, records, call>>

(* A pid the runner may still know goes to a process that is none of its own. *)
Reuse(p) ==
  /\ proc[p] = None /\ \A c \in Calls : call[c].pid # p
  /\ proc' = [proc EXCEPT ![p] = Stranger]
  /\ UNCHANGED <<gens, up, crashes, memory, exits, records, call>>

SameProcess(p) == Live(p) /\ proc[p].gen = records[p].gen

(* Once a minute: a pid that is dead, or whose marker is readable and not the *)
(* recorded one, is treated as exited.                                        *)
Gone(p) ==
  \/ proc[p] = None
  \/ records[p] # None /\ ~SameProcess(p)

\* mutant: only tracked processes are checked
MutPrune(p) ==
  /\ up /\ tracked[p] # "no" /\ Gone(p)
  /\ ChildExited(p)
  /\ UNCHANGED <<proc, gens, up, crashes, handle, call>>

Prune(p) ==
  /\ up /\ (tracked[p] # "no" \/ childRow[p] # None) /\ Gone(p)
  /\ ChildExited(p)
  /\ UNCHANGED <<proc, gens, up, crashes, handle, call>>

(* The health check can probe a process that could not be probed when the *)
(* runner came up: it becomes the child of its row again.                 *)
Reverify(p) ==
  /\ up /\ records[p] # None /\ SameProcess(p)
  /\ childRow[p] # None /\ requestedBy[p] # records[p].row
  /\ LET r == records[p].row IN
       /\ requestedBy' = [requestedBy EXCEPT ![p] = r]
       /\ childAlive' = [childAlive EXCEPT ![r] = TRUE]
       /\ spawned' = [spawned EXCEPT ![r] = IF records[p].confirmed THEN "ok" ELSE "failed"]
  /\ UNCHANGED <<proc, gens, up, crashes, handle, tracked, childRow, exits, records, call>>

-----------------------------------------------------------------------------
(* Stopping *)

Serves(p, r) == tracked[p] # "no" /\ SessionOf(p) = r

(* Without a tracked process: what was asked for, or what the file says. *)
Fallback(r) == {p \in Pids :
  (IF requestedBy[p] # None THEN requestedBy[p]
   ELSE IF records[p] # None THEN records[p].row ELSE None) = r}

Known(r) == Fallback(r) \cup {p \in Pids : Serves(p, r)}
StopCall(r) == [Idle EXCEPT !.row = r, !.since = gens, !.sole = \A p, q \in Known(r) : p = q]

StopAnswer(c, r, out) == call' = [call EXCEPT ![c] = Answer(StopCall(r), out)]
StopWaits(c, r, p, known) ==
  /\ proc' = [proc EXCEPT ![p].doomed = TRUE]
  /\ call' = [call EXCEPT ![c] = [StopCall(r) EXCEPT !.at = "killing", !.pid = p, !.known = known]]

(* A tracked process is signalled; the request waits for it to go. *)
StopTracked(c, r, p) ==
  /\ up /\ call[c].at = "idle" /\ Serves(p, r)
  /\ StopWaits(c, r, p, TRUE)
  /\ UNCHANGED <<gens, up, crashes, memory, exits, records>>

(* A process found by its record is signalled if it is provably that one. *)
StopRecorded(c, r, p) ==
  /\ up /\ call[c].at = "idle" /\ \A q \in Pids : ~Serves(q, r)
  /\ p \in Fallback(r) /\ records[p] # None /\ SameProcess(p)
  /\ StopWaits(c, r, p, FALSE)
  /\ UNCHANGED <<gens, up, crashes, memory, exits, records>>

(* A process found by its record is gone, or its pid is somebody else's. *)
StopGone(c, r, p) ==
  /\ up /\ call[c].at = "idle" /\ \A q \in Pids : ~Serves(q, r)
  /\ p \in Fallback(r) /\ Gone(p)
  /\ exits' = exits \cup {r}
  /\ Forgotten(p) /\ Release(p)
  /\ StopAnswer(c, r, "already_gone")
  /\ UNCHANGED <<proc, gens, up, crashes, handle, tracked>>

(* Its marker cannot be read, or was never written down. *)
StopRefused(c, r, p) ==
  /\ up /\ call[c].at = "idle" /\ \A q \in Pids : ~Serves(q, r)
  /\ p \in Fallback(r) /\ proc[p] # None
  /\ StopAnswer(c, r, "still_alive")
  /\ UNCHANGED runner

(* Nothing is known of the row: only an exit that was seen counts. *)
StopUnknown(c, r) ==
  /\ up /\ call[c].at = "idle" /\ \A q \in Pids : ~Serves(q, r)
  /\ Fallback(r) = {}
  /\ StopAnswer(c, r, IF r \in exits THEN "already_gone" ELSE "still_alive")
  /\ UNCHANGED runner

(* The process did not go within the time a stop waits. *)
StopTimeout(c) ==
  /\ up /\ call[c].at = "killing" /\ proc[call[c].pid] # None
  /\ call' = [call EXCEPT ![c] = Answer(@, "still_alive")]
  /\ UNCHANGED runner

\* mutant: having signalled the process is taken for its end
MutStopEnds(c) ==
  /\ up /\ call[c].at = "killing"
  /\ call' = [call EXCEPT ![c] = Answer(@, "stopped")]
  /\ UNCHANGED runner

(* It went: its entries are removed, and its row released if the exit event *)
(* cannot have done so.                                                     *)
StopEnds(c) ==
  /\ up /\ call[c].at = "killing" /\ proc[call[c].pid] = None
  /\ LET p == call[c].pid IN
       /\ Forgotten(p)
       /\ IF call[c].known
          THEN tracked' = [tracked EXCEPT ![p] = "no"] /\ UNCHANGED <<childRow, spawned, childAlive>>
          ELSE Release(p) /\ UNCHANGED tracked
  /\ exits' = exits \cup {call[c].row}
  /\ call' = [call EXCEPT ![c] = Answer(@, "stopped")]
  /\ UNCHANGED <<proc, gens, up, crashes, handle>>

(* The hub has read the answer. *)
Collect(c) ==
  /\ call[c].at = "answered"
  /\ call' = [call EXCEPT ![c] = Idle]
  /\ UNCHANGED runner

-----------------------------------------------------------------------------
(* Death and recovery.  Sessions are detached: they stay.  A graceful shutdown *)
(* does to the sessions and the files what a crash does.                       *)

Crash ==
  /\ up /\ crashes < MaxCrashes
  /\ up' = FALSE /\ crashes' = crashes + 1
  /\ handle' = {}
  /\ tracked' = [p \in Pids |-> "no"]
  /\ requestedBy' = [p \in Pids |-> None]
  /\ childRow' = [p \in Pids |-> None]
  /\ spawned' = [r \in Rows |-> "none"]
  /\ childAlive' = [r \in Rows |-> FALSE]
  /\ call' = [c \in Calls |-> IF call[c].at \in {"held", "killing"} THEN Answer(call[c], "error") ELSE call[c]]
  /\ UNCHANGED <<proc, gens, exits, records>>

(* classifyRecoveredProcessGeneration, when the probe of the pids in blind fails *)
Exited(p, blind) == records[p] # None /\ Gone(p) /\ p \notin blind
Verified(p, blind) == records[p] # None /\ ~Gone(p) /\ p \notin blind
\* mutant: a process that cannot be probed is dropped
MutKept(p, blind) == Verified(p, blind)

Kept(p, blind) == records[p] # None /\ ~Exited(p, blind)

Recover(blind) ==
  LET kept == {p \in Pids : Kept(p, blind)}
      heldRows == {records[p].row : p \in kept}
  IN
  /\ ~up /\ blind \subseteq {p \in Pids : records[p] # None /\ proc[p] # None}
  /\ up' = TRUE
  /\ exits' = exits \cup {records[p].row : p \in {q \in Pids : Exited(q, blind)}}
  /\ records' = [p \in Pids |-> IF p \in kept THEN records[p] ELSE None]
  /\ requestedBy' = [p \in Pids |-> IF Verified(p, blind) THEN records[p].row ELSE None]
  /\ childRow' = [p \in Pids |-> IF p \in kept THEN records[p].row ELSE None]
  /\ childAlive' = [r \in Rows |-> r \in heldRows]
  /\ spawned' = [r \in Rows |->
       IF r \notin heldRows THEN "none"
       ELSE IF \E p \in Pids : Verified(p, blind) /\ records[p].row = r /\ records[p].confirmed
            THEN "ok" ELSE "failed"]
  /\ UNCHANGED <<proc, gens, crashes, handle, tracked, call>>

-----------------------------------------------------------------------------
ChildStep(p) ==
  \/ Webhook(p) \/ WebhookTimeout(p) \/ OwnExit(p) \/ Exit(p) \/ Reuse(p)
  \/ Prune(p) \/ Reverify(p)

SpawnStep(r) == SpawnFails(r) \/ \E p \in Pids, readable \in BOOLEAN : Start(r, p, readable)

StopStep(c, r) ==
  \/ \E p \in Pids : StopTracked(c, r, p) \/ StopRecorded(c, r, p) \/ StopGone(c, r, p) \/ StopRefused(c, r, p)
  \/ StopUnknown(c, r)

Work ==
  \/ \E p \in Pids : ChildStep(p)
  \/ \E r \in Rows : SpawnStep(r)
  \/ \E c \in Calls : StopTimeout(c) \/ StopEnds(c)
  \/ Crash
  \/ \E blind \in SUBSET Pids : Recover(blind)

Next ==
  \/ Work
  \/ \E c \in Calls : Collect(c) \/ \E r \in Rows : Spawn(c, r) \/ StopStep(c, r)

(* The event loop answers what it can, timers expire, a signalled process dies *)
(* (SIGTERM is followed by SIGKILL), the health check runs.  A probe that fails *)
(* for ever, and a supervisor that does not restart the runner, are not assumed *)
(* away: Recover is not fair.                                                   *)
Fairness ==
  /\ \A r \in Rows : WF_vars(SpawnStep(r))
  /\ \A c \in Calls : WF_vars(StopTimeout(c) \/ StopEnds(c))
  /\ \A p \in Pids :
       /\ WF_vars(WebhookTimeout(p))
       /\ WF_vars(Live(p) /\ proc[p].doomed /\ (OwnExit(p) \/ Exit(p)))
       /\ WF_vars(Prune(p))

Spec == Init /\ [][Next]_vars
FairSpec == Spec /\ Fairness

-----------------------------------------------------------------------------
(* Properties *)

TypeOK ==
  /\ proc \in [Pids -> Process \cup {None, Stranger}]
  /\ gens \in 0 .. MaxGen
  /\ up \in BOOLEAN /\ crashes \in 0 .. MaxCrashes
  /\ handle \subseteq Pids
  /\ tracked \in [Pids -> {"no", "waiting", "confirmed"}]
  /\ requestedBy \in [Pids -> Rows \cup {None}]
  /\ childRow \in [Pids -> Rows \cup {None}]
  /\ spawned \in [Rows -> {"none", "starting", "ok", "failed"}]
  /\ childAlive \in [Rows -> BOOLEAN]
  /\ exits \subseteq Rows
  /\ records \in [Pids -> Record \cup {None}]
  /\ call \in [Calls -> Call]

(* A child that was written down is the only one of its row that was, through *)
(* timeouts, stops, deaths of the runner and probes that fail: a second agent *)
(* on the same row would write into the same transcript.                      *)
Recorded(p, r) == Live(p) /\ proc[p].recorded /\ proc[p].row = r
OneRecordedChild ==
  \A r \in Rows : \A p, q \in Pids : Recorded(p, r) /\ Recorded(q, r) => p = q

(* A stop that was answered stopped or already_gone has left no child of the *)
(* row that was written down before the request, unless the runner knew two  *)
(* processes of the row: stopSession returns at the first.                   *)
StopIsTruthful ==
  \A c \in Calls :
    call[c].at = "answered" /\ call[c].sole /\ call[c].out \in {"stopped", "already_gone"} =>
      \A p \in Pids : Recorded(p, call[c].row) => proc[p].gen > call[c].since

(* A row whose child is gone does not stay with the deduplicator: it can be *)
(* spawned again, whatever path the child went. And every request of the    *)
(* hub is answered.                                                         *)
RunnerSettles ==
  /\ \A r \in Rows :
       (up /\ childAlive[r] /\ \A p \in Pids : ~(Live(p) /\ proc[p].row = r))
         ~> (~up \/ ~childAlive[r])
  /\ \A c \in Calls : (call[c].at \in {"held", "killing"}) ~> (call[c].at \in {"answered", "idle"})
=============================================================================
