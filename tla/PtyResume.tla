----------------------------- MODULE PtyResume -----------------------------
(***************************************************************************)
(* Resuming a PTY session in place (hub/src/sync/syncEngine.ts): the hub    *)
(* asks the runner to spawn a process for the same row, waits until the    *)
(* process keeps the session alive and says that its terminal is ready,    *)
(* and stops it otherwise.  What it does not know the outcome of it writes *)
(* into the row before it asks (ptyResumeAttempt), so that a later resume, *)
(* perhaps of another hub process, first makes sure that nothing is left.  *)
(*                                                                         *)
(* The machine's side is SessionRunner; the requests of the hub are calls  *)
(* of the runner, and one that the hub has given up runs on.               *)
(***************************************************************************)
EXTENDS SessionRunner

CONSTANTS Row,          \* the row of the session
          Requests,     \* resumes that may be under way at once
          MaxResumes,   \* bound: resumes that go as far as a spawn
          MaxTroubles   \* bound: archives by the user, restarts of the hub, deaths of the runner,
                        \* keep-alives lost for half a minute and writes of the attempt that fail

VARIABLES
  phase,        \* of the process of a pid: running, ready or leaving
  ends,         \* session-end messages on their way, by the number of their process
  active,       \* session.active
  ready,        \* sessionReadyIds
  attempt,      \* metadata.ptyResumeAttempt, in the database
  inFlight,     \* ptyResumeInFlightIds
  quarantined,  \* ptyResumeQuarantinedIds
  req,          \* the resumes
  before,       \* history: the processes spawned when the last resume began
  fresh,        \* history: the ready bit was said since then
  overlooked,   \* history: what took the attempt of that resume away told nothing of its process
  resumes, troubles  \* so far

ASSUME ResumeAssumption ==
  /\ Row \in Rows /\ None \notin Calls
  /\ MaxResumes \in Nat /\ MaxTroubles \in Nat

session == <<active, ready, attempt>>
history == <<before, fresh, overlooked>>
hub == <<session, inFlight, quarantined, req, history>>
bounds == <<resumes, troubles>>
resumeVars == <<vars, phase, ends, hub, bounds>>

Trouble ==
  /\ troubles < MaxTroubles
  /\ troubles' = troubles + 1
  /\ UNCHANGED resumes
Quiet == [at |-> "idle", call |-> None]

Waiting == {"reconciling", "spawning", "cleaning", "stopping"}  \* for the runner
Asking == {"spawning", "activating", "cleaning", "readying", "stopping", "inactivating"}
Stages == {"idle", "reconciling", "settled"} \cup Asking

ResumeInit ==
  /\ Init
  /\ \A p \in Pids : Live(p) => proc[p].row = Row
  /\ phase = [p \in Pids |-> "ready"]
  /\ ends = {}
  /\ active = (gens > 0) /\ ready = (gens > 0)
  /\ attempt = FALSE /\ inFlight = FALSE /\ quarantined = FALSE
  /\ req = [h \in Requests |-> Quiet]
  /\ before = gens /\ fresh = FALSE /\ overlooked = FALSE
  /\ resumes = 0 /\ troubles = 0

-----------------------------------------------------------------------------
(* The process of the session *)

Speaks(p) == Live(p) /\ proc[p].told /\ phase[p] \in {"running", "ready"}

Alive(p) ==
  /\ Speaks(p) /\ ~active
  /\ active' = TRUE
  /\ UNCHANGED <<runner, call, phase, ends, ready, attempt, inFlight, quarantined, req, history, bounds>>

SaysReady(p) ==
  /\ Speaks(p) /\ phase[p] = "running"
  /\ phase' = [phase EXCEPT ![p] = "ready"]
  /\ ready' = TRUE /\ fresh' = TRUE
  /\ UNCHANGED <<runner, call, ends, active, attempt, inFlight, quarantined, req, before, overlooked, bounds>>

(* It cleans up and sends session-end before it goes; a process that is killed *)
(* does neither.                                                               *)
Goes(p) ==
  /\ Speaks(p)
  /\ phase' = [phase EXCEPT ![p] = "leaving"]
  /\ ends' = ends \cup {proc[p].gen}

Leaves(p) ==
  /\ Goes(p)
  /\ UNCHANGED <<runner, call, hub, bounds>>

(* What the machine does on its own.  A process that starts has yet to be ready. *)
(* Pids that go to strangers and markers that cannot be read are left to the     *)
(* runs of SessionRunner.                                                        *)
MachineStep ==
  /\ \/ Crash /\ Trouble
     \/ /\ \/ \E p \in Pids : \/ Webhook(p) \/ WebhookTimeout(p) \/ Prune(p)
                              \/ OwnExit(p) \/ Exit(p) \/ Start(Row, p, TRUE)
           \/ SpawnFails(Row)
           \/ \E c \in Calls : StopTimeout(c) \/ StopEnds(c)
           \/ Recover({})
        /\ UNCHANGED bounds
  /\ phase' = [p \in Pids |-> IF gens' > gens /\ proc'[p] # proc[p] THEN "running" ELSE phase[p]]
  /\ UNCHANGED <<ends, hub>>

-----------------------------------------------------------------------------
(* What the hub notices *)

(* The attempt is taken away by something that, unless sure, tells nothing of *)
(* the process it was written for.                                            *)
Settled(sure) == overlooked' = (overlooked \/ (attempt /\ ~sure))

(* handleSessionEnd: whatever attempt the row carries is cleared, though the end *)
(* may be that of a process from before the resume the attempt is of.            *)
EndSession(sure) == active' = FALSE /\ ready' = FALSE /\ attempt' = FALSE /\ Settled(sure)

SessionEnd ==
  /\ \E gen \in ends : ends' = ends \ {gen} /\ EndSession(gen > before)
  /\ UNCHANGED <<runner, call, phase, inFlight, quarantined, req, before, fresh, bounds>>

(* Thirty seconds without a keep-alive, of a process that is gone or cut off. *)
Expire ==
  /\ active
  /\ IF \E p \in Pids : Speaks(p) THEN Trouble ELSE UNCHANGED bounds
  /\ active' = FALSE
  /\ UNCHANGED <<runner, call, phase, ends, ready, attempt, inFlight, quarantined, req, history>>

(* archiveSession: the process is asked to end, and the session is ended at *)
(* once; the process sends its own session-end while it cleans up.          *)
Archive ==
  /\ active /\ Trouble
  /\ \/ \E p \in Pids : Goes(p) /\ EndSession(proc[p].gen > before)
     \/ (\A p \in Pids : ~Speaks(p)) /\ EndSession(FALSE) /\ UNCHANGED <<phase, ends>>
  /\ UNCHANGED <<runner, call, inFlight, quarantined, req, before, fresh>>

HubRestart ==
  /\ Trouble
  /\ active' = FALSE /\ ready' = FALSE /\ inFlight' = FALSE /\ quarantined' = FALSE
  /\ req' = [h \in Requests |-> Quiet]
  /\ UNCHANGED <<runner, call, phase, ends, attempt, history>>

-----------------------------------------------------------------------------
(* The steps of a resume.  One that is refused, or finds the session active, *)
(* changes nothing.                                                          *)

\* mutant: a second resume is not held up by the first
MutRefused == quarantined /\ ~attempt

Refused == inFlight \/ (quarantined /\ ~attempt)

Moves(h, at, c) == req' = [req EXCEPT ![h] = [at |-> at, call |-> c]]

Over(h) == req' = [req EXCEPT ![h] = Quiet] /\ inFlight' = FALSE

(* A request to the runner. *)
Stop(h, at) == \E c \in Calls : StopStep(c, Row) /\ Moves(h, at, c)

(* Its answer.  A stop is answered within the time of an rpc; a spawn that is *)
(* not reads as an error, and runs on.                                        *)
Hears(h) == call[req[h].call].at = "answered" /\ Collect(req[h].call)
Out(h) == call[req[h].call].out

\* mutant: a stop that fails is taken for one that found nothing
MutIsGone(h) == Out(h) # "still_alive"

IsGone(h) == Out(h) \in {"stopped", "already_gone"}

(* The answer speaks of every process that the resumes before it can have left:   *)
(* the runner knew one, has started none since it was asked, and is to start none. *)
Covers(h) == call[req[h].call].sole /\ call[req[h].call].since = gens /\ ~Pending(Row)

(* writePtyResumeAttempt(null), which may fail; the hub then refuses every resume *)
(* but one that settles the attempt.                                              *)
Clear(q) ==
  \/ attempt' = FALSE /\ quarantined' = q /\ UNCHANGED bounds
  \/ Trouble /\ quarantined' = TRUE /\ UNCHANGED attempt

(* The attempt of a row whose process is gone: the session is ended for it. *)
ClearGone(q) ==
  /\ Clear(q)
  /\ active' = FALSE /\ ready' = (ready /\ ~active)

(* The process may still be there: the row is closed until that is settled. *)
Quarantine ==
  /\ quarantined' = TRUE
  /\ \/ attempt' = TRUE /\ UNCHANGED bounds
     \/ Trouble /\ UNCHANGED attempt
  /\ UNCHANGED <<active, ready>>

(* The attempt is written, then the runner is asked. *)
Begin(h) ==
  /\ resumes < MaxResumes /\ resumes' = resumes + 1 /\ UNCHANGED troubles
  /\ attempt' = TRUE /\ ready' = FALSE
  /\ before' = gens /\ fresh' = FALSE /\ overlooked' = FALSE
  /\ IF up THEN (\E c \in Calls : Spawn(c, Row) /\ Moves(h, "spawning", c)) /\ inFlight' = TRUE
     ELSE Over(h) /\ UNCHANGED <<runner, call>>
  /\ UNCHANGED <<active, quarantined>>

Resume(h) ==
  /\ req[h].at = "idle" /\ ~Refused /\ ~attempt /\ ~active
  /\ Begin(h)

(* An attempt that was left behind is settled first. *)
Reconcile(h) ==
  /\ req[h].at = "idle" /\ ~Refused /\ attempt /\ up
  /\ Stop(h, "reconciling")
  /\ UNCHANGED <<session, inFlight, quarantined, history, bounds>>

Reconciled(h) ==
  /\ req[h].at = "reconciling" /\ Hears(h)
  /\ IF IsGone(h)
     THEN ClearGone(FALSE) /\ Settled(Covers(h)) /\ Moves(h, IF quarantined' THEN "idle" ELSE "settled", None)
     ELSE Moves(h, "idle", None) /\ UNCHANGED <<session, quarantined, overlooked, bounds>>
  /\ UNCHANGED <<inFlight, before, fresh>>

ResumeSettled(h) ==
  /\ req[h].at = "settled"
  /\ \/ ~inFlight /\ ~active /\ Begin(h)
     \/ (inFlight \/ active) /\ Moves(h, "idle", None)
        /\ UNCHANGED <<runner, call, session, inFlight, quarantined, history, bounds>>

\* mutant: a resume that fails takes its attempt with it
MutSpawned(h) ==
  /\ req[h].at = "spawning"
  /\ \/ Hears(h) /\ Out(h) = "success" /\ Moves(h, "activating", None) /\ UNCHANGED <<inFlight, attempt>>
     \/ Hears(h) /\ Out(h) # "success" /\ Over(h) /\ attempt' = FALSE
     \/ UNCHANGED <<runner, call>> /\ Over(h) /\ attempt' = FALSE
  /\ UNCHANGED <<active, ready, quarantined, history, bounds>>

Spawned(h) ==
  /\ req[h].at = "spawning"
  /\ \/ Hears(h) /\ Out(h) = "success" /\ Moves(h, "activating", None) /\ UNCHANGED inFlight
     \/ Hears(h) /\ Out(h) # "success" /\ Over(h)
     \/ UNCHANGED <<runner, call>> /\ Over(h)
  /\ UNCHANGED <<session, quarantined, history, bounds>>

Activated(h) ==
  /\ req[h].at = "activating" /\ active
  /\ Moves(h, "readying", None)
  /\ UNCHANGED <<runner, call, session, inFlight, quarantined, history, bounds>>

(* It did not come up in time: the attempt is settled as a later resume would. *)
ActivateTimeout(h) ==
  /\ req[h].at = "activating"
  /\ \/ attempt /\ up /\ Stop(h, "cleaning") /\ UNCHANGED <<inFlight, quarantined>>
     \/ attempt /\ ~up /\ Over(h) /\ quarantined' = TRUE /\ UNCHANGED <<runner, call>>
     \/ ~attempt /\ Over(h) /\ UNCHANGED <<runner, call, quarantined>>
  /\ UNCHANGED <<session, history, bounds>>

Cleaned(h) ==
  /\ req[h].at = "cleaning" /\ Hears(h) /\ Over(h)
  /\ IF IsGone(h) THEN ClearGone(FALSE) /\ Settled(Covers(h))
     ELSE quarantined' = TRUE /\ UNCHANGED <<session, overlooked, bounds>>
  /\ UNCHANGED <<before, fresh>>

Readied(h) ==
  /\ req[h].at = "readying" /\ ready
  /\ Over(h) /\ active' = TRUE /\ Clear(FALSE)
  /\ UNCHANGED <<runner, call, ready, history>>

Ended(h) ==
  /\ req[h].at = "readying" /\ ~ready /\ ~active
  /\ Over(h) /\ Clear(quarantined) /\ Settled(FALSE)
  /\ UNCHANGED <<runner, call, active, ready, before, fresh>>

(* The last look at the bit is a quarter of a second before the time is up. *)
ReadyTimeout(h) ==
  /\ req[h].at = "readying"
  /\ \/ up /\ Stop(h, "stopping") /\ UNCHANGED <<session, inFlight, quarantined, bounds>>
     \/ ~up /\ Over(h) /\ Quarantine /\ UNCHANGED <<runner, call>>
  /\ UNCHANGED history

Stopped(h) ==
  /\ req[h].at = "stopping" /\ Hears(h)
  /\ \/ Out(h) = "stopped" /\ Moves(h, "inactivating", None)
        /\ Settled(Covers(h)) /\ UNCHANGED <<session, inFlight, quarantined, bounds>>
     \/ Out(h) = "already_gone" /\ Over(h) /\ ClearGone(quarantined) /\ Settled(Covers(h))
     \/ ~IsGone(h) /\ Over(h) /\ Quarantine /\ UNCHANGED overlooked
  /\ UNCHANGED <<before, fresh>>

Inactivated(h) ==
  /\ req[h].at = "inactivating"
  /\ \/ ~active /\ Clear(quarantined) /\ UNCHANGED <<active, ready>>
     \/ Quarantine
  /\ Over(h)
  /\ UNCHANGED <<runner, call, history>>

(* An answer nobody waits for any more. *)
Unheard(c) ==
  /\ \A h \in Requests : req[h].call # c
  /\ Collect(c)
  /\ UNCHANGED <<hub, phase, ends, bounds>>

-----------------------------------------------------------------------------
Progress(h) ==
  \/ Reconciled(h) \/ ResumeSettled(h) \/ Spawned(h) \/ Activated(h) \/ ActivateTimeout(h) \/ Cleaned(h)
  \/ Readied(h) \/ Ended(h) \/ ReadyTimeout(h) \/ Stopped(h) \/ Inactivated(h)

ResumeStep(h) == (Resume(h) \/ Reconcile(h) \/ Progress(h)) /\ UNCHANGED <<phase, ends>>

ResumeNext ==
  \/ MachineStep \/ SessionEnd \/ Expire \/ Archive \/ HubRestart
  \/ \E p \in Pids : Alive(p) \/ SaysReady(p) \/ Leaves(p)
  \/ \E h \in Requests : ResumeStep(h)
  \/ \E c \in Calls : Unheard(c)

ResumeSpec == ResumeInit /\ [][ResumeNext]_resumeVars

-----------------------------------------------------------------------------
(* Properties *)

ResumeTypeOK ==
  /\ TypeOK
  /\ phase \in [Pids -> {"running", "ready", "leaving"}]
  /\ ends \subseteq 1 .. MaxGen
  /\ \A flag \in {active, ready, attempt, inFlight, quarantined, fresh, overlooked} : flag \in BOOLEAN
  /\ before \in 0 .. MaxGen
  /\ req \in [Requests -> [at : Stages, call : Calls \cup {None}]]
  /\ \A h \in Requests : req[h].call \in Calls <=> req[h].at \in Waiting
  /\ resumes \in 0 .. MaxResumes /\ troubles \in 0 .. MaxTroubles

(* One resume at most has asked the runner for a process, whatever was waited *)
(* for before, and "any readiness bit from the previous process must not       *)
(* satisfy the replacement process's readiness barrier": what a resume in      *)
(* flight finds was said after it began.  The bit does not tell who said it:   *)
(* what an older process says that late is taken for the new one's.            *)
Asked(h) == req[h].at \in Asking
OneResume ==
  /\ ResumeTypeOK
  /\ \A g, h \in Requests : Asked(g) /\ Asked(h) => g = h
  /\ inFlight <=> \E h \in Requests : Asked(h)
  /\ inFlight /\ ready => fresh

(* "Persist before spawn so a Hub restart cannot forget an in-place child whose  *)
(* readiness outcome is still unknown": as long as a process that was written    *)
(* down by the runner has not said ready, or is still to be started for a spawn  *)
(* that the hub gave up, the row carries the attempt, through restarts of the    *)
(* hub and of the runner, refused spawns, stops that fail and failed writes.     *)
(* It does not where the code settles an attempt without having heard of its     *)
(* process (overlooked): for the end of a process from before the resume, or an  *)
(* archive that reached no other; for inactivity, with no stop; for a stop that  *)
(* was answered before a process was started, or that ended the other of two.    *)
UnreadyIsNoted ==
  Pending(Row) \/ (\E p \in Pids : Recorded(p, Row) /\ phase[p] = "running") => attempt \/ overlooked

(* An attempt that is cleared for an answer of the runner, in a reconciliation, *)
(* a clean-up or after a barrier that timed out, leaves no child that was       *)
(* written down before the question, if the runner knew one process.  It says   *)
(* nothing of a child younger than the question: a second reconciliation that   *)
(* is answered after another resume has begun clears the attempt of that one,   *)
(* which UnreadyIsNoted counts as overlooked.                                   *)
Settles(h) == req[h].at \in {"reconciling", "cleaning", "stopping"} /\ req'[h].at # req[h].at /\ attempt /\ ~attempt'
ClearedIsGone ==
  [][\A h \in Requests : Settles(h) /\ call[req[h].call].sole =>
       \A p \in Pids : Recorded(p, Row) => proc[p].gen > call[req[h].call].since]_resumeVars
=============================================================================
