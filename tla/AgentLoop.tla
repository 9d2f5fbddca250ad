------------------------------ MODULE AgentLoop ------------------------------
(***************************************************************************)
(* The process of one session: the loop that runs a local and a remote     *)
(* launcher in turn, its prompt queue, the agent it speaks ACP with, the   *)
(* permissions that agent asks for, and what the hub shows and announces   *)
(* of them.  The hub's requests come in the order it sent them; the        *)
(* updates of the agent state are applied at the hub in the order they     *)
(* were made (VersionedField).                                             *)
(***************************************************************************)
EXTENDS Naturals, Sequences, SequencesExt, FiniteSets

CONSTANTS
  Prompts,        \* messages of the user
  Requests,       \* tool calls the agent asks permission for
  Captures,       \* the loop looks at the signal it waited on (grok, opencode,
                  \* cursor, codex), not at its successor (kimi, copilot)
  StartsRemote,   \* the session was started in remote mode
  Troubles,       \* what may happen once in a behaviour, of Kinds
  MaxTroubles     \* and how many of them

Kinds == {"abort", "switch", "exit", "quit", "fail", "cancel", "crash"}

ASSUME LoopAssumption == /\ Captures \in BOOLEAN /\ StartsRemote \in BOOLEAN
                         /\ Troubles \subseteq Kinds /\ MaxTroubles \in Nat

None == "none"
Modes  == {"remote", "local", "over"}
Places == {"setup", "top", "wait", "woken", "refused", "starting", "running",
           "draining", "leaving", "enter", "launched", "gone"}
Fates  == {"unsent", "sent", "collected", "given", "cancelled", "reset", "lost"}

VARIABLES
  inbox,          \* from the hub to the process: prompts, cancellations, calls
  mode, place,    \* which launcher runs, and where it is
  queue,          \* MessageQueue2.queue
  waiter,         \* MessageQueue2.waiter is set
  aborted,        \* the signal the wait was given has been aborted
  exitReason,     \* of the launcher that runs
  pending,        \* BasePermissionHandler.pendingRequests
  updates,        \* updateAgentState calls the hub has not applied yet
  agent,          \* the agent process: in a turn, told to stop, what it asks
  toAgent, fromAgent,
  shown,          \* the hub: session.agentState.requests
  active,         \* the hub: session.active
  known, timer,   \* NotificationHub: lastKnownRequests, a debounce is armed
  used,           \* the troubles that happened
  fate, asked, noticed, stale, stopping, emptied   \* history

cli   == <<inbox, mode, place, queue, waiter, aborted, exitReason>>
perm  == <<pending, updates>>
acp   == <<agent, toAgent, fromAgent>>
hub   == <<shown, active, known, timer, noticed, stale>>
ghost == <<fate, asked, stopping, emptied>>
vars  == <<cli, perm, acp, hub, ghost, used>>

Idle == [turn |-> FALSE, told |-> FALSE, asks |-> {}]

Init ==
  /\ inbox = <<>> /\ queue = <<>> /\ updates = <<>>
  /\ IF StartsRemote THEN mode = "remote" /\ place = "setup"
                     ELSE mode = "local" /\ place = "enter"
  /\ waiter = FALSE /\ aborted = FALSE /\ exitReason = None
  /\ pending = {} /\ agent = Idle /\ toAgent = <<>> /\ fromAgent = <<>>
  /\ shown = {} /\ active = TRUE /\ known = {} /\ timer = FALSE
  /\ used = {}
  /\ fate = [p \in Prompts |-> "unsent"]
  /\ asked = {} /\ noticed = {} /\ stale = {} /\ stopping = FALSE /\ emptied = FALSE

Spend(k) == /\ k \in Troubles \ used /\ Cardinality(used) < MaxTroubles
            /\ used' = used \cup {k}
Marked(ps, f) == [p \in Prompts |-> IF p \in ps THEN f ELSE fate[p]]
-----------------------------------------------------------------------------
(* The user, at a browser.  The hub's routes look at the session it has in  *)
(* its cache and pass the call on.                                          *)

Call(kind, what) == [kind |-> kind, what |-> what]

Send(p) ==
  /\ fate[p] = "unsent" /\ mode # "over"
  /\ fate' = [fate EXCEPT ![p] = "sent"]
  /\ inbox' = Append(inbox, Call("prompt", p))
  /\ UNCHANGED <<mode, place, queue, waiter, aborted, exitReason, perm, acp, hub,
                 asked, stopping, emptied, used>>

Passed(call) ==
  /\ active /\ mode # "over"
  /\ inbox' = Append(inbox, call)
  /\ UNCHANGED <<mode, place, queue, waiter, aborted, exitReason, perm, acp, hub, ghost>>

CancelPrompt(p) == fate[p] # "unsent" /\ Spend("cancel") /\ Passed(Call("cancel", p))
Abort           == Spend("abort") /\ Passed(Call("abort", None))
Switch          == Spend("switch") /\ Passed(Call("switch", None))

Answer(r, decision) ==
  /\ r \in shown
  /\ \A i \in DOMAIN inbox : inbox[i].what # r
  /\ Passed(Call(decision, r))
  /\ UNCHANGED used
-----------------------------------------------------------------------------
(* The queue of prompts and the one who waits on it.                        *)

Push(p) ==
  /\ queue' = Append(queue, p)
  /\ waiter' = FALSE
  /\ IF place = "launched"
     THEN /\ exitReason' = IF exitReason = None THEN "switch" ELSE exitReason
          /\ UNCHANGED place
     ELSE /\ place' = IF waiter THEN "woken" ELSE place
          /\ UNCHANGED exitReason

(* The first of that name is taken out.                                     *)
CancelByLocalId(p) ==
  /\ \/ \E i \in DOMAIN queue :
          /\ queue[i] = p /\ \A j \in 1..(i - 1) : queue[j] # p
          /\ queue' = RemoveAt(queue, i)
          /\ fate' = [fate EXCEPT ![p] = "cancelled"]
     \/ ~Contains(queue, p) /\ UNCHANGED <<queue, fate>>
  /\ emptied' = (emptied \/ (place = "woken" /\ queue # <<>> /\ queue' = <<>>))
  /\ UNCHANGED <<place, waiter, exitReason>>

(* Clearing the waiter does not call it: whoever waits learns it from the   *)
(* abort that follows.                                                      *)
Reset == queue' = <<>> /\ waiter' = FALSE /\ fate' = Marked(ToSet(queue), "reset")
-----------------------------------------------------------------------------
(* The permission handler.                                                  *)

Update(kind, r) == [kind |-> kind, what |-> r]

(* What is left of the shown requests after update u.                       *)
Applied(u, s) == CASE u.kind = "add"    -> s \cup {u.what}
                   [] u.kind = "remove" -> s \ {u.what}
                   [] u.kind = "cancel" -> {}

(* Mutant of AddPendingRequest: the request is not published.               *)
MutAddPendingRequest(r) == pending' = pending \cup {r} /\ UNCHANGED updates

AddPendingRequest(r) ==
  /\ pending' = pending \cup {r}
  /\ updates' = Append(updates, Update("add", r))

Respond(rs) == SetToSeq({Call("answer", r) : r \in rs})

CancelAll ==
  /\ pending' = {}
  /\ updates' = Append(updates, Update("cancel", None))

(* A permission answer: an abort decision cancels the turn first.           *)
Permission(r, decision) ==
  IF r \in pending
  THEN /\ pending' = pending \ {r}
       /\ toAgent' = toAgent \o (IF decision = "stop" THEN <<Call("cancel", None)>> ELSE <<>>)
                             \o Respond({r})
       /\ updates' = Append(updates, Update("remove", r))
       /\ stopping' = (stopping \/ (decision = "stop" /\ place = "running"))
  ELSE UNCHANGED <<perm, toAgent, stopping>>

(* Mutant of HandleAbort: the agent is not told.                            *)
MutHandleAbort ==
  /\ Reset
  /\ aborted' = TRUE
  /\ place' = IF place = "wait" THEN "refused" ELSE place
  /\ IF place = "setup" THEN UNCHANGED <<perm, toAgent, stopping>>
     ELSE /\ CancelAll
          /\ toAgent' = toAgent \o Respond(pending)
          /\ stopping' = (stopping \/ place = "running")

(* Mutant of HandleAbort: the queue is reset, which drops the waiter, and   *)
(* the signal is not aborted.                                               *)
MutHandleAbortNoSignal ==
  /\ Reset
  /\ UNCHANGED <<aborted, place>>
  /\ IF place = "setup" THEN UNCHANGED <<perm, toAgent, stopping>>
     ELSE /\ CancelAll
          /\ toAgent' = toAgent \o <<Call("cancel", None)>> \o Respond(pending)
          /\ stopping' = (stopping \/ place = "running")

(* Stop: cancel the agent's turn, answer what it asks, forget the queued    *)
(* prompts, and end the wait with a signal that is then replaced.  Before   *)
(* the launcher has its backend there is nothing but the queue.             *)
HandleAbort ==
  /\ Reset
  /\ aborted' = TRUE
  /\ place' = IF place = "wait" THEN "refused" ELSE place
  /\ IF place = "setup" THEN UNCHANGED <<perm, toAgent, stopping>>
     ELSE /\ CancelAll
          /\ toAgent' = toAgent \o <<Call("cancel", None)>> \o Respond(pending)
          /\ stopping' = (stopping \/ place = "running")

RequestExit(reason) ==
  /\ exitReason' = IF exitReason = None THEN reason ELSE exitReason
  /\ HandleAbort
-----------------------------------------------------------------------------
(* A call of the hub reaches the process.  A launcher has its handlers      *)
(* installed from the end of its set-up to the end of its loop.             *)

Installed == place \notin {"setup", "enter", "leaving", "gone"}

DoAbort ==
  IF ~Installed THEN UNCHANGED <<place, queue, waiter, aborted, exitReason, perm, toAgent,
                                 fate, stopping>>
  ELSE IF mode = "remote" THEN HandleAbort /\ UNCHANGED exitReason
  ELSE /\ Reset
       /\ exitReason' = IF exitReason = None THEN "switch" ELSE exitReason
       /\ UNCHANGED <<place, aborted, perm, toAgent, stopping>>

DoSwitch ==
  IF ~Installed THEN UNCHANGED <<place, queue, waiter, aborted, exitReason, perm, toAgent,
                                 fate, stopping>>
  ELSE IF mode = "remote" THEN RequestExit("switch")
  ELSE /\ exitReason' = IF exitReason = None THEN "switch" ELSE exitReason
       /\ UNCHANGED <<place, queue, waiter, aborted, perm, toAgent, fate, stopping>>

Receive ==
  /\ mode # "over" /\ inbox # <<>>
  /\ inbox' = Tail(inbox)
  /\ LET c == Head(inbox) IN
     \/ /\ c.kind = "prompt" /\ Push(c.what)
        /\ UNCHANGED <<aborted, perm, toAgent, fate, stopping, emptied>>
     \/ /\ c.kind = "cancel" /\ CancelByLocalId(c.what)
        /\ UNCHANGED <<aborted, perm, toAgent, stopping>>
     \/ c.kind = "abort" /\ DoAbort /\ UNCHANGED emptied
     \/ c.kind = "switch" /\ DoSwitch /\ UNCHANGED emptied
     \/ /\ c.kind \in {"reply", "stop"} /\ Permission(c.what, c.kind)
        /\ UNCHANGED <<place, queue, waiter, aborted, exitReason, fate, emptied>>
  /\ UNCHANGED <<mode, agent, fromAgent, hub, asked, used>>

(* The user leaves the remote screen at the terminal.                       *)
ExitFromUi ==
  /\ mode = "remote" /\ place \notin {"leaving", "gone"}
  /\ Spend("exit")
  /\ RequestExit("exit")
  /\ UNCHANGED <<inbox, mode, agent, fromAgent, hub, asked, emptied>>
-----------------------------------------------------------------------------
(* The remote launcher.                                                     *)

Stay == UNCHANGED <<inbox, mode, exitReason, hub, asked, stopping, emptied, used>>

SetUp ==
  /\ place = "setup" /\ place' = "top"
  /\ Stay /\ UNCHANGED <<queue, waiter, aborted, perm, acp, fate>>

Collect ==
  /\ place' = "starting"
  /\ queue' = <<>>
  /\ fate' = Marked(ToSet(queue), "collected")

(* The loop's test, and the part of the wait that runs at once.             *)
Top ==
  /\ place = "top"
  /\ aborted' = FALSE
  /\ \/ /\ exitReason # None
        /\ place' = "leaving" /\ UNCHANGED <<queue, waiter, fate>>
     \/ /\ exitReason = None /\ queue # <<>>
        /\ Collect /\ UNCHANGED waiter
     \/ /\ exitReason = None /\ queue = <<>>
        /\ place' = "wait" /\ waiter' = TRUE /\ UNCHANGED <<queue, fate>>
  /\ Stay /\ UNCHANGED <<perm, acp>>

(* Mutant of NoBatch: the loop looks at the signal that replaced the one it *)
(* waited on.                                                               *)
MutNoBatch == place' = "leaving" /\ UNCHANGED <<queue, fate>>

(* No batch: go round again if it was this wait that was aborted.  With the *)
(* signal read again after the wait it is never the aborted one.            *)
NoBatch ==
  /\ place' = IF Captures /\ aborted /\ exitReason = None THEN "top" ELSE "leaving"
  /\ UNCHANGED <<queue, fate>>

Resumed ==
  /\ \/ place = "woken" /\ queue # <<>> /\ Collect
     \/ place = "woken" /\ queue = <<>> /\ NoBatch
     \/ place = "refused" /\ NoBatch
  /\ Stay /\ UNCHANGED <<waiter, aborted, perm, acp>>

(* The model and the mode of the batch are set, the updates of the turn     *)
(* before are quiet, and the prompt goes out, whatever happened meanwhile.  *)
StartPrompt ==
  /\ place = "starting" /\ place' = "running"
  /\ toAgent' = Append(toAgent, Call("prompt", None))
  /\ fate' = [p \in Prompts |-> IF fate[p] = "collected" THEN "given" ELSE fate[p]]
  /\ Stay /\ UNCHANGED <<queue, waiter, aborted, perm, agent, fromAgent>>

(* The agent has answered session/prompt.                                   *)
PromptDone ==
  /\ place = "running" /\ fromAgent # <<>> /\ Head(fromAgent).kind = "done"
  /\ place' = "draining"
  /\ fromAgent' = Tail(fromAgent)
  /\ stopping' = FALSE
  /\ UNCHANGED <<inbox, mode, queue, waiter, aborted, exitReason, perm, agent, toAgent, hub,
                 fate, asked, emptied, used>>

TurnOver ==
  /\ place = "draining" /\ place' = "top"
  /\ CancelAll
  /\ toAgent' = toAgent \o Respond(pending)
  /\ Stay /\ UNCHANGED <<queue, waiter, aborted, agent, fromAgent, fate>>

(* cleanup() disconnects the agent, and the session's loop goes on.         *)
Leave ==
  /\ place = "leaving"
  /\ CancelAll
  /\ agent' = Idle /\ toAgent' = <<>> /\ fromAgent' = <<>>
  /\ waiter' = FALSE /\ exitReason' = None /\ stopping' = FALSE
  /\ IF exitReason = "switch" THEN mode' = "local" /\ place' = "enter"
                              ELSE mode' = "over" /\ place' = "gone"
  /\ UNCHANGED <<inbox, queue, aborted, hub, fate, asked, emptied, used>>
-----------------------------------------------------------------------------
(* The local launcher.                                                      *)

ToRemote == mode' = "remote" /\ place' = "setup" /\ exitReason' = None
ToEnd    == mode' = "over" /\ place' = "gone" /\ exitReason' = None

RunLocal ==
  /\ place = "enter"
  /\ IF queue # <<>> THEN ToRemote
                     ELSE place' = "launched" /\ UNCHANGED <<mode, exitReason>>
  /\ UNCHANGED <<inbox, queue, waiter, aborted, perm, acp, hub, ghost, used>>

(* The local agent ends: because it was told to, because the user left it,  *)
(* or because it failed.                                                    *)
LocalEnds ==
  /\ place = "launched"
  /\ \/ exitReason = "switch" /\ ToRemote /\ UNCHANGED used
     \/ exitReason = None /\ Spend("quit") /\ ToEnd
     \/ exitReason = None /\ Spend("fail") /\ IF StartsRemote THEN ToRemote ELSE ToEnd
  /\ UNCHANGED <<inbox, queue, waiter, aborted, perm, acp, hub, ghost>>
-----------------------------------------------------------------------------
(* The agent, an external process: it asks and finishes as it likes, and    *)
(* once told to stop it waits for nothing.                                  *)

AgentReads ==
  /\ toAgent # <<>>
  /\ toAgent' = Tail(toAgent)
  /\ LET c == Head(toAgent) IN
     agent' = CASE c.kind = "prompt" -> [Idle EXCEPT !.turn = TRUE]
                [] c.kind = "cancel" -> [agent EXCEPT !.told = agent.turn, !.asks = {}]
                [] c.kind = "answer" -> [agent EXCEPT !.asks = @ \ {c.what}]
  /\ UNCHANGED <<cli, perm, fromAgent, hub, ghost, used>>

AgentAsks(r) ==
  /\ agent.turn /\ ~agent.told /\ r \notin asked
  /\ agent' = [agent EXCEPT !.asks = @ \cup {r}]
  /\ fromAgent' = Append(fromAgent, Call("ask", r))
  /\ asked' = asked \cup {r}
  /\ UNCHANGED <<cli, perm, toAgent, hub, fate, stopping, emptied, used>>

AgentEndsTurn ==
  /\ agent.turn /\ agent.asks = {}
  /\ agent' = Idle
  /\ fromAgent' = Append(fromAgent, Call("done", None))
  /\ UNCHANGED <<cli, perm, toAgent, hub, ghost, used>>

(* A question of the agent: answered at once when the mode approves the     *)
(* tool, left to the user otherwise.                                        *)
HandlePermissionRequest ==
  /\ fromAgent # <<>> /\ Head(fromAgent).kind = "ask"
  /\ fromAgent' = Tail(fromAgent)
  /\ LET r == Head(fromAgent).what IN
     \/ AddPendingRequest(r) /\ UNCHANGED toAgent
     \/ toAgent' = toAgent \o Respond({r}) /\ UNCHANGED perm
  /\ UNCHANGED <<cli, agent, hub, ghost, used>>
-----------------------------------------------------------------------------
(* The hub: the agent state it shows, and what it announces of it.          *)

(* Mutant of Checked: a session that goes inactive keeps its known requests.*)
MutChecked(requests, isActive) ==
  IF isActive
  THEN known' = requests /\ timer' = (timer \/ ~(requests \subseteq known))
  ELSE UNCHANGED known /\ timer' = FALSE

(* NotificationHub.handleSyncEvent of an update of the session.             *)
Checked(requests, isActive) ==
  IF isActive
  THEN known' = requests /\ timer' = (timer \/ ~(requests \subseteq known))
  ELSE known' = {} /\ timer' = FALSE

ApplyUpdate ==
  /\ updates # <<>>
  /\ updates' = Tail(updates)
  /\ shown' = Applied(Head(updates), shown)
  /\ stale' = stale \cap shown'
  /\ Checked(shown', active)
  /\ UNCHANGED <<cli, pending, acp, active, noticed, ghost, used>>

NoticeFires ==
  /\ timer /\ timer' = FALSE
  /\ noticed' = IF active THEN noticed \cup shown ELSE noticed
  /\ UNCHANGED <<cli, perm, acp, shown, active, known, stale, ghost, used>>

(* The process is killed: what it had in memory, and what it had sent but   *)
(* the hub had not applied, is gone.                                        *)
Crash ==
  /\ mode # "over" /\ Spend("crash")
  /\ mode' = "over" /\ place' = "gone"
  /\ inbox' = <<>> /\ queue' = <<>> /\ waiter' = FALSE /\ exitReason' = None
  /\ pending' = {} /\ updates' = <<>>
  /\ agent' = Idle /\ toAgent' = <<>> /\ fromAgent' = <<>>
  /\ stale' = shown /\ stopping' = FALSE
  /\ fate' = [p \in Prompts |-> IF fate[p] = "collected" THEN "lost" ELSE fate[p]]
  /\ UNCHANGED <<aborted, shown, active, known, timer, noticed, asked, emptied>>

(* The session ends, or its heartbeat expires.                              *)
Inactive ==
  /\ mode = "over" /\ active /\ updates = <<>>
  /\ active' = FALSE
  /\ Checked(shown, FALSE)
  /\ UNCHANGED <<cli, perm, acp, shown, noticed, stale, ghost, used>>

(* The user resumes it: a new process on the same row, with the agent state *)
(* the row has.  The prompts left over are sent again (MessageDelivery).    *)
Resume ==
  /\ mode = "over" /\ ~active /\ "crash" \in used
  /\ mode' = "remote" /\ place' = "setup"
  /\ inbox' = <<>> /\ queue' = <<>>
  /\ active' = TRUE
  /\ Checked(shown, TRUE)
  /\ fate' = [p \in Prompts |-> IF fate[p] = "sent" THEN "unsent" ELSE fate[p]]
  /\ UNCHANGED <<waiter, aborted, exitReason, perm, acp, shown, noticed, stale,
                 asked, stopping, emptied, used>>
-----------------------------------------------------------------------------
User ==
  \/ \E p \in Prompts : Send(p) \/ CancelPrompt(p)
  \/ Abort \/ Switch \/ ExitFromUi
  \/ \E r \in Requests, decision \in {"reply", "stop"} : Answer(r, decision)

Process == Receive \/ SetUp \/ Top \/ Resumed \/ StartPrompt \/ PromptDone \/ TurnOver
             \/ Leave \/ RunLocal \/ LocalEnds \/ HandlePermissionRequest

Agent == AgentReads \/ AgentEndsTurn \/ \E r \in Requests : AgentAsks(r)

Hub == ApplyUpdate \/ NoticeFires \/ Inactive \/ Resume

Next == User \/ Process \/ Agent \/ Hub \/ Crash

Spec == Init /\ [][Next]_vars

(* The process handles what its event loop holds, the agent reads what it   *)
(* is sent and ends a turn in which it waits for nobody, and a local agent  *)
(* that was told to end does.  The user owes nothing.                       *)
Fairness ==
  /\ WF_vars(Receive) /\ WF_vars(SetUp) /\ WF_vars(Top) /\ WF_vars(Resumed)
  /\ WF_vars(StartPrompt) /\ WF_vars(PromptDone) /\ WF_vars(TurnOver) /\ WF_vars(Leave)
  /\ WF_vars(RunLocal) /\ WF_vars(LocalEnds /\ exitReason # None)
  /\ WF_vars(HandlePermissionRequest) /\ WF_vars(AgentReads) /\ WF_vars(AgentEndsTurn)

FairSpec == Spec /\ Fairness
-----------------------------------------------------------------------------
Calls == [kind : {"prompt", "cancel", "abort", "switch", "reply", "stop"},
          what : Prompts \cup Requests \cup {None}]

(* The variables have their types.                                          *)
TypeOK ==
  /\ inbox \in Seq(Calls)
  /\ mode \in Modes /\ place \in Places /\ exitReason \in {None, "switch", "exit"}
  /\ mode = "local" <=> place \in {"enter", "launched"}
  /\ mode = "over" <=> place = "gone"
  /\ queue \in Seq(Prompts)
  /\ waiter \in BOOLEAN /\ aborted \in BOOLEAN /\ (place = "wait" => waiter)
  /\ pending \subseteq Requests /\ shown \subseteq Requests
  /\ agent \in [turn : BOOLEAN, told : BOOLEAN, asks : SUBSET Requests]
  /\ active \in BOOLEAN /\ timer \in BOOLEAN /\ known \subseteq Requests
  /\ fate \in [Prompts -> Fates]

(* What the hub will show once every update under way is applied: what it   *)
(* shows or is told to show, unless a later update hides it.                *)
Hides(u, r) == u.kind = "cancel" \/ u = Update("remove", r)
WillShow ==
  {r \in Requests :
     \/ r \in shown /\ \A j \in DOMAIN updates : ~Hides(updates[j], r)
     \/ \E i \in DOMAIN updates :
          /\ updates[i] = Update("add", r)
          /\ \A j \in DOMAIN updates : j > i => ~Hides(updates[j], r)}

(* A question the agent waits on can be answered: it is on its way to the   *)
(* process, or it is pending there and the user will see it, or its answer  *)
(* or the end of the turn is on its way back. And the hub shows no request  *)
(* that nobody can answer: once the updates are applied it shows what is    *)
(* pending in the process, and what a process that was killed left behind.  *)
RequestsAgree ==
  /\ TypeOK
  /\ \A r \in agent.asks :
       \/ Contains(fromAgent, Call("ask", r))
       \/ r \in pending /\ r \in WillShow
       \/ Contains(toAgent, Call("answer", r))
       \/ Contains(toAgent, Call("cancel", None))
  /\ WillShow \ stale = pending

(* Whatever an active session waits for has been announced, or the timer    *)
(* that will announce it runs: across answers, further requests that arm it *)
(* anew, a session that goes inactive and one that returns.                 *)
NoticeComing == active => (timer \/ shown \subseteq noticed)

(* The remote launcher is left because somebody asked for it.  Holds for    *)
(* Captures = TRUE only: grok (grokRemoteLauncher.ts:237-244), opencode,    *)
(* cursor and codex keep the signal they waited on.  kimi                   *)
(* (kimiRemoteLauncher.ts:131-137) and copilot read the signal again, which *)
(* the stop has replaced: they behave as Captures = FALSE and leave after a *)
(* stop in a wait.  Known exception, for all of them: a prompt that woke    *)
(* the wait was cancelled before the loop ran (emptied).                    *)
LeavesWhenAsked == (place = "leaving" /\ exitReason = None) => emptied

(* As long as the agent is not left waiting for ever on an answer, a prompt *)
(* that was sent reaches it, or a stop, a cancellation or the end of the    *)
(* process takes it, whatever launcher runs.                                *)
PromptReachesAgent ==
  ([]<>(agent.asks = {})) =>
    \A p \in Prompts : (fate[p] = "sent") ~> (fate[p] \notin {"sent", "collected"} \/ mode = "over")

(* A turn the user stops ends, also when the agent's next question crosses  *)
(* the stop and nobody answers it.  A stop that comes before the prompt has *)
(* gone out does not stop it: it is not counted here.  And a remote         *)
(* launcher that was asked to leave does, with the proviso above.           *)
StopsAreObeyed ==
  /\ stopping ~> ~stopping
  /\ ([]<>(agent.asks = {})) =>
       ((mode = "remote" /\ exitReason # None) ~> (mode # "remote"))
=============================================================================
