# HAPI in TLA+

HAPI runs coding agents on the user's machines and shows them in a browser. A
**hub** (`hub/`) keeps sessions, machines and messages in SQLite and talks
socket.io to **CLI processes** (`cli/`), one per session, which wrap an agent; a
**runner** per machine starts and stops those processes at the hub's request; a
**web application** (`web/`) reads the hub over HTTP and server-sent events.

This directory holds TLA+ models of the parts where several of these processes
share state across messages that are lost, late or repeated, TLC runs that check
them on small instances, and TLAPS proofs of what matters most for any number of
prompts, clients, rows and processes.

    tlasany M.tla                                 parses a module
    tlc -workers 2 -config X.cfg MCModule         checks a configuration
    tlapm MProofs.tla                             checks proofs

`PROJECT.json` lists the runs with their modules, the lines of the source each
definition stands for, the mutants each property was shown to detect, the
findings, the theorems and the hazards.

## 1. Inventory

| Component | State | Operations | What is hard | What makes it correct |
|---|---|---|---|---|
| Message delivery: `hub/src/sync/messageService.ts`, `hub/src/store/messages.ts`, `cli/src/api/apiSession.ts`, `cli/src/utils/MessageQueue2.ts` | rows with `invoked_at`, `seq`, `scheduled_at`; what the scan has announced; the CLI's filter, cursor and queue | post, retry, replay on keep-alive, scan of scheduled rows, cancel with ack, sweep at session end, backfill on reconnect, acknowledge | sockets lose what is in flight; the same prompt is emitted on four paths; a cancel races the agent; either process restarts | a prompt is not early, not queued twice, not lost; a cancel that was confirmed stands |
| Versioned columns: `apiSession.ts`, `apiMachine.ts`, `cli/src/utils/lock.ts`, `time.ts`, `hub/src/store/versionedUpdates.ts` | value and version in the row, each client's copy, the client's lock | update, retry with backoff, flush, broadcast, reconcile on refusal | lost answers, two writers, the hub itself writes | no update lost but with a value nobody could read, effects in the order of the calls, flush means stored |
| `/clear` of OpenCode: `hub/src/sync/syncEngine.ts`, `hub/src/store/index.ts`, `cli/src/opencode/*` | an operation in the session's metadata, the redirect and the gate of posts | reserve, confirm, abort, spawn, move, link, 5-second reconciliation, resume | every step may be lost, late or cut by a death of the hub, the CLI or the runner, while prompts arrive | the two agents exclude each other, prompts follow the session that lives on, the operation ends |
| Runner: `cli/src/runner/run.ts` | maps by pid, the deduplicator of spawns, two files that outlive it | spawn, webhook, timeout, exit, stop, health check, recovery | detached children outlive the runner, pids are reused, probes fail, webhooks are late | one child per row, a stop is truthful, a row is released when its child is gone |
| Resume of a PTY session in place: `syncEngine.ts` | the attempt in the row, sets in memory, the ready bit | resume, barrier of activity and readiness, stop, reconcile, quarantine | minutes of awaits, over restarts of hub and runner | one resume at a time, none forgotten, no readiness of an older process |
| Session cache and liveness: `hub/src/sync/sessionCache.ts` | active, thinking, the start of the turn, the grace of queued prompts, configuration | keep-alive, acknowledgement, end, expiry, archive, configuration of a live and of an inactive session, resume | keep-alives every 2 seconds cross changes of the configuration, answers that come late, restarts | the flags end with what they stand for, a stale keep-alive does not undo a change |
| Event stream: `hub/src/sse/sseManager.ts`, `hub/src/web/routes/events.ts`, `web/src/hooks/useSSE.ts` | a ring of numbered events, one connection, the browser's cursor | broadcast, subscribe, verdict, replay, drain of what queued behind it | broadcasts during a replay, evictions, restarts of the hub | each event once and in order, or a gap is told |
| Live view of messages: `web/src/lib/message-window-store.ts`, `hub/src/store/messages.ts`, `messageService.ts` | the window of a session, its two ends, its epoch, what is under way; the rows and their epoch | latest page, catch-up, older pages, reset, trim, scrolling, reconciliation of queued prompts; insert, consume, cancel, rewind | pages and events travel apart and cross; rows move when they are consumed | the window has every row from its oldest on, and none the hub no longer has |
| Agent loop: `cli/src/agent/loopBase.ts`, `modules/common/remote/RemoteLauncherBase.ts`, `launcher/BaseLocalLauncher.ts`, `kimi/kimiRemoteLauncher.ts` and its siblings | which launcher runs and where it is, the queue's waiter, the abort signal, the reason to leave | set-up, wait, batch, turn, stop, switch, exit | a stop in every phase; signals that are replaced; wake-ups that find nothing | the loop ends only when asked to, a stop is obeyed, a prompt reaches the agent |
| CLI message queue: `MessageQueue2.ts` | entries and one waiter | push, batch, cancel, reset | wake-up against cancel | nothing but an abort or a close ends a wait without a prompt |
| Permission requests: `cli/src/modules/common/permission/*` | requests in memory and in `agentState` | request, answer, abort, end of the turn | answer against abort, a killed process | what is shown can be answered, what the agent waits for is shown |
| Notifications: `hub/src/notifications/notificationHub.ts` | the requests known, a debounce timer | check of each session update, timer | a timer that is armed anew, sessions that end and return | what an active session waits for is announced |
| Web terminals: `hub/src/socket/terminalRegistry.ts`, `handlers/terminal.ts`, `userTerminalBuffer.ts`, `cli/src/terminal/TerminalManager.ts`, `web/src/hooks/useTerminalSocket.ts` | entries by socket and session, scrollback, shells, idle timers | create, reconnect and replay, write, output, exit, error, idle | both sides reconnect, the hub holds two sockets of one process | the screen is complete, the page learns of the end, entries and shells agree, limits hold |
| Reopen, fork, rewind, handoff, Pi resume: `syncEngine.ts` | metadata of one or two rows | long sequences of RPCs | partial failure | rollback, no two agents in one transcript |
| Session merge: `sessionCache.ts` | two rows | move messages, merge metadata, deduplicate | metadata is computed from rows read before an await and written with a version read after it (`sessionCache.ts:1138`) | nothing lost |
| RPC registry and gateway: `hub/src/socket/rpcRegistry.ts`, `rpcGateway.ts` | owner of each method | register, call, time out | two sockets with the same method | the live one is called |
| Agent adapters, commands, user interface, authentication, configuration, imports, telegram, tunnels, shared schemas | | | adapters, rendering, parsing | not modelled: sequential, or foreign processes |

Interactions. The hub emits to a CLI through a socket.io room (nothing is kept
for an empty room) and calls it or the runner by RPC with an acknowledgement and
a timeout of 30 seconds (a call that timed out runs on). A CLI emits keep-alives
every 2 seconds, acknowledgements, versioned updates with acknowledgement,
`session-ready` and `session-end`. A process the runner started reports to the
runner over HTTP (the webhook). Hub and runner keep what must outlive them in
SQLite and in two JSON files. A browser reads pages of messages over HTTP and is told
of changes by server-sent events, two channels that cross; its terminals have a
socket of their own, which the hub joins to that of the process. A process speaks
ACP with its agent over a pipe, and publishes what the agent asks in the versioned
agent state, from which the hub's notifications are made.

## 2. Modules

| Module | Role |
|---|---|
| `PromptLedger` | what a row of a prompt promises: enters once, is stamped once or deleted while queued |
| `MessageDelivery` | the delivery of prompts; implements `PromptLedger` |
| `MessageDeliveryProofs` | its theorems |
| `UpdateLog` | what a column promises: updates are only appended, unless its value cannot be read; one that was stored while its answer was lost may be appended again |
| `VersionedField` | one versioned column and its writers; implements `UpdateLog` |
| `VersionedFieldProofs` | its theorems |
| `HandOff` | what a clear promises: a replacement is reserved, then given up or committed and taken over for good |
| `OpenCodeClear` | the clear; implements `HandOff` |
| `OpenCodeClearProofs` | its theorems |
| `SessionRunner` | the runner, its files and the processes of the machine |
| `PtyResume` | the hub's resume of a PTY session; extends `SessionRunner` |
| `RunnerProofs` | the theorems of both |
| `EventFeed` | what a subscription promises a browser: every event in order, or it is told of a gap |
| `EventStream` | the hub's ring, the connection and the browser's cursor; implements `EventFeed` |
| `LiveView` | the window of messages in a browser; extends `EventStream` with the rows, the pages of the hub and the window |
| `LiveViewProofs` | the theorems of both |
| `SessionAlive` | what the hub shows of a session whose process lives, stalls or is gone |
| `SessionAliveProofs` | its theorems |
| `AgentLoop` | the process of a session: launchers, queue, permissions, and what is announced of them |
| `AgentLoopProofs` | its theorems |
| `WebTerminals` | terminals of pages: page, registry, scrollback and shells |
| `WebTerminalsProofs` | its theorems |
| `MC...` | the definitions that the configurations need |

An action is one handler of the code up to its next `await`; what a handler calls synchronously is part of its action.

### MessageDelivery

`row`, `seq`, `by` are the columns of a row (`by` records who wrote `invoked_at`);
`cancelling`, `notified` the hub's memory; `down`, `up` the two directions of
the socket, emptied when it drops (what a CLI without a socket emits waits in `up` for the
next connection, over a restart of the hub too); `seen`, `cursor`, `queue`, `fetch`, `page`
the CLI's filter, cursor, queue and the backfill under way; `done`, `ran` what
the agent had of this and of any CLI process. `Post`, `Repost`, `Tick`,
`HubAlive`, `CancelRequest`, `HubAck`, `CancelTimeout`, `HubEnd`, `HubConsumed`,
`BackfillServe` are the hub's handlers, `CliNew`, `CliCancel`, `KeepAlive`,
`Connect`, `Backfill...`, `AgentTakes`, `AgentAbort`, `SessionEnds` the CLI's.

Bounds. `Limit` and `Kinds` bound how often, and how many different, faults a
behaviour has; `FilterCap`, `PageLimit` stand for 256 and 200. Two prompts are
enough for every order of two rows, a page that ends between them, and a filter
that must keep both. The filter has room for every prompt, so it forgets none in the
runs: what the code does when more prompts are pending than it can hold (hazard at
`apiSession.ts:153`) is outside of `NoRepeat` and of `ConfirmedCancelStands`. Restrictions: one session and one socket of it at a time,
prompts with a `localId`, no second post of a `localId` whose row was cancelled,
one cancel in flight per prompt, no timer emits a prompt that is already in
flight (which only repeats what the filter drops), no clear under way.

Fairness (`delivery_live`): the timers of the hub, the event loops of both
processes and the network go on; `Start` is the one assumption on the user, that
a session which ended is resumed. Aborted turns and crashes of the hub are not
among the faults of that run: a turn that is aborted drops prompts the filter
then refuses (hazard at `MessageQueue2.ts:275`).

### VersionedField

`row` and each `view` are a value with its version; the value is the sequence of
updates folded into it, so that a lost or doubled update shows. `up` and `down`
are the socket. A call goes from `new` over the lock (`queued`, `waiters`,
`permits`) and the phases of a request to `done`, or is `lost` with its process.
`Locked` and `NewerOnly` distinguish a session's client (lock, adopts a newer
broadcast only) from a machine's (neither); `session_column` and
`machine_column` are the two settings. `HubUpdates` are changes the hub makes
itself.

The hub stores any value, while a client parses what it is sent. `Unreadable` is the set of
values the clients' schema refuses: `Adopt` takes the version of such a copy over and keeps
the old value (`versionedUpdate.ts:43-50`, `apiMachine.ts:616-639`), and a process that
starts on one begins with nothing. So a copy with the current version has the current value
unless that one is unreadable (`CurrentCopyIsCurrent`), and a writer that passes the version
check from there writes over what it could not read: `overwritten` records what went that
way, and `NoLostUpdate` says that nothing goes any other way. In `session_column` the values
with the process's second update cannot be read, in `machine_column` those with the hub's.

Not modelled: a flush that gives up by timeout. The backoff retries without end, so fairness of each retry is what the
code does as long as the hub is reachable.

### OpenCodeClear

`op`, `linked`, `archived` are the source's metadata; `task` and `resuming` the
hub's two awaits on the runner; `proc` the phase of the source's process, `sent`
the requests that may arrive a second time; `child`, `ordered` the runner's
side; `address`, `at`, `invoked` a prompt's route and rows; `inbox`, `ran` what
reached the agents. An agent takes a prompt (`Run`) and its process emits
`messages-consumed` (`acks`), which the hub hears later (`Consumed`) or never (`AcksLost`,
and `Dies` for what the socket of a dead process had not sent); only then is the row
stamped. What a process emits is handled in order, so that its end is heard after its
acknowledgements (`Settled`). `had` are the prompts a process was sent, a repetition of
which its filter drops. `unheard` is history: the prompts whose row `Relocate` moved to
another session after an agent had run them.

`RunsInOneSession` says in which cases alone the agents of two sessions run one prompt: a
repeated post made a second row, or the row was moved before the hub heard that the prompt
had been consumed; and that the second takes a loss, a crash, a silence, a restart or a
resume (`Silencers`), because the clear moves rows only after the source has ended, which
otherwise is heard after its acknowledgements. Both cases are behaviours of the code.

Two ids are enough for a clear that was given up and a
second one. Restrictions: one source; prompts to run at once; a child is in its room from
its start; the answer of `stopRunnerSession` is truthful, which is what
`SessionRunner` shows of it. Order among the prompts of a session is not stated.

Bounds. Each of ten kinds of fault happens once at most, and `Kinds` of them in
one behaviour: three in the run, four by hand for safety (829 453 states).

Fairness (`clear_faults`): the 5-second tick, the answers of the runner, the expiry
of a silent session, the handling of acknowledgements that arrive, and the CLI's own steps once its agent is gone. The user
does nothing.

### SessionRunner

`proc` is the machine: what runs under each pid, with its number as its start
marker. `handle`, `tracked`, `requestedBy`, `childRow`, `spawned`, `childAlive`
are the maps of `startRunner` and of the deduplicator; `exits` and `records` the
two files. A request of the hub (`call`) waits on the deduplicator (`held`) or on
the end of a process (`killing`). `Crash` empties the memory, `Recover` reads
the files with any set of pids whose probe fails.

A property speaks of *recorded* children, those whose marker could be read at
their start: one that could not is not in the file, and nothing in the code can
find it after the runner died.

Restrictions: a process serves the row it was asked for; a pid is not given to a
child while the runner has an entry for its last holder (a stranger may get it);
a child's death and its exit event are one step; spawn and the write of its
record are one synchronous turn; a graceful shutdown leaves sessions and files as
a crash does. Sessions started from a terminal are not modelled.

Fairness (`runner_faults`): timers of the runner, death of a process that was
signalled (SIGKILL follows SIGTERM), the health check. A supervisor that
restarts the runner is not assumed: the liveness properties allow `~up`, or are
about requests, which fail when the runner dies. Deadlock is checked: the system
never stops, since the hub can always ask.

### PtyResume

Extends `SessionRunner`, of which it is about one row, `Row`, and shares its variables; the
hub's requests are the runner's calls, and one that nobody waits for any more
is collected by `Unheard`. `attempt` is `metadata.ptyResumeAttempt`, `inFlight`
and `quarantined` the two sets in memory, `ready` the ready bit; `req` the
resumes, each at one of its awaits. `before`, `fresh` and `overlooked` are history: the
processes there were when the last resume began, whether the ready bit was said since, and
whether what took its attempt away told nothing of its process.

`UnreadyIsNoted` is what the attempt is for: as long as a recorded process has not said
ready, or a spawn that the hub gave up is still to start one, the row carries the attempt.
It relates the row to the processes of the machine; the attempt itself is no part of the
history. `overlooked` is set, and the property silent until the next resume begins, where
the code clears an attempt knowing nothing of its process: a session-end of a process from
before the resume (`syncEngine.ts:575`), an archive that reached no younger one, a session
that is reported inactive during the barrier (`:2969`), and an answer of the runner that
does not cover the process of the attempt (`Covers`): it was given before a process was
started or while a spawn was pending, or it was about one of two processes. That includes a second
reconciliation that is answered after another resume has begun (`:3616-3622`) and clears
the attempt of that one. Each of these does occur: TLC violates the property when the case
is not excused, in `resume_faults`, and for the two of an archive with two troubles.
`ClearedIsGone` is about answers: what one settles is gone, as far as it was written down
before the question. `OneResume` knows when the ready bit was set, not by whom: what an
older process says after the resume began passes for the new one.

Restrictions: one row; stops answer within the time of an RPC (2 + 1 + 5 seconds
at most, of 30), spawns may not; strangers and unreadable markers are left to
`runner_faults`; a ready message of a process that died meanwhile is not in
flight; the first write of an attempt succeeds (its failure refuses the resume
and changes nothing); `MaxTroubles` is one budget for archives, restarts of the
hub, deaths of the runner, lost keep-alives and failed writes. A resume that is
refused, or finds the session active, changes nothing and is no step.

### EventFeed, EventStream

`eventBuffer` is the ring of `sseManager.ts`, `connection` the one subscription
with the replay it is being written and what queues behind it, `wire` the bytes
under way, `cursor` the id the browser sends when it reconnects. `Broadcast`,
`Subscribe`, `WriteReplay`, `DrainPending`, `HandleFrame`, `Drop`, `HubRestart`
are the steps of the hub, the route and the hook. `sent`, `position` and `told`
count what `EventFeed` promises; the frames carry the number of their event, a
field the code does not have.

The ring has place for two events of five, so that every amount can be evicted
before, while and after a browser is away; `Elsewhere` stands for events that
take a number but that `shouldSend` keeps from this subscription. Not modelled:
the byte budget of the ring (a second reason to evict the oldest), heartbeats,
visibility, more than one subscription (they share nothing but the ring).

Fairness: the browser reconnects, the route writes, the browser reads (strongly:
a connection may break again and again before it does). Nothing limits the number
of breaks.

### LiveView

Extends `EventStream`: its events are the changes of the rows, its verdicts start
a sync. `row` is the table, `epoch` the epoch of the session. `win` is the window:
rows, its two ends `newest` and `oldest`, the epoch it belongs to, whether older
rows exist, whether it must be read anew, and whether the reader is at the tail or
in the history. `sync`, `older` and `recons` are the requests under way, each a
record with what was asked and, once the hub has served it, the page. A position is
`(invokedAt ?? createdAt, seq)` as one number. `Post`, `Output`, `Consume`,
`Cancel`, `Rewind` are the hub's writes; `Handle` reads a frame and does all the
window does with it; `Sync...`, `Reconcile...`, `Older...` the three kinds of
requests; `ScrollBack`, `ReturnToTail`, `LoadOlder` the reader.

`owed`, `jumped` and `doubtful` are history. They carve out, each for the property
that names it, the behaviours listed under "Seen while modelling": with them the
properties say when the window is complete and current, and what is outside of them
is a defect described there.

Bounds. One prompt and two rows of the agent, pages of one row, a tail window of three
rows and one of two in history, three while older rows are loaded, a ring of two events,
one break, two moves or failures. By hand: the same without a break and with a tail
window of one row, which a waiting prompt fills, for `NoGhost` and `ConsumedStays` (92
350 states); one prompt and two rows with four events and one or two moves (2.1 and 7.6
million states), two prompts and a row with five events (14.4 million). Not modelled:
optimistic rows before the answer of the post, attachments, thinking and tool rows that
are merged for display, several sessions (each has a window of its own), rows copied by
a merge or an import.

### SessionAlive

`view` is the session in the hub's cache, `pref` its preferred mode in the row,
`queued` the prompts whose rows are not consumed; `spawn` a resume under way,
`pending` the calls the hub waits for, `asked` those on their way; `wire` the
messages to the hub; `proc` and `taken` the process. Times are kept as what they
decide: `silent` that 30 seconds have passed without a keep-alive, `held` that the
grace of a queued prompt runs, and a keep-alive is `old` when a configuration was
applied after it was sent. A mode is the number of the change that made it, so that
an earlier one is recognised. `late` marks an answer the hub no longer waits for.

Restrictions: clocks agree (`clampAliveTime` is not modelled); writing the preferred
mode succeeds; one process at a time; the permission mode stands for model, effort
and the rest of the configuration, which travel together.

Bounds. One prompt, two changes of the mode, two messages under way, each trouble
once and two kinds of them. By hand: two prompts and one change with liveness
(894 000 states), three changes without it (1.28 million), and three kinds of
trouble for safety (2.5 million).

Fairness: timers, event loops, a socket that comes back, a turn that ends. A process
that lives may stall; the liveness property is about one that stays connected.

### AgentLoop

`mode` and `place` say which launcher runs and where it is, up to its next await:
`wait` is the await of the queue, `woken` and `refused` the time between its end and
the continuation, `starting` the awaits before the prompt goes out, `running` the
one of the turn. `queue`, `waiter` are `MessageQueue2`; `aborted` whether the signal
the wait was given is; `exitReason` that of the launcher. `pending` are the
requests in memory, `updates` those of the agent state the hub has still to apply,
in order (which `VersionedField` shows); `agent`, `toAgent`, `fromAgent` the agent
and its pipe; `shown`, `active`, `known`, `timer` the hub. `inbox` is what the hub
sent to the process, in order. `fate`, `asked`, `noticed`, `stale`, `stopping` and
`emptied` are history.

The module is the loop that the ACP agents share. It has one parameter in which they
differ: `Captures` says that the loop keeps the signal it gave to the wait and looks
at that one (`grokRemoteLauncher.ts:237`, and opencode, cursor, codex); kimi (133) and copilot
(156) read the field again, see below. The launchers of claude, gemini and pi are not
modelled.

Bounds. One prompt, one question of the agent, three of seven kinds of trouble. By
hand: two questions with two troubles (2.08 million states), two prompts (780 000),
and liveness with two questions and one trouble (471 000).

Fairness: the process handles what its event loop holds, the agent reads its input
and ends a turn in which it waits for nobody, a local agent that was told to end
does. That the user answers is assumed only where a property says so
(`[]<>(agent.asks = {})`).

### WebTerminals

`page` is what a page shows and its socket, `screen` the chunks it was given;
`entry` the registry, `buffer` the scrollback, `room` the sockets of the process the
hub holds; `cli` the process's own socket, `down`, `up` and `kept` what is under way
and what socket.io keeps for the next connection; `shell` and `ended` the shells
that run and those whose `onExit` has not run. Shells and chunks are numbered, so
that a late exit and a repeated chunk can be told from another one's.

Restrictions: resizing, and `terminal:close`, which no page sends; the viewer of the
agent's own terminal, whose room has other rules; the scrollback's limit of bytes; a
screen is the set of what it was given, since a replay after a short break repeats
what it shows.

Bounds. One page, two sockets on either side, two shells, one chunk, two messages
under way. By hand: two pages with liveness (82 649 states), two pages for one
place, two pages and two places for safety, three sockets and shells (591 245).

Fairness: messages arrive, closed sockets are noticed, the end of a shell is
reported, the idle timer of a shell that has no entry runs out. Strong fairness
stands where the bound on messages under way may refuse a step for a while.

## 3. Runs

| Run | Checks | Instance | States |
|---|---|---|---|
| `delivery_faults` | `TypeOK`, `NothingEarly`, `NoRepeat`, `AckedWasRun`, `ConfirmedCancelStands`, `LedgerSpec` (implements `PromptLedger`) | an immediate and a scheduled prompt of two modes; socket lost once, CLI process replaced once, hub crash, cancel, aborted turn, three of these kinds at most | 2 296 117 |
| `delivery_live` | `PromptsReachAgent` | socket lost, process replaced, post retried, two of these kinds | 75 868 |
| `session_column` | `AppliedInOrder` (with the types, the lock and what a flush means), `ColumnIsLog` (implements `UpdateLog`), `EveryCallReturns` | one client, three updates, a flush, one change by the hub, values that cannot be read; each fault once | 234 903 |
| `machine_column` | `NoLostUpdate`, `CurrentCopyIsCurrent` | two clients without lock, three updates, one change by the hub, after which the value cannot be read; each fault once | 1 030 814 |
| `clear_faults` | `AgentsExclude` (with the types and the gate), `NothingStranded`, `RunsInOneSession`, `ClearIsHandOff` (implements `HandOff`), `ClearSettles` | two ids, one prompt; ten kinds of fault, each once, three in one behaviour | 236 175 |
| `runner_faults` | `OneRecordedChild`, `StopIsTruthful`, `RunnerSettles` (a row is released, a call ends) | one row, two pids, two requests, three processes in all, one death of the runner | 218 484 |
| `resume_faults` | `OneResume` (with the types and the barrier), `UnreadyIsNoted`, `ClearedIsGone` | two resumes at once, two in all, two pids, two processes in all, one trouble | 1 585 740 |
| `event_stream` | `TypeOK`, `IsAFeed` (implements `EventFeed`), `CatchesUp` | five events, a ring of two, two hub processes, any number of breaks | 41 926 |
| `live_view` | `NoHole`, `NoGhost`, `ConsumedStays` | one prompt, two rows of the agent, three events, one break, two moves or failures | 883 387 |
| `agent_loop` | `RequestsAgree`, `NoticeComing`, `LeavesWhenAsked`, `PromptReachesAgent`, `StopsAreObeyed` | one prompt, one question, three of: stop, switch, exit, end or failure of the local agent, cancellation, killed process | 229 881 |
| `session_alive` | `NoTurnWhileIdle`, `ModeNeverGoesBack`, `ShownAsItIs` | one prompt, two changes of the mode; stall, broken connection, killed process, hub restart, timeout, resume, archive, two of these kinds | 486 514 |
| `web_terminals` | `ScreenIsComplete`, `PageIsTold`, `EntriesAreShells` | one page, two sockets on each side, two shells, one chunk | 57 205 |

States are distinct ones. Each run takes between a few seconds and three minutes on
two cores. `CHECK_DEADLOCK FALSE` stands where the system may stop: every prompt is
settled and the budget of faults is spent, every update has returned, the clear is
over, no resume is left, the ids of rows and shells are used up. In `runner_faults`
deadlock is checked.

Why the bounds are enough to meet the interesting cases: every action fires in the
runs of its module; every property has a mutant in `PROJECT.json` (a dropped guard, a
missing reset, a swapped order in the code) that the run of that property detects
within its bounds; and each exception a property carves out (`lapsed`, `untold`,
`emptied`, `owed`, `jumped`, `doubtful`, `unheard`, two rows in `at`, `overlooked`,
`overwritten`) is one that TLC reached
within them when it was not there. Larger instances were run by hand where the text
of the module says so.

### What the models say of the code

Where a property needs an exception, the exception is a behaviour of the code that a
reader would not expect. Those found so far, by component.

Delivery, clear and resume:

* A cancel whose acknowledgement arrives after the session-end sweep is answered
  `cancelled` and announced as such, while the row stays, stamped
  (`messageService.ts:539`).
* Rows that the sweep stamped are handed out by the backfill of a resumed session
  whose cursor starts before them (`messages.ts:356`, `:520`).
* A retried post is looked up in the session it is redirected to only: a prompt the
  source has already run runs again in the replacement (`store/index.ts:183`,
  `messageService.ts:653`).
* A prompt the source has run and whose `messages-consumed` the hub has not heard moves
  with the clear, and runs again in the replacement (`unheard`).
* What clears the attempt of a resume that may have a child: see `overlooked` above
  (`syncEngine.ts:575`, `:2969`, `:3616`).
* A PTY row whose stop was not confirmed stays closed in memory after its session
  has ended in order, until the hub is restarted (`syncEngine.ts:571`, `:2679`, `:2945`).

Live view:

* `newest` moves past rows that were missed in a gap when a row of the stream is
  shown before the resync has succeeded. If that resync fails, a later connection
  whose verdict is `ok` skips it (`App.tsx:213`), and the rows stay missing
  (`jumped`). The comment at `useSSE.ts:874` has the same shape: a handler that
  throws leaves the cursor behind, and the next event moves it past.
* A queued prompt that is consumed between two pages of a catch-up moves past its
  fixed head, since `markMessagesInvoked` does not bump the epoch; its event finds
  no row. It is missing until the next sync. `NoHole` is about the agent's rows and
  queued prompts for this reason.
* `oldest` is taken from a queued row that was kept when the window was trimmed: the
  rows between cannot be scrolled to.
* A row of the stream that is trimmed in history mode while a latest page is under
  way is lost when that page clears the mark that the window must be read anew.
* A page served before a prompt was consumed or cancelled, and applied after its event, shows
  it queued again, if the prompt is not in the window then: it was cancelled, had not been
  shown, or was trimmed after it was consumed (`doubtful`).

Agent loop:

* kimi and copilot look at `this.abortController.signal` after the wait; the abort
  that ended the wait has replaced it, so a stop while the session is idle ends it
  (`kimiRemoteLauncher.ts:133`). `LeavesWhenAsked` fails with `Captures = FALSE`.
* A prompt that wakes the wait and is cancelled before the loop continues yields
  no batch and no aborted signal: the session ends (`emptied`).
* A stop between the batch and `session/prompt` does not stop the prompt.
* `reset()` forgets prompts the hub believes queued; `pendingLocalIds`, made for it,
  has no caller (`MessageQueue2.ts:275`).
* The hub's `switch` names its target, the handlers of the launchers ignore it: a
  switch that is repeated switches back. A stop in local mode switches to remote and empties the
  queue.
* The debounce timer of the notifications announces what the session has when it
  fires, without a look at whether a request is left. Requests of a process that
  was killed stay shown until the next stop or end of a turn; answers to them are ignored.

Session liveness:

* `expireInactive` leaves the start of the turn and the count of background tasks
  behind, and `handleSessionEnd` returns early afterwards; a session that comes back
  shows the start of an old turn (`lapsed`).
* A change that is made while the session is shown inactive goes to the cache only,
  though the comment at `syncEngine.ts:1754` says the spawned process will get it: a
  process that lives, or that was started before, takes it back (`untold`).
* The keep-alive of a reconnect says idle: the spinner and the start of the turn are
  dropped in the middle of a turn. A turn's own keep-alive takes away the grace of a
  prompt that is queued behind it.

Terminals:

* `onExit` cleans up by the terminal's name (`TerminalManager.ts:202`): the late exit
  of a shell that was killed kills the new shell of that name and tells the page it
  has exited.
* An exit that crosses a reopening leaves a shell without an entry until the
  process's idle timer; the limit per socket starts anew with each reconnection.
* Of two sockets of one process the hub picks the older, which may be half open.

### Seen while modelling delivery, clear, runner and columns

The models contain the following behaviour of the code; no property forbids it.

* Cancelling while the socket is down deletes the row of a prompt the CLI already
  holds (`messageService.ts:475`); a late positive ack stamps it as sent.
* An acknowledgement lost with the socket is never sent again; a scheduled row is
  then emitted on every scan for the life of the CLI process (`apiSession.ts:1125`).
* A replacement whose process fails at its start ends its session, and the sweep
  stamps the prompts held back for it (`sessionHandlers.ts:438`).
* A reserve request that arrives after its clear was aborted reserves a
  replacement nobody clears for (`syncEngine.ts:1877`).
* `stopSession` returns at the first process of a row (`run.ts:943`). The first
  process of a session is spawned without the row and is not known to the
  deduplicator, so a second one can be started beside it. `StopIsTruthful` is
  about rows of which one process is known.
* A quarantined record whose process is later seen gone leaves no evidence of
  its exit (`run.ts:1025`); a stop then answers `still_alive` until the next spawn.
* A PTY spawn that fails before a process exists leaves its attempt; a runner
  without evidence answers `still_alive`, and each later resume fails
  (`syncEngine.ts:2853`).
* An attempt left by an earlier hub process is reconciled before the look at
  `active` (`syncEngine.ts:2686`): resuming a session that works stops it.
* A process that was cut off and comes back during the barrier of a resume does not
  repeat `session-ready` and is stopped (`:2920`).
* Versioned updates: a client that could not read the column's value adopts its version,
  and its next update writes over that value (`versionedUpdate.ts:50`; the version is
  adopted on purpose, `versionedUpdate.test.ts:102`); runner-state updates have no lock
  (`apiMachine.ts:555`); the runner's shutdown awaits an update whose backoff
  does not end while the hub is away (`run.ts:1430`).

## 4. Proofs

All proofs are checked to the last leaf. Their assumptions are the named `ASSUME`s
of the modules on the shape of the constants; the sets of prompts, clients, calls,
rows, pids, pages and requests and all bounds are arbitrary. Where a theorem needs
more, it says so in its `ASSUME`. Every inductive invariant was first checked by TLC
on the run of its module or a larger instance. The lemmas at the head of a module on
the elements of `Append`, `Tail`, `\o`, `SubSeq` and `RemoveAt` are what its proofs need
of queues and channels.

**`MessageDeliveryProofs`**: types, `NothingEarly`, `AckedWasRun`, and that delivery
implements `PromptLedger`. Inductive
invariant: `TypeOK /\ NothingEarly /\ HandedWasPosted /\ AckedWasRun /\ ReportedWasRun`.
`AckedWasRun` alone is not inductive, since an acknowledgement may be on its way:
`ReportedWasRun` says that one in the socket's buffer names prompts the agent has
had. `HandedWasPosted` says that whatever is in the socket, a page or the queue
has a row: the time of a prompt is settled when it is posted, so one that is
already under way cannot become early. The refinement follows from the types, one
action at a time.

`NeverRepeats` (`NoRepeat`) and `CancelsStand` (`ConfirmedCancelStands`) hold as long as
the filter forgets nothing: `FilterHolds` says that there are no more prompts than
`FilterCap`, 256 in the code, and with more the code may well repeat one. The first
needs `FilterInv`: the filter and the queue have no prompt twice, both the queue and
what was consumed are in the filter, and they are disjoint. The second needs
`CancelInv`: an acknowledgement of a removal under way names prompts the filter knows
and the queue has not, and a prompt whose removal was confirmed is known to the
filter of the process, or is nowhere on its way to it; a process that is off has no
socket.

**`VersionedFieldProofs`**: types, `CurrentCopyIsCurrent`, `NoLostUpdate`, that
the column implements `UpdateLog`, and `LockedIsInOrder` (`AppliedInOrder`). Inductive
invariant: `TypeOK /\ CurrentCopyIsCurrent /\ RequestsExtend /\ AnswersCoherent /\
NoLostUpdate`. A request computed from version *v* extends the value that the row
had at *v*, unless that value cannot be read, and answers carry a version with its value.
So a request that passes the version check extends the row, or replaces a value that
cannot be read, which `UpdateLog` allows and `overwritten` records. `Unreadable` is any
set of values; with the empty set these are the plain statements.

`LockedIsInOrder` assumes `Locked`: a session's client takes a lock around an update,
a machine's does not, and of that one no order is promised. `OrderInv` follows a call
of a client from the lock to the row (`Line`): one call runs while the permit is
taken; the others wait in the order they were issued; what was issued before the one
that runs has returned or is lost with its process. At most one request of a client
is under way (`OneRequest`), what is in the row was asked for by its call (`RowWasAsked`)
and stands there in the order of the calls (`RowInOrder`).

**`OpenCodeClearProofs`**: `AgentsAlwaysExclude`, `NothingIsStranded`, `RunsOnce`, and
that the clear implements `HandOff` (`ImplementsHandOff`). None of them depends on
`Kinds` or `Limit`: for safety the three kinds of fault of the run hide nothing. `ClearInv`
has three more parts than the properties. `OperationShape`: the state of the operation
says whether there is a replacement and whether the source is linked to it.
`AgentGone`: from the confirmation on the source's agent is gone, also for a
confirmation that is delivered late. `TakenOnly`: what is started, ordered or addressed
is the operation's replacement, after the commitment. `RunsOnce` needs two more.
`RunsFollowRows`: a prompt has a row wherever it was run or is about to be, unless it was
moved unheard. `EndHeard`: as long as nothing that silences has happened, what a session's
process has run is stamped or its acknowledgement is on its way, and none is on its way
from a source that is archived or gone; so nothing that was run is moved. `Moves` lists what a
step can do to the operation; one lemma shows that every action is one of these, and
type, shape and refinement are proved over `Moves`.

**`RunnerProofs`**, the runner: `RunnerTypes`, `OneRecordedChildAlways`,
`StopsAreTruthful`. Inductive invariant: `TypeOK /\ HandlesLive /\ RecordsKept /\
RowsOnce /\ RowsHeld /\ StopsAim /\ StopIsTruthful`. A process with a handle is
alive; a recorded live process is in the file; the file has a row once; every row
in the file of a living runner is held by the deduplicator, so that a spawn of it
cannot start; a stop that waits aims at the only recorded process of its row from
before the request. `OneRecordedChild` follows from `RecordsKept` and `RowsOnce`.

**`RunnerProofs`**, the resume: every step of a resume is a step of the runner or leaves it alone
(`ResumeImplementsRunner`), so that what is proved of the runner holds here; the types,
`OneResumeAlways`, `UnreadyAlwaysNoted` (`UnreadyIsNoted`), and the action property
`ClearedIsGone` (`ClearedAlwaysGone`). Inductive invariant: the runner's, `HubTypes`, `OneAsks` (one
resume has the runner's ear, and it is the one in flight), `CallsHeld` (a call is held
by a resume exactly while it waits for the runner). For `UnreadyIsNoted` it is joined by
`Young` (every process that is younger than the last resume, or has yet to be ready, was
written down) and `Noted`: what tells of the process of the attempt, that is a ready bit
said since the resume began, a session-end under way of a process younger than it, a
session reported inactive, finds no recorded process that has yet to be ready and no spawn
pending (`NoStarter`), or its ignorance is recorded. Every step is shown to begin no spawn
without an attempt, and to take no attempt away unless nothing is left to be noted or the
loss is recorded. `ClearedIsGone` carries the truth of the runner's answer (`StopIsTruthful`) from the moment it is given
to the moment the hub reads it.

**`SessionAliveProofs`**: `TurnOnlyWhileThinking` (`NoTurnWhileIdle`) and
`ModeOnlyAdvances` (`ModeNeverGoesBack`). Inductive invariant: the types, `Turn`, and
`ModeInv`. The second is where the work is. The modes in the messages under way are
in order and not beyond the process's own (`Ordered`); a keep-alive that is older
than a change is marked, and an answer is live only as long as its call is awaited
(`Answered`); a process that is being started finds nothing under way (`Starting`);
and unless a change was made behind the back of a process, whatever can still tell
the hub a mode tells it none before the one it shows (`Current`). The lemmas say
what each operation on the wire does to these: taking its head, appending, marking
old and late, losing it.

**`AgentLoopProofs`**: `RequestsAreAnnounced` (`NoticeComing`), `LeftOnlyWhenAsked`
(`LeavesWhenAsked`, assuming `Captures`: grok, opencode, cursor and codex) and `RequestsAlwaysAgree` (`RequestsAgree`). The first from `NoticeInv`: an active
session's requests are known as they are shown, an inactive session's are forgotten,
and what is known is announced or about to be; forgetting is what makes the timer
start again for a session that returns. The second from `WaitInv`: the waiter is set
exactly in the wait, a wait that was refused was aborted, one that was woken and finds no
prompt was aborted or its prompt cancelled. Without `Captures` the step from
`refused` does not keep it, which is the finding above. The third from the types of the
loop and `RequestInv`, which adds `Fresh` to the property: a request that a killed
process left on the hub is none that a later process asks or publishes. It rests on
two lemmas on what the hub will show, one for an update that is sent (`ShowAppend`) and
one for an update that is applied (`ShowApplied`); `WillShow` says which requests remain
without folding over the updates, since the provers have no induction for a fold.

**`WebTerminalsProofs`**: `ScreensAreComplete` (`ScreenIsComplete`). Inductive
invariant: the types, that a page that is connected has a socket, and `Complete`: an
entry that reaches its page belongs to a page which was given the whole scrollback,
and no scrollback is kept without an entry. The limit rests on the cardinality of the
entries, and the choice of a socket on a lemma that a set of numbers has a least one.

**`LiveViewProofs`**, the event stream: its types (`StreamTypesOK`) and that it implements
`EventFeed` (`StreamIsAFeed`, `IsAFeed`). Neither depends on what the events are, so both
are lemmas over a set `E` of them, used again for the live view. Inductive invariant
`StreamInv`: the types, and three parts that follow an event from the hub to the browser.
`RingInv`: the ring has no more than its capacity, is numbered without a gap up to the
hub's last number, and of the events this subscription gets it has the last ones in
order. `FlowInv`: what is on the wire, then in the replay, then in the queue behind it,
are together the events just after the browser's position up to the last one sent, so
that neither the drain nor a live event can overtake; a closed connection has none of
them. `CursorInv`: the cursor names the event the browser handled last, or a process
that is gone; that is why a cursor the hub accepts (`Resumable`) has all it missed in
the ring. `Missed` has a closed form so that its elements can be reasoned about without a
fold.

**`LiveViewProofs`**, the live view: `ViewIsAFeed` (`IsAFeed` again, for the changes of the
rows), `ConsumedNeverQueued` (`ConsumedStays`) and `NoGhosts` (`NoGhost`), for every set of
prompts and outputs, page size, size of the windows, ring, and number of breaks, restarts,
failures and moves. They assume that prompts and outputs are different rows
(`RowsAssumption`) and that the event kept from this subscription is none that says that a
prompt was consumed or cancelled (`ElsewhereAssumption`); both are about the names of the
model.

* `ViewInv` is the inductive invariant of the first two. Its parts: the rows of the hub
  (`RowsInv`); `StreamInv` for the events that can have been sent (`StreamTrue`); and what
  the browser holds (`BrowserInv`). What is shown, on its way or in a page was once true:
  a row that is not shown as queued is one that was consumed, never the reverse (`TrueIn`,
  over the set `Past` of rows that are not queued any more, which only grows). `BaseInv` is
  what `ConsumedStays` needs beyond that: a row that has not changed since the
  synchronisation asked is not consumed in the window while it is queued in the page, so
  that a page which replaces it takes nothing back. The steps that change the window are
  lemmas on `Merge`, `Trim`, `ApplyLatest`, `ApplyForward`, `EnterTail` and the rest.
* `NoGhosts` adds `FixInv` and `GhostInv`. A prompt that is gone from the hub's queue and
  still shown as queued is a ghost. `GhostInv` says that for every ghost in the window, in
  a page of the synchronisation or in a page of older rows, the correction is coming: the
  event that says so, or a gap, is on its way (`OnTheWay`); or a reconciliation will ask
  for the prompt or has (`Asked`); or the page is one over which the window wins.
  `OnTheWay` is not kept by itself: a ring may hold, before the event that corrects, one
  that shows the prompt queued, and a break throws away what is on the wire. `FixInv`
  closes that: behind every event that shows such a prompt as queued there is one that
  corrects it, in the flow and in the ring, and the two agree where they overlap. Once
  everything has settled, nothing is on its way and nobody asks, so that no ghost is left.
  The invariant holds while no request failed, as the property says.

The proof corrected the model twice. `NoGhost` failed in a window that is full of prompts
(TLC shows it with a tail window of one row): a consumed prompt that is trimmed while a page
is under way that shows it queued comes back as one, which `doubtful` now records
(`Forgotten`). And the property need not except a window that must be read anew.

Checked by TLC only: every liveness property (`PromptsReachAgent`, `EveryCallReturns`,
`ClearSettles`, `RunnerSettles`, `CatchesUp`, `PromptReachesAgent`, `StopsAreObeyed`,
`ShownAsItIs`, `PageIsTold`, `EntriesAreShells`), which are out of the prover's reach, and
one safety property, `NoHole`. That one does not hold for every value of the constants: a
tail window smaller than what there is to show is trimmed, and `oldest` is then taken from a
queued row that was kept, below rows that were dropped ("Seen while modelling"). In
`live_view` the tail window holds all three rows, so that only windows in history are
trimmed. There is no bound on the rows of a session that would justify a theorem about
windows that hold them all.

## 5. Plan

Done, in the order of their importance to a user: delivery of prompts, versioned
columns, clear, runner, PTY resume, event stream and live view, agent loop with
permissions and notifications, session liveness, terminals. Next:

1. `NoHole` with a record of where a trim has put `oldest` too low, so that it can be
   stated, and proved, for every size of the windows.
2. `SessionMerge` (reads before an await), the owner of an RPC method over
   reconnections, the launchers of claude, gemini and pi, the Pi variant of the resume,
   and in `LiveView` the rows a browser shows of its own prompts before the hub answers
   (`web/src/hooks/mutations/useSendMessage.ts`, `useCancelQueuedMessage.ts`).

### Not modelled

Adapters of the agents and conversion of their output (foreign
processes, wording), HTTP routes and authentication (one check per request),
one-shot imports and migrations, rendering, configuration, packaging. Schema and
migrations of the database are sequential statements. Reopen, fork, rewind and
handoff of sessions are sequences of awaited calls whose steps, a stop, a spawn, a
resume, are modelled with the runner, the clear and the PTY resume. The full list with the
reason for each is in `PROJECT.json`.
