---------------------------- MODULE SessionAlive ----------------------------
(* What the hub shows of one session whose process may live, stall, lose its   *)
(* connection or be gone: sessionCache.ts (keep-alives, the thinking grace,    *)
(* the end, the expiry, changes of the configuration), the routes of           *)
(* syncEngine.ts that call it, and the process as far as it sends.             *)
(*                                                                             *)
(* Times are kept as what they decide. A session is `silent` once 30 seconds   *)
(* have passed since its activeAt, and thinking is `held` as long as           *)
(* pendingThinkingUntil lies ahead. A keep-alive is `old` when a configuration *)
(* was applied after it was sent (runtimeConfigUpdatedAt is later than its     *)
(* time). Clocks agree, and no change is made in the millisecond of a          *)
(* keep-alive. A mode is the number of the change that made it; there is one   *)
(* process at a time (two of them on one session are SessionRunner's subject). *)
EXTENDS Integers, Sequences, FiniteSets

CONSTANTS
  Prompts,
  MaxChanges,  \* bound: changes of the permission mode
  MaxWire,     \* bound: messages on the way to the hub
  Limit,       \* bound: how often each of Troubles may happen
  Kinds        \* bound: how many kinds of Troubles one behaviour has

Troubles == {"stall", "drop", "crash", "restart", "timeout", "resume", "archive"}
Unsaid   == -1   \* a keep-alive without permissionMode

ASSUME BoundsAssumption == MaxChanges \in Nat /\ MaxWire \in Nat \ {0}
ASSUME LimitAssumption  == Limit \in [Troubles -> Nat] /\ Kinds \in Nat

VARIABLES
  view,     \* the cached session: active, silent, thinking, turn, held, mode
  pref,     \* metadata.preferredPermissionMode in the store
  queued,   \* prompts that are stored and not marked consumed
  posted,   \* prompts that were posted
  spawn,    \* the resume that is under way at the hub, and the mode it passes on
  pending,  \* calls of the process the hub awaits
  asked,    \* calls on their way to the process
  wire,     \* messages on their way to the hub
  proc,     \* the process: st, mode, up (its socket is connected)
  taken,    \* prompts the process has taken from its queue
  changes,  \* how many changes of the mode there were
  untold,   \* history: the last change went to the cache only while a process lived, started or was asked
  lapsed,   \* history: the expiry left the start of a turn behind
  spent     \* how often each of Troubles has happened

hubVars  == <<view, pref, untold, lapsed>>
rowVars  == <<queued, posted>>
callVars == <<spawn, pending, asked>>
procVars == <<proc, taken>>
vars     == <<hubVars, rowVars, callVars, wire, procVars, changes, spent>>

Modes   == 0..MaxChanges
Living  == {"idle", "dequeued", "thinking"}
Calls   == {"config", "kill"}

KeepAlive(thinking, mode) == [t |-> "alive", thinking |-> thinking, mode |-> mode, old |-> FALSE]
Consumed(p, clear)        == [t |-> "consumed", p |-> p, clear |-> clear]
Ack(call, mode)           == [t |-> "ack", call |-> call, mode |-> mode, late |-> call \notin pending]
SessionEnd                == [t |-> "end"]

Spend(f) ==
  /\ spent[f] < Limit[f]
  /\ Cardinality({g \in Troubles \ {f} : spent[g] > 0}) < Kinds
  /\ spent' = [spent EXCEPT ![f] = @ + 1]
Change   == changes < MaxChanges /\ changes' = changes + 1

-----------------------------------------------------------------------------
(* The hub *)

(* markMessageQueued: nothing for an inactive session *)
MarkMessageQueued ==
  view' = IF view.active
          THEN [view EXCEPT !.thinking = TRUE, !.held = TRUE, !.turn = @ \/ ~view.thinking]
          ELSE view

(* sendMessage of a new prompt *)
SendMessage(p) ==
  /\ p \notin posted /\ posted' = posted \cup {p} /\ queued' = queued \cup {p}
  /\ MarkMessageQueued
  /\ lapsed' = (lapsed /\ ~(view.active /\ ~view.thinking))
  /\ UNCHANGED <<pref, untold, callVars, wire, procVars, changes, spent>>

(* mutant: a change leaves no time behind to compare keep-alives with *)
MutMarkOld(s) == s

(* isStaleRuntimeKeepAlive, for a message that is on its way when a change is applied *)
MarkOld(s) == [i \in DOMAIN s |-> IF s[i].t = "alive" THEN [s[i] EXCEPT !.old = TRUE] ELSE s[i]]

(* SessionCache.applySessionConfig: the cache, the metadata and the time of the change *)
ApplyConfig(mode, rest) ==
  /\ view' = [view EXCEPT !.mode = mode] /\ pref' = mode
  /\ wire' = MarkOld(rest)

(* A handler is registered until the hub sees the connection closed, after    *)
(* what was sent on it; a call of a process that is gone by then is lost.     *)
Running    == proc.st # "gone" /\ proc.up
Registered == Running \/ wire # <<>>

Call(c) ==
  /\ Registered /\ c \notin pending \cup asked /\ pending' = pending \cup {c}
  /\ asked' = IF Running THEN asked \cup {c} ELSE asked

(* SyncEngine.applySessionConfig of an active session calls the process; it   *)
(* fails at once, and changes nothing, when no process has registered         *)
CallConfig ==
  /\ view.active /\ changes < MaxChanges /\ Call("config")
  /\ UNCHANGED <<hubVars, rowVars, spawn, wire, procVars, changes, spent>>

(* ... and of an inactive one changes the cache only *)
ConfigInactive ==
  /\ ~view.active /\ Change
  /\ ApplyConfig(changes', wire)
  /\ untold' = (proc.st # "gone" \/ spawn.st \in {"spawning", "forgotten"} \/ "config" \in pending)
  /\ UNCHANGED <<lapsed, rowVars, callVars, procVars, spent>>

(* an answer belongs to its call: it is late when that was given up *)
MarkLate(s, c) ==
  [i \in DOMAIN s |-> IF s[i].t = "ack" /\ s[i].call = c THEN [s[i] EXCEPT !.late = TRUE] ELSE s[i]]

(* the call of the process is given up after 30 seconds: its answer no longer counts *)
CallTimesOut(c) ==
  /\ c \in pending /\ (c \notin asked \/ Spend("timeout"))
  /\ (c \notin asked => UNCHANGED spent)
  /\ pending' = pending \ {c} /\ wire' = MarkLate(wire, c)
  /\ UNCHANGED <<hubVars, rowVars, spawn, asked, procVars, changes>>

(* handleSessionEnd: an inactive session that is not thinking is left as it is *)
EndView ==
  IF view.active \/ view.thinking
  THEN /\ view' = [view EXCEPT !.active = FALSE, !.thinking = FALSE, !.held = FALSE, !.turn = FALSE]
       /\ lapsed' = FALSE
  ELSE UNCHANGED <<view, lapsed>>

(* mutant: the grace is not looked at, and the start of a turn outlives the turn *)
MutAlive(m) ==
  LET mode == IF m.mode = Unsaid \/ m.old THEN view.mode ELSE m.mode
  IN /\ view' = [active |-> TRUE, silent |-> FALSE, thinking |-> m.thinking, mode |-> mode,
                 held |-> view.held /\ ~m.thinking, turn |-> view.turn]
     /\ pref' = IF m.mode = Unsaid \/ m.old THEN pref ELSE m.mode
     /\ untold' = (untold /\ mode = view.mode)
     /\ lapsed' = lapsed

(* handleSessionAlive. A prompt that is not consumed yet makes a turn that ends *)
(* within the grace the start of the next one.                                  *)
Alive(m) ==
  LET preserve == ~m.thinking /\ view.held
      thinking == m.thinking \/ preserve
      rolled   == preserve /\ queued # {}
      ended    == view.thinking /\ ~thinking
      mode     == IF m.mode = Unsaid \/ m.old THEN view.mode ELSE m.mode
  IN /\ view' = [active |-> TRUE, silent |-> FALSE, thinking |-> thinking, mode |-> mode,
                 held |-> view.held /\ ~m.thinking,
                 turn |-> rolled \/ (view.turn /\ ~ended)]
     /\ pref' = IF m.mode = Unsaid \/ m.old THEN pref ELSE m.mode
     /\ untold' = (untold /\ mode = view.mode)
     /\ lapsed' = (lapsed /\ ~rolled /\ ~ended)

(* the hub handles the next message of the process *)
Handle ==
  /\ wire # <<>>
  /\ LET m == Head(wire) IN
     \/ /\ m.t = "alive" /\ Alive(m)
        /\ wire' = Tail(wire) /\ UNCHANGED <<queued, pending>>
     \/ /\ m.t = "consumed" /\ queued' = queued \ {m.p}
        /\ view' = [view EXCEPT !.held = @ /\ ~m.clear]
        /\ wire' = Tail(wire) /\ UNCHANGED <<pref, untold, lapsed, pending>>
     \/ /\ m.t = "end" /\ EndView
        /\ queued' = {} \* the sweep of immediate prompts
        /\ wire' = Tail(wire) /\ UNCHANGED <<pref, untold, pending>>
     \/ /\ m.t = "ack" /\ ~m.late /\ pending' = pending \ {m.call}
        /\ \/ /\ m.call = "config" /\ ApplyConfig(m.mode, Tail(wire)) /\ untold' = FALSE
              /\ UNCHANGED lapsed
           \/ /\ m.call = "kill" /\ EndView
              /\ wire' = Tail(wire) /\ UNCHANGED <<pref, untold>>
        /\ UNCHANGED queued
     \/ /\ m.t = "ack" /\ m.late
        /\ wire' = Tail(wire) /\ UNCHANGED <<hubVars, queued, pending>>
  /\ UNCHANGED <<posted, spawn, asked, procVars, changes, spent>>

(* archiveSession: kill the process, or end the session when no process has registered *)
ArchiveSession ==
  /\ view.active /\ Spend("archive")
  /\ \/ Call("kill") /\ UNCHANGED <<view, lapsed>>
     \/ ~Registered /\ EndView /\ UNCHANGED <<pending, asked>>
  /\ UNCHANGED <<pref, untold, rowVars, spawn, wire, procVars, changes>>

(* 30 seconds without a keep-alive: the process is gone, or a trouble of the run *)
FallSilent ==
  /\ view.active /\ ~view.silent
  /\ IF proc.st = "gone" /\ wire = <<>> THEN UNCHANGED spent ELSE Spend("stall")
  /\ view' = [view EXCEPT !.silent = TRUE]
  /\ UNCHANGED <<pref, untold, lapsed, rowVars, callVars, wire, procVars, changes>>

(* mutant: the expiry leaves thinking as it was *)
MutExpireInactive ==
  /\ view.active /\ view.silent
  /\ view' = [view EXCEPT !.active = FALSE, !.held = FALSE]
  /\ lapsed' = view.turn
  /\ UNCHANGED <<pref, untold, rowVars, callVars, wire, procVars, changes, spent>>

(* expireInactive, at the tick: activeTurnStartedAt stays as it is *)
ExpireInactive ==
  /\ view.active /\ view.silent
  /\ view' = [view EXCEPT !.active = FALSE, !.thinking = FALSE, !.held = FALSE]
  /\ lapsed' = view.turn
  /\ UNCHANGED <<pref, untold, rowVars, callVars, wire, procVars, changes, spent>>

(* 15 seconds after the last prompt *)
GraceEnds ==
  /\ view.held /\ view' = [view EXCEPT !.held = FALSE]
  /\ UNCHANGED <<pref, untold, lapsed, rowVars, callVars, wire, procVars, changes, spent>>

(* resumeSession, up to the spawn: the mode is read before it is awaited. What  *)
(* the process before it sent has arrived by then.                              *)
ResumeSession ==
  /\ ~view.active /\ spawn.st = "none" /\ proc.st = "gone" /\ wire = <<>> /\ Spend("resume")
  /\ spawn' = [st |-> "spawning", mode |-> view.mode] /\ untold' = FALSE
  /\ UNCHANGED <<view, pref, lapsed, rowVars, pending, asked, wire, procVars, changes>>

(* waitForSessionActive has seen the session active, or given it up *)
Waited ==
  /\ spawn.st = "waiting"
  /\ spawn' = [spawn EXCEPT !.st = IF view.active THEN "seen" ELSE "none"]
  /\ UNCHANGED <<hubVars, rowVars, pending, asked, wire, procVars, changes, spent>>

(* markSessionActive, after what is awaited in between *)
MarkSessionActive ==
  /\ spawn.st = "seen" /\ spawn' = [spawn EXCEPT !.st = "none"]
  /\ view' = [view EXCEPT !.active = TRUE, !.silent = FALSE]
  /\ UNCHANGED <<pref, untold, lapsed, rowVars, pending, asked, wire, procVars, changes, spent>>

(* reloadAll of a new hub: what only the cache held is lost, sockets are closed *)
Reload == [active |-> FALSE, silent |-> FALSE, thinking |-> FALSE, turn |-> FALSE,
           held |-> FALSE, mode |-> pref]

HubRestart ==
  /\ Spend("restart") /\ view' = Reload /\ lapsed' = FALSE
  /\ spawn' = [spawn EXCEPT !.st = IF @ = "spawning" THEN "forgotten" ELSE "none"]
  /\ pending' = {} /\ asked' = {} /\ wire' = <<>> /\ proc' = [proc EXCEPT !.up = FALSE]
  /\ UNCHANGED <<pref, untold, rowVars, taken, changes>>

-----------------------------------------------------------------------------
(* The process *)

(* what is emitted while the socket is down is kept, a keep-alive is not (volatile) *)
Emit(s)      == Len(wire) + Len(s) <= MaxWire /\ wire' = wire \o s
EmitAlive(t) == IF proc.up THEN Emit(<<KeepAlive(t, proc.mode)>>) ELSE UNCHANGED wire

(* the runner starts the process, with the mode it was given; its first keep-alive *)
Start ==
  /\ spawn.st \in {"spawning", "forgotten"} /\ proc.st = "gone"
  /\ spawn' = [spawn EXCEPT !.st = IF @ = "spawning" THEN "waiting" ELSE "none"]
  /\ proc' = [st |-> "idle", mode |-> spawn.mode, up |-> TRUE] /\ taken' = {}
  /\ Emit(<<KeepAlive(FALSE, Unsaid), KeepAlive(FALSE, spawn.mode)>>)
  /\ UNCHANGED <<hubVars, rowVars, pending, asked, changes, spent>>

(* the spawn fails *)
SpawnFails ==
  /\ spawn.st \in {"spawning", "forgotten"} /\ Spend("crash")
  /\ spawn' = [spawn EXCEPT !.st = "none"]
  /\ UNCHANGED <<hubVars, rowVars, pending, asked, wire, procVars, changes>>

(* the interval of two seconds *)
Interval ==
  /\ proc.st # "gone" /\ proc.up /\ EmitAlive(proc.st = "thinking")
  /\ UNCHANGED <<hubVars, rowVars, callVars, procVars, changes, spent>>

(* a prompt leaves the queue and is acknowledged ... *)
Dequeue(p) ==
  /\ proc.st = "idle" /\ proc.up /\ p \in queued \ taken
  /\ taken' = taken \cup {p} /\ Emit(<<Consumed(p, FALSE)>>)
  /\ proc' = [proc EXCEPT !.st = "dequeued"]
  /\ UNCHANGED <<hubVars, rowVars, callVars, changes, spent>>

(* ... then the agent begins: onThinkingChange(true) *)
BeginTurn ==
  /\ proc.st = "dequeued" /\ proc' = [proc EXCEPT !.st = "thinking"]
  /\ EmitAlive(TRUE)
  /\ UNCHANGED <<hubVars, rowVars, callVars, taken, changes, spent>>

EndTurn ==
  /\ proc.st = "thinking" /\ proc' = [proc EXCEPT !.st = "idle"]
  /\ EmitAlive(FALSE)
  /\ UNCHANGED <<hubVars, rowVars, callVars, taken, changes, spent>>

(* a slash command is handled at once: no keep-alive will tell of it *)
Command(p) ==
  /\ proc.st \in Living /\ proc.up /\ p \in queued \ taken
  /\ taken' = taken \cup {p} /\ Emit(<<Consumed(p, TRUE)>>)
  /\ UNCHANGED <<hubVars, rowVars, callVars, proc, changes, spent>>

(* the mode is changed at the terminal or by the agent *)
LocalChange ==
  /\ proc.st \in Living /\ changes + Cardinality(asked \cap {"config"}) < MaxChanges /\ Change
  /\ proc' = [proc EXCEPT !.mode = changes']
  /\ UNCHANGED <<hubVars, rowVars, callVars, wire, taken, spent>>

(* the set-session-config handler: a keep-alive, then the answer *)
ApplyCall ==
  /\ "config" \in asked /\ proc.st # "gone" /\ proc.up /\ Change
  /\ asked' = asked \ {"config"} /\ proc' = [proc EXCEPT !.mode = changes']
  /\ Emit(<<KeepAlive(proc.st = "thinking", changes'), Ack("config", changes')>>)
  /\ UNCHANGED <<hubVars, rowVars, spawn, pending, taken, spent>>

(* the killSession handler answers, then the process cleans up *)
KillCall ==
  /\ "kill" \in asked /\ proc.st # "gone" /\ proc.up
  /\ asked' = asked \ {"kill"} /\ proc' = [proc EXCEPT !.st = "closing"]
  /\ Emit(<<Ack("kill", proc.mode)>>)
  /\ UNCHANGED <<hubVars, rowVars, spawn, pending, taken, changes, spent>>

(* sendSessionDeath, and the process is gone; what a closed socket kept is lost *)
Leave ==
  /\ proc.st \in {"idle", "closing"}
  /\ IF proc.up THEN Emit(<<SessionEnd>>) ELSE wire' = <<>>
  /\ proc' = [proc EXCEPT !.st = "gone"] /\ asked' = {}
  /\ UNCHANGED <<hubVars, rowVars, spawn, pending, taken, changes, spent>>

Crash ==
  /\ proc.st # "gone" /\ Spend("crash")
  /\ proc' = [proc EXCEPT !.st = "gone"] /\ asked' = {}
  /\ IF proc.up THEN UNCHANGED wire ELSE wire' = <<>>
  /\ UNCHANGED <<hubVars, rowVars, spawn, pending, taken, changes>>

(* what is on its way is lost with the connection *)
Disconnect ==
  /\ proc.st # "gone" /\ proc.up /\ Spend("drop")
  /\ proc' = [proc EXCEPT !.up = FALSE] /\ wire' = <<>> /\ asked' = {}
  /\ UNCHANGED <<hubVars, rowVars, spawn, pending, taken, changes>>

(* what was kept goes out first; the keep-alive of the connect handler says idle *)
Reconnect ==
  /\ proc.st # "gone" /\ ~proc.up /\ proc' = [proc EXCEPT !.up = TRUE]
  /\ Emit(<<KeepAlive(FALSE, Unsaid)>>)
  /\ UNCHANGED <<hubVars, rowVars, callVars, taken, changes, spent>>

-----------------------------------------------------------------------------
(* a session whose process works *)
Init ==
  /\ view = [active |-> TRUE, silent |-> FALSE, thinking |-> FALSE, turn |-> FALSE,
             held |-> FALSE, mode |-> 0]
  /\ pref = 0 /\ queued = {} /\ posted = {}
  /\ spawn = [st |-> "none", mode |-> 0] /\ pending = {} /\ asked = {} /\ wire = <<>>
  /\ proc = [st |-> "idle", mode |-> 0, up |-> TRUE] /\ taken = {}
  /\ changes = 0 /\ untold = FALSE /\ lapsed = FALSE
  /\ spent = [f \in Troubles |-> 0]

User == \/ \E p \in Prompts : SendMessage(p)
        \/ CallConfig \/ ConfigInactive \/ ArchiveSession \/ ResumeSession
Hub  == \/ Handle \/ FallSilent \/ ExpireInactive \/ GraceEnds \/ Waited \/ MarkSessionActive
        \/ HubRestart \/ \E c \in Calls : CallTimesOut(c)
Cli  == \/ Start \/ SpawnFails \/ Interval \/ BeginTurn \/ EndTurn \/ LocalChange \/ ApplyCall
        \/ KillCall \/ Leave \/ Crash \/ Disconnect \/ Reconnect
        \/ \E p \in Prompts : Dequeue(p) \/ Command(p)

Next == User \/ Hub \/ Cli
Spec == Init /\ [][Next]_vars

(* Timers fire, event loops go on, a socket comes back and a turn ends. *)
Fairness ==
  /\ WF_vars(Handle) /\ WF_vars(ExpireInactive) /\ WF_vars(GraceEnds) /\ WF_vars(Waited)
  /\ WF_vars(MarkSessionActive) /\ WF_vars(FallSilent /\ proc.st = "gone" /\ wire = <<>>)
  /\ WF_vars(Interval) /\ WF_vars(BeginTurn) /\ WF_vars(EndTurn) /\ WF_vars(ApplyCall)
  /\ WF_vars(KillCall) /\ WF_vars(Reconnect) /\ WF_vars(proc.st = "closing" /\ Leave)
  /\ \A p \in Prompts : WF_vars(Dequeue(p))

FairSpec == Spec /\ Fairness
-----------------------------------------------------------------------------
(* The types of the variables. *)
TypeOK ==
  /\ view \in [active : BOOLEAN, silent : BOOLEAN, thinking : BOOLEAN, turn : BOOLEAN,
               held : BOOLEAN, mode : Modes]
  /\ pref \in Modes /\ queued \subseteq posted /\ posted \subseteq Prompts
  /\ spawn \in [st : {"none", "spawning", "forgotten", "waiting", "seen"}, mode : Modes]
  /\ pending \subseteq Calls /\ asked \subseteq Calls /\ Len(wire) <= MaxWire
  /\ proc \in [st : Living \cup {"closing", "gone"}, mode : Modes, up : BOOLEAN]
  /\ taken \subseteq posted /\ changes \in Modes /\ untold \in BOOLEAN /\ lapsed \in BOOLEAN
  /\ spent \in [Troubles -> Nat]

(* The start of a turn is shown only while the session thinks, whichever of the *)
(* end, the keep-alives, the grace and the expiry come first. The exception is a *)
(* defect: expireInactive keeps activeTurnStartedAt, and a session that comes    *)
(* back shows the start of the turn it was in when it fell silent.               *)
NoTurnWhileIdle == TypeOK /\ (view.turn => view.thinking \/ lapsed)

(* A mode the hub shows is never replaced by an earlier one, by a keep-alive that *)
(* was on its way, a late answer or a new hub process. The exception is a defect: *)
(* a change that is made while the session is shown inactive goes to the cache    *)
(* only, and a process that lives or was started with the old mode takes it back. *)
ModeNeverGoesBack == [][untold \/ view'.mode >= view.mode]_vars

(* A process that lives on connected is shown as it is: active, thinking when it  *)
(* thinks, with its mode. A session without a process is shown inactive.          *)
ShownAsItIs ==
  /\ <>[](proc.st \in Living /\ proc.up)
       => <>[](view.active /\ view.mode = proc.mode /\ view.thinking = (proc.st = "thinking"))
  /\ <>[](proc.st = "gone" /\ spawn.st = "none") => <>[](~view.active /\ ~view.thinking)
=============================================================================
