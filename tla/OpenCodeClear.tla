---------------------------- MODULE OpenCodeClear ----------------------------
(***************************************************************************)
(* /clear of an OpenCode session.  The source's process asks the hub to    *)
(* reserve a replacement session, tears its agent down, confirms that, and *)
(* exits; the hub then starts the replacement's process, moves the prompts *)
(* that are still held to it and links the archived source to it.          *)
(* The operation is durable: the hub's 5-second tick takes it up again     *)
(* after a failed spawn, a lost request or a restart, and gives it up if   *)
(* the source ends before the agent is known to be gone.                   *)
(*                                                                         *)
(* Prompts posted meanwhile are redirected to the replacement and held     *)
(* back by a gate until it has taken over.                                 *)
(***************************************************************************)
EXTENDS Naturals, FiniteSets

CONSTANTS
  Source,   \* the session that is cleared
  Ids,      \* ids the hub may draw for a replacement
  Prompts,
  None,
  Limit,    \* bound: how often each of Faults may happen
  Kinds     \* bound: how many kinds of Faults one behaviour has

Places == {Source} \cup Ids
Faults == {"lost", "late", "error", "spawn", "crash", "end", "partition", "restart", "resume", "repost"}

ASSUME PlacesAssumption == Source \notin Ids /\ None \notin Places
ASSUME LimitAssumption  == Limit \in [Faults -> Nat] /\ Kinds \in Nat

VARIABLES
  op,        \* metadata.opencodeClearOperation of the source
  linked,    \* metadata.supersededBySessionId of the source
  archived,  \* why the source is archived
  minted,    \* the ids drawn so far
  active,    \* the sessions the hub takes for active
  task,      \* the operation of the clearOpenCodeSession that awaits spawnSession
  resuming,  \* the replacement of the resumeSession that awaits stopRunnerSession
  proc,      \* what the source's process is doing
  mine,      \* the replacement it has been told
  sent,      \* requests it has made, which may arrive a second time
  child,     \* replacements with a running process
  ordered,   \* replacements the runner has been asked to start
  address,   \* the session a prompt is posted to, once the route has checked it
  at,        \* the sessions with a row for the prompt
  invoked,   \* the rows with invoked_at, as <<prompt, session>>
  inbox,     \* the queue of each session's process
  had,       \* the prompts it has been sent, of which it drops a repetition
  acks,      \* messages-consumed under way, as <<prompt, session>>
  ran,       \* the sessions whose agent has run the prompt
  unheard,   \* history: prompts moved to another session after an agent had run them
  spent      \* how often each of Faults has happened

opVars   == <<op, linked, archived, minted>>
hubVars  == <<active, task, resuming>>
procVars == <<proc, mine, sent>>
runVars  == <<child, ordered>>
rowVars  == <<address, at, invoked, unheard>>
cliVars  == <<inbox, had, acks, ran>>
vars     == <<opVars, hubVars, procVars, runVars, rowVars, cliVars, spent>>

States == {"none", "reserved", "abort-needed", "aborted", "cleanup-confirmed",
           "finalizing", "pending", "failed", "completed"}
Operation == [state : States, next : Ids \cup {None}]

(* "run": the agent works; "asking".."failing": the steps of /clear; *)
(* "archived", "clearing": after the agent is gone                   *)
Phases == {"run", "asking", "cleaning", "cleaned", "failing", "crashing",
           "confirmed", "archived", "clearing", "gone"}

Spend(f) ==
  /\ spent[f] < Limit[f]
  /\ Cardinality({g \in Faults \ {f} : spent[g] > 0}) < Kinds
  /\ spent' = [spent EXCEPT ![f] = @ + 1]

-----------------------------------------------------------------------------
(* The messages table *)

Held(x) == {p \in Prompts : x \in at[p] /\ <<p, x>> \notin invoked}

(* moveUninvokedMessages: a row whose localId the target already has is discarded *)
Move(from, to) ==
  [p \in Prompts |-> IF p \in Held(from) THEN (at[p] \ {from}) \cup {to} ELSE at[p]]

(* mutant: the rows of prompts that were consumed are moved as well *)
MutRelocate(from, to) ==
  /\ at' = [p \in Prompts |-> IF from \in at[p] THEN (at[p] \ {from}) \cup {to} ELSE at[p]]
  /\ unheard' = unheard \cup {p \in Held(from) : from \in ran[p]}

Relocate(from, to) ==
  /\ at' = Move(from, to)
  /\ unheard' = unheard \cup {p \in Held(from) : from \in ran[p]}

Target(x) ==
  IF x # Source THEN x
  ELSE IF linked # None THEN linked
  ELSE IF op.state \notin {"none", "aborted"} THEN op.next
  ELSE Source

(* isOpenCodeClearDeliveryGated *)
Gated(x) == op.next = x /\ op.state \notin {"completed", "aborted"}

Up(x) == IF x = Source THEN proc # "gone" ELSE x \in child

(* new-message to the session's room; the process drops what it has had *)
Emit(x, prompts) ==
  IF Up(x) THEN /\ inbox' = [inbox EXCEPT ![x] = @ \cup (prompts \ had[x])]
                /\ had' = [had EXCEPT ![x] = @ \cup prompts]
           ELSE UNCHANGED <<inbox, had>>

(* POST /messages has found the session active; its body is still to be read *)
PostChecked(p) ==
  /\ address[p] = None
  /\ \E x \in active : address' = [address EXCEPT ![p] = x]
  /\ UNCHANGED <<opVars, hubVars, procVars, runVars, at, invoked, unheard, cliVars, spent>>

(* addMessageForCurrentSession, and the emit unless gated *)
Store(p) ==
  LET x == Target(address[p]) IN
  /\ address[p] # None
  /\ \/ at[p] = {} /\ UNCHANGED spent
     \/ at[p] # {} /\ Spend("repost")
  /\ at' = [at EXCEPT ![p] = @ \cup {x}]
  /\ IF Gated(x) THEN UNCHANGED <<inbox, had>> ELSE Emit(x, {p})
  /\ UNCHANGED <<opVars, hubVars, procVars, runVars, address, invoked, unheard, acks, ran>>

(* the agent takes a prompt from its process's queue, which emits messages-consumed *)
Run(x) ==
  /\ IF x = Source THEN proc = "run" ELSE x \in child
  /\ \E p \in inbox[x] :
       /\ inbox' = [inbox EXCEPT ![x] = @ \ {p}]
       /\ ran' = [ran EXCEPT ![p] = @ \cup {x}]
       /\ acks' = acks \cup {<<p, x>>}
  /\ UNCHANGED <<opVars, hubVars, procVars, runVars, rowVars, had, spent>>

(* the hub stamps the row, if it is still that session's *)
Consumed ==
  \E p \in Prompts, x \in Places :
    /\ <<p, x>> \in acks
    /\ acks' = acks \ {<<p, x>>}
    /\ invoked' = IF x \in at[p] THEN invoked \cup {<<p, x>>} ELSE invoked
    /\ UNCHANGED <<opVars, hubVars, procVars, runVars, address, at, unheard, inbox, had, ran, spent>>

(* the socket drops while messages-consumed are under way *)
AcksLost ==
  /\ Spend("lost")
  /\ acks # {} /\ acks' \in SUBSET acks /\ acks' # acks
  /\ UNCHANGED <<opVars, hubVars, procVars, runVars, rowVars, inbox, had, ran>>

(* what a process emitted is handled in order: its later events follow its acknowledgements *)
Settled(x) == \A p \in Prompts : <<p, x>> \notin acks

(* a process that dies takes along the acknowledgements its socket still buffers *)
Dies(x) == acks' \in {acks, acks \ (Prompts \X {x})}

(* a process whose socket is open and that still sends session-alive *)
Speaks(x) == IF x = Source THEN proc \notin {"archived", "clearing", "gone"} ELSE x \in child

(* handleSessionAlive: the session is active, its immediate prompts are replayed *)
Alive(x) ==
  /\ Speaks(x)
  /\ active' = active \cup {x}
  /\ IF Gated(x) THEN UNCHANGED <<inbox, had>> ELSE Emit(x, Held(x))
  /\ UNCHANGED <<opVars, task, resuming, procVars, runVars, rowVars, acks, ran, spent>>

(* no session-alive for 30 seconds *)
Expire(x) ==
  /\ x \in active
  /\ \/ ~Speaks(x) /\ UNCHANGED spent
     \/ Speaks(x) /\ Spend("partition")
  /\ active' = active \ {x}
  /\ UNCHANGED <<opVars, task, resuming, procVars, runVars, rowVars, cliVars>>

-----------------------------------------------------------------------------
(* The hub's side of the operation *)

(* mutant: the prompts stay where they were redirected to *)
MutAbort == /\ op' = [op EXCEPT !.state = "aborted"]
            /\ UNCHANGED <<at, unheard>>

(* abortOpenCodeClearOperation: the prompts go back to the source *)
Abort == /\ op' = [op EXCEPT !.state = "aborted"]
         /\ Relocate(op.next, Source)

(* reserveOpenCodeClearSession: an operation that is not aborted is reused *)
Reserve ==
  \/ /\ op.state \in {"none", "aborted"}
     /\ \E r \in Ids \ minted : /\ op' = [state |-> "reserved", next |-> r]
                                /\ minted' = minted \cup {r}
  \/ /\ op.state \notin {"none", "aborted"}
     /\ UNCHANGED <<op, minted>>

(* mutant: the state of the operation is not compared *)
MutConfirmable(r) == op.next = r

Confirmable(r) == op.next = r /\ op.state \in {"reserved", "cleanup-confirmed"}

(* confirmOpenCodeClearCleanup *)
Confirm == op' = [op EXCEPT !.state = "cleanup-confirmed"]

(* clearOpenCodeSessionOnce up to its await: the operation it goes on with *)
Resumed ==
  CASE op.state = "none"              -> {[state |-> "pending", next |-> r] : r \in Ids \ minted}
    [] op.state = "failed"            -> {[op EXCEPT !.state = "pending"]}
    [] op.state = "cleanup-confirmed" -> {[op EXCEPT !.state = "finalizing"]}
    [] OTHER                          -> {op}

(* persistClearOperationState: 'failed', unless the source is linked or has a newer operation *)
Failed(o) == IF linked # None \/ (op.next # o.next /\ op.state \notin {"none", "aborted"})
             THEN op ELSE [o EXCEPT !.state = "failed"]

(* finishOpenCodeClear: move the prompts, link the source, release the queue *)
Finish(o) ==
  /\ Relocate(Source, o.next)
  /\ \/ /\ op' = [o EXCEPT !.state = "completed"] /\ linked' = o.next
        /\ Emit(o.next, Held(o.next) \cup Held(Source))
        /\ UNCHANGED spent
     \/ /\ Spend("error")
        /\ op' = [o EXCEPT !.state = "failed"]
        /\ UNCHANGED <<linked, inbox, had>>

(* what clearOpenCodeSessionOnce asks of the source, which the clear has archived *)
Clearable == Source \notin active /\ linked = None /\ op.state # "reserved"

(* clearOpenCodeSession: it joins a running one *)
Clear ==
  \/ /\ task = None /\ Clearable
     /\ \E o \in Resumed :
          /\ minted' = minted \cup {o.next}
          /\ \/ /\ o.next \in active
                /\ Finish(o)
                /\ UNCHANGED <<task, ordered>>
             \/ /\ o.next \notin active
                /\ op' = o /\ task' = o
                /\ ordered' = ordered \cup {o.next}
                /\ UNCHANGED <<linked, at, unheard, inbox, had, spent>>
  \/ /\ task # None \/ ~Clearable
     /\ UNCHANGED <<op, linked, minted, at, unheard, inbox, had, spent, task, ordered>>

(* the runner starts the process of a replacement, once *)
Launch(r) ==
  /\ r \in ordered
  /\ ordered' = ordered \ {r} /\ child' = child \cup {r}
  /\ UNCHANGED <<opVars, hubVars, procVars, rowVars, cliVars, spent>>

(* the runner answers once the process has been started, even if it is gone again *)
SpawnSucceeds ==
  /\ task # None /\ task.next \notin ordered
  /\ Finish(task) /\ task' = None
  /\ UNCHANGED <<archived, minted, active, resuming, procVars, runVars, address, invoked, acks, ran>>

(* the RPC fails, times out or names another session *)
SpawnFails ==
  /\ task # None /\ Spend("spawn")
  /\ op' = Failed(task) /\ task' = None
  /\ UNCHANGED <<linked, archived, minted, active, resuming, procVars, runVars, rowVars, cliVars>>

(* mutant: a failed operation is not taken up again *)
MutUnfinished == {"cleanup-confirmed", "finalizing", "pending"}

Unfinished == {"cleanup-confirmed", "finalizing", "pending", "failed"}

(* reconcileOpenCodeClears, every 5 seconds *)
Reconcile ==
  /\ Source \notin active
  /\ \/ /\ op.state = "abort-needed"
        /\ Abort
        /\ UNCHANGED <<linked, archived, minted, task, ordered, inbox, had, spent>>
     \/ /\ op.state \in Unfinished
        /\ archived' = "cleared"
        /\ Clear
  /\ UNCHANGED <<active, resuming, procVars, child, address, invoked, acks, ran>>

HubRestart ==
  /\ Spend("restart")
  /\ active' = {} /\ task' = None /\ resuming' = None
  /\ address' = [p \in Prompts |-> IF at[p] = {} THEN None ELSE address[p]]
  /\ acks' \in SUBSET acks
  /\ UNCHANGED <<opVars, procVars, runVars, at, invoked, unheard, inbox, had, ran>>

-----------------------------------------------------------------------------
(* The source's process; a request that is lost, or whose answer is, is made again *)

Asks(r) == sent' = sent \cup {r}

(* the launcher reaches a /clear in its queue *)
AskClear ==
  /\ proc = "run" /\ proc' = "asking"
  /\ UNCHANGED <<opVars, hubVars, mine, sent, runVars, rowVars, cliVars, spent>>

CliReserve ==
  /\ proc = "asking" /\ Asks(<<"reserve", None>>)
  /\ \/ /\ Source \in active /\ Reserve
        /\ \/ proc' = "cleaning" /\ mine' = op'.next /\ UNCHANGED spent
           \/ Spend("lost") /\ UNCHANGED <<proc, mine>>
     \/ Spend("lost") /\ UNCHANGED <<proc, mine, op, minted>>
     \/ /\ Source \notin active
        /\ proc' = "crashing"
        /\ UNCHANGED <<op, minted, mine, spent>>
  /\ UNCHANGED <<linked, archived, hubVars, runVars, rowVars, cliVars>>

(* cleanup() of the launcher: the agent is gone, or not known to be *)
CleanUp ==
  /\ proc = "cleaning" /\ proc' \in {"cleaned", "failing"}
  /\ UNCHANGED <<opVars, hubVars, mine, sent, runVars, rowVars, cliVars, spent>>

CliConfirm ==
  /\ proc = "cleaned" /\ Asks(<<"confirm", mine>>)
  /\ \/ /\ Confirmable(mine) /\ Confirm
        /\ \/ proc' = "confirmed" /\ UNCHANGED spent
           \/ Spend("lost") /\ UNCHANGED proc
     \/ /\ ~Confirmable(mine)
        /\ proc' = "crashing" /\ UNCHANGED <<op, spent>>
     \/ Spend("lost") /\ UNCHANGED <<proc, op>>
  /\ UNCHANGED <<linked, archived, minted, hubVars, mine, runVars, rowVars, cliVars>>

Abortable(r) == op.next = r /\ op.state = "reserved"

CliAbort ==
  /\ proc = "failing" /\ Asks(<<"abort", mine>>)
  /\ \/ /\ Abortable(mine) /\ Abort
        /\ \/ proc' = "crashing" /\ UNCHANGED spent
           \/ Spend("lost") /\ UNCHANGED proc
     \/ /\ ~Abortable(mine)
        /\ proc' = "crashing" /\ UNCHANGED <<op, at, unheard, spent>>
     \/ Spend("lost") /\ UNCHANGED <<proc, op, at, unheard>>
  /\ UNCHANGED <<linked, archived, minted, hubVars, mine, runVars, address, invoked, cliVars>>

(* a request that was given up, and made again, arrives after all *)
Late ==
  /\ Spend("late")
  /\ \/ /\ <<"reserve", None>> \in sent /\ Source \in active
        /\ Reserve /\ UNCHANGED <<at, unheard>>
     \/ /\ \E r \in Ids : <<"confirm", r>> \in sent /\ Confirmable(r)
        /\ Confirm /\ UNCHANGED <<minted, at, unheard>>
     \/ /\ \E r \in Ids : <<"abort", r>> \in sent /\ Abortable(r)
        /\ Abort /\ UNCHANGED minted
  /\ UNCHANGED <<linked, archived, hubVars, procVars, runVars, address, invoked, cliVars>>

(* cleanupConfirmed: the archive is flushed before the process goes on *)
Archive ==
  /\ proc = "confirmed" /\ Settled(Source)
  /\ proc' = "archived" /\ archived' = "cleared"
  /\ UNCHANGED <<op, linked, minted, hubVars, mine, sent, runVars, rowVars, cliVars, spent>>

(* session-end, reason 'cleared': no sweep *)
EndCleared ==
  /\ proc = "archived" /\ proc' = "clearing"
  /\ \/ Settled(Source) /\ active' = active \ {Source} /\ UNCHANGED spent
     \/ Spend("lost") /\ UNCHANGED active
  /\ UNCHANGED <<opVars, task, resuming, mine, sent, runVars, rowVars, cliVars>>

(* the process asks, again and again, for the replacement to be started *)
CallClear ==
  /\ proc = "clearing" /\ Clear
  /\ UNCHANGED <<archived, active, resuming, procVars, child, address, invoked, acks, ran>>

(* it has its answer, or one that is not worth a retry *)
Leave ==
  /\ proc = "clearing" /\ proc' = "gone"
  /\ UNCHANGED <<opVars, hubVars, mine, sent, runVars, rowVars, cliVars, spent>>

Crash ==
  /\ proc # "gone" /\ Spend("crash") /\ proc' = "gone" /\ Dies(Source)
  /\ UNCHANGED <<opVars, hubVars, mine, sent, runVars, rowVars, inbox, had, ran>>

(* the immediate prompts of a session that ends are stamped as invoked *)
Sweep(x) == invoked \cup {<<p, x>> : p \in Held(x)}

(* session-end for another reason: sweep, then handleSessionEnd gives a reservation up *)
EndOther ==
  /\ proc = "crashing" /\ proc' = "gone"
  /\ archived' = "other"
  /\ \/ /\ Settled(Source)
        /\ active' = active \ {Source}
        /\ invoked' = Sweep(Source)
        /\ \/ op.state = "reserved" /\ Abort /\ UNCHANGED spent
           \/ /\ op.state = "reserved" /\ Spend("error")
              /\ op' \in {op, [op EXCEPT !.state = "abort-needed"]}
              /\ UNCHANGED <<at, unheard>>
           \/ op.state # "reserved" /\ UNCHANGED <<op, at, unheard, spent>>
     \/ Spend("lost") /\ UNCHANGED <<active, invoked, op, at, unheard>>
  /\ UNCHANGED <<linked, minted, task, resuming, mine, sent, runVars, address, cliVars>>

-----------------------------------------------------------------------------
(* The replacement's process *)

(* the next process of a session starts with nothing *)
Forgets(x) == inbox' = [inbox EXCEPT ![x] = {}] /\ had' = [had EXCEPT ![x] = {}]

ChildCrashes(r) ==
  /\ r \in child /\ Spend("crash")
  /\ child' = child \ {r} /\ Forgets(r) /\ Dies(r)
  /\ UNCHANGED <<opVars, hubVars, procVars, ordered, rowVars, ran>>

(* session-end of a replacement *)
ChildEnds(r) ==
  /\ r \in child /\ Settled(r) /\ Spend("end")
  /\ child' = child \ {r} /\ Forgets(r)
  /\ active' = active \ {r} /\ invoked' = Sweep(r)
  /\ UNCHANGED <<opVars, task, resuming, procVars, ordered, address, at, unheard, acks, ran>>

-----------------------------------------------------------------------------
(* The user resumes the source *)

(* recoverInactiveReservedClear asks the runner to stop the process *)
ResumeReserved ==
  /\ resuming = None /\ Source \notin active /\ op.state = "reserved"
  /\ Spend("resume")
  /\ resuming' = op.next
  /\ UNCHANGED <<opVars, active, task, procVars, runVars, rowVars, cliVars>>

(* it answers: stopped, and the reservation is given up if it still stands; or still alive *)
Stopped ==
  /\ resuming # None /\ resuming' = None
  /\ \/ /\ proc' = "gone" /\ Dies(Source)
        /\ \/ Abortable(resuming) /\ Source \notin active /\ Abort
           \/ ~(Abortable(resuming) /\ Source \notin active) /\ UNCHANGED <<op, at, unheard>>
     \/ UNCHANGED <<proc, op, at, unheard, acks>>
  /\ UNCHANGED <<linked, archived, minted, active, task, mine, sent, runVars, address, invoked,
                 inbox, had, ran, spent>>

(* mutant: only a linked source is refused *)
MutClearSource == linked # None

(* isOpenCodeClearSource: its session must not be resumed any more *)
ClearSource == archived = "cleared" \/ op.state \notin {"none", "aborted"} \/ linked # None

(* a new process takes the source over *)
Resume ==
  /\ proc = "gone" /\ Source \notin active /\ ~ClearSource
  /\ Spend("resume")
  /\ proc' = "run" /\ mine' = None /\ archived' = "no"
  /\ Forgets(Source)
  /\ UNCHANGED <<op, linked, minted, hubVars, sent, runVars, rowVars, acks, ran>>

-----------------------------------------------------------------------------
(* a working session, or one a CLI without reservations has already archived *)
Init ==
  /\ op = [state |-> "none", next |-> None] /\ linked = None /\ minted = {}
  /\ \/ proc = "run" /\ archived = "no" /\ active = {Source}
     \/ proc = "clearing" /\ archived = "cleared" /\ active = {}
  /\ task = None /\ resuming = None /\ mine = None /\ sent = {}
  /\ child = {} /\ ordered = {}
  /\ address = [p \in Prompts |-> None] /\ at = [p \in Prompts |-> {}] /\ invoked = {}
  /\ inbox = [x \in Places |-> {}] /\ had = [x \in Places |-> {}] /\ acks = {}
  /\ ran = [p \in Prompts |-> {}] /\ unheard = {}
  /\ spent = [f \in Faults |-> 0]

Messages == \/ \E p \in Prompts : PostChecked(p) \/ Store(p)
            \/ \E x \in Places : Run(x) \/ Alive(x) \/ Expire(x)
            \/ Consumed \/ AcksLost
Hub      == SpawnSucceeds \/ SpawnFails \/ Reconcile \/ HubRestart
Cli      == \/ AskClear \/ CliReserve \/ CleanUp \/ CliConfirm \/ CliAbort \/ Late
            \/ Archive \/ EndCleared \/ CallClear \/ Leave \/ Crash \/ EndOther
Others   == \/ \E r \in Ids : Launch(r) \/ ChildCrashes(r) \/ ChildEnds(r)
            \/ ResumeReserved \/ Stopped \/ Resume

Next == Messages \/ Hub \/ Cli \/ Others
Spec == Init /\ [][Next]_vars

(* The hub's tick, its expiry of silent sessions, its sockets, the runner and its *)
(* answers go on.                                                                  *)
Fairness ==
  /\ WF_vars(Reconcile) /\ WF_vars(SpawnSucceeds) /\ WF_vars(Stopped)
  /\ \A r \in Ids : WF_vars(Launch(r))
  /\ WF_vars(Expire(Source) /\ ~Speaks(Source))
  /\ WF_vars(Consumed)
  /\ WF_vars(CliConfirm) /\ WF_vars(Archive) /\ WF_vars(EndCleared) /\ WF_vars(EndOther)

FairSpec == Spec /\ Fairness
-----------------------------------------------------------------------------
(* The types of the variables. *)
TypeOK ==
  /\ op \in Operation /\ linked \in Ids \cup {None} /\ minted \subseteq Ids
  /\ archived \in {"no", "cleared", "other"}
  /\ active \subseteq Places /\ task \in Operation \cup {None} /\ resuming \in Ids \cup {None}
  /\ proc \in Phases /\ mine \in Ids \cup {None}
  /\ sent \subseteq {"reserve", "confirm", "abort"} \X (Ids \cup {None})
  /\ child \subseteq Ids /\ ordered \subseteq Ids
  /\ address \in [Prompts -> Places \cup {None}] /\ at \in [Prompts -> SUBSET Places]
  /\ invoked \subseteq Prompts \X Places
  /\ inbox \in [Places -> SUBSET Prompts] /\ had \in [Places -> SUBSET Prompts]
  /\ acks \subseteq Prompts \X Places
  /\ ran \in [Prompts -> SUBSET Places] /\ unheard \subseteq Prompts
  /\ spent \in [Faults -> Nat]

(* The agent of the source and that of a replacement never work side by side: *)
(* a replacement has a process only when the source's agent is gone, and no    *)
(* prompt reaches it before the source is linked to it.                        *)
AgentsExclude ==
  /\ TypeOK
  /\ child # {} => proc \notin {"run", "asking", "cleaning", "failing"}
  /\ \A r \in Ids : (inbox[r] # {} \/ \E p \in Prompts : r \in ran[p]) => linked = r

(* No prompt that still has to run is left behind: in the source when it is   *)
(* linked to its replacement, in a replacement when that one is given up.     *)
NothingStranded ==
  /\ linked # None => Held(Source) = {}
  /\ \A r \in Ids : (op.next # r \/ op.state = "aborted") => Held(r) = {}

(* A prompt is run by the agents of two sessions in two cases only, both of    *)
(* them defects of the code.  A post that is repeated after its prompt has     *)
(* been consumed makes a second row in the replacement, where addMessage looks *)
(* for its localId.  And a row whose consumption the hub has not heard of      *)
(* moves with the others: that takes a loss, a crash, a silence, a restart or  *)
(* a resume, because the acknowledgements of a process precede its end.        *)
Silencers == {"lost", "crash", "partition", "restart", "resume"}

RunsInOneSession ==
  /\ \A p \in Prompts : \/ (\A x, y \in ran[p] : x = y)
                         \/ (\E x, y \in at[p] : x # y)
                         \/ p \in unheard
  /\ unheard # {} => \E f \in Silencers : spent[f] > 0

(* Whatever is lost, late or repeated, a replacement is given up or taken over for good. *)
Fate(r) ==
  CASE r \notin minted -> "unused"
    [] r \in minted /\ (r # op.next \/ op.state \in {"abort-needed", "aborted"}) -> "given up"
    [] r \in minted /\ r = op.next /\ op.state = "reserved" -> "reserved"
    [] r \in minted /\ r = op.next /\ op.state \in Unfinished -> "committed"
    [] OTHER -> "taken over"

Clearing == INSTANCE HandOff WITH fate <- [r \in Ids |-> Fate(r)]
ClearIsHandOff == Clearing!Spec

(* A clear that is decided is carried out: the source is linked, or free again. *)
ClearSettles ==
  op.state \in {"cleanup-confirmed", "finalizing", "pending", "failed", "abort-needed"}
    ~> op.state \in {"completed", "aborted"}
=============================================================================
