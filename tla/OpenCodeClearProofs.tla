------------------------ MODULE OpenCodeClearProofs ------------------------
(***************************************************************************)
(* Proofs about OpenCodeClear, for every set of ids and prompts and every  *)
(* budget of faults: the agents of the source and of its replacement       *)
(* exclude each other, no prompt is stranded or run in two sessions, and   *)
(* the operation implements HandOff.                                       *)
(***************************************************************************)
EXTENDS OpenCodeClear, FiniteSetTheorems, TLAPS

-----------------------------------------------------------------------------
(* The inductive argument.  A replacement is committed to only while the     *)
(* source's agent is gone, and it is the one the hub orders, hears of and    *)
(* posts to from then on; so a prompt can be held by a replacement only as   *)
(* long as it is the operation's, and by the source only until it is linked. *)

Agent == {"run", "asking", "cleaning", "failing"}

Committed == Unfinished \cup {"completed"}

OperationShape ==
  /\ op.state = "none" <=> op.next = None
  /\ op.next # None => op.next \in minted
  /\ op.state = "completed" <=> linked # None
  /\ linked # None => linked = op.next

(* A confirmation that is repeated late names a replacement whose agent is gone. *)
AgentGone ==
  /\ op.state \in Committed => proc \notin Agent
  /\ op.state = "abort-needed" => proc = "gone"
  /\ proc \in {"confirmed", "archived", "clearing"} =>
       op.state \in Committed \/ (proc = "clearing" /\ op.state = "none" /\ sent = {})
  /\ mine # None => mine \in minted
  /\ \A r \in Ids : <<"confirm", r>> \in sent =>
       r \in minted /\ (op.next = r /\ op.state # "aborted" => proc \notin Agent)

TakenOnly ==
  /\ task # None => task.next = op.next /\ op.state \in Unfinished
  /\ \A r \in Ids :
       (r \in active \cup child \cup ordered \/ \E p \in Prompts : address[p] = r)
         => op.next = r /\ op.state \in Committed

(* A prompt's rows follow its runs, unless one was moved before the hub heard of the run. *)
RunsFollowRows ==
  \A p \in Prompts :
    /\ p \notin unheard => ran[p] \subseteq at[p]
    /\ proc = "run" /\ p \in inbox[Source] => Source \in at[p]
    /\ \A r \in Ids : p \in inbox[r] => r \in at[p]

(* Without a silencer, the hub has heard of every run of the source when that has ended. *)
EndHeard ==
  (\A f \in Silencers : spent[f] = 0) =>
    /\ unheard = {} /\ resuming = None
    /\ Source \notin active \/ task # None => proc \in {"archived", "clearing", "gone"}
    /\ proc \in {"archived", "clearing", "gone"} => Settled(Source)
    /\ \A p \in Held(Source) : Source \in ran[p] => <<p, Source>> \in acks

ClearInv ==
  /\ OperationShape /\ AgentGone /\ TakenOnly /\ AgentsExclude /\ NothingStranded
  /\ RunsFollowRows /\ EndHeard

-----------------------------------------------------------------------------
(* What the steps do to the operation. *)

LEMMA PlaceFacts ==
  /\ Source \in Places /\ Ids \subseteq Places /\ None \notin Ids /\ None # Source
  /\ Source \notin Ids /\ \A x \in Places : x # Source => x \in Ids
BY PlacesAssumption DEF Places

SpentGrows == \A f \in Faults : spent'[f] = 0 => spent[f] = 0

LEMMA SpendTypes ==
  ASSUME TypeOK, NEW f \in Faults, Spend(f)
  PROVE  spent' \in [Faults -> Nat] /\ SpentGrows /\ spent'[f] # 0
BY DEF TypeOK, Spend, SpentGrows

LEMMA MoveTypes ==
  ASSUME TypeOK, NEW x \in Places, NEW y \in Places
  PROVE  /\ Move(x, y) \in [Prompts -> SUBSET Places]
         /\ Relocate(x, y) => at' = Move(x, y) /\ at' \in [Prompts -> SUBSET Places]
                              /\ unheard' \subseteq Prompts
<1>1. \A p \in Prompts : at[p] \in SUBSET Places
  BY DEF TypeOK
<1>2. unheard \cup {p \in Held(x) : x \in ran[p]} \subseteq Prompts
  BY DEF TypeOK, Held
<1>. QED
  BY <1>1, <1>2 DEF Move, Relocate

LEMMA EmitTypes ==
  ASSUME TypeOK, NEW x \in Places, NEW P \in SUBSET Prompts, Emit(x, P)
  PROVE  /\ inbox' \in [Places -> SUBSET Prompts] /\ had' \in [Places -> SUBSET Prompts]
         /\ \A y \in Places : \A p \in inbox'[y] : p \in inbox[y] \/ (y = x /\ p \in P /\ Up(x))
BY DEF TypeOK, Emit

(* What is still held of a session after a move. *)
LEMMA MoveHeld ==
  ASSUME NEW x \in Places, NEW y \in Places, x # y, TypeOK,
         at' = Move(x, y), invoked \subseteq invoked'
  PROVE  /\ Held(x)' = {}
         /\ \A z \in Places \ {y} : Held(z)' \subseteq Held(z)
<1>1. \A p \in Prompts : at'[p] = IF p \in Held(x) THEN (at[p] \ {x}) \cup {y} ELSE at[p]
  BY DEF Move
<1>. QED
  BY <1>1 DEF Held

Reserves ==
  \E r \in Ids \ minted :
    /\ op.state \in {"none", "aborted"}
    /\ op' = [state |-> "reserved", next |-> r] /\ minted' = minted \cup {r} /\ UNCHANGED linked

GivesUp ==
  /\ op.state \in {"reserved", "abort-needed"}
  /\ op' = [op EXCEPT !.state = "aborted"] /\ UNCHANGED <<linked, minted>>

Doubts ==
  /\ op.state = "reserved"
  /\ op' = [op EXCEPT !.state = "abort-needed"] /\ UNCHANGED <<linked, minted>>

Confirms ==
  /\ op.state \in {"reserved", "cleanup-confirmed"}
  /\ op' = [op EXCEPT !.state = "cleanup-confirmed"] /\ UNCHANGED <<linked, minted>>

Starts ==
  \E r \in Ids \ minted :
    /\ op.state = "none"
    /\ op' = [state |-> "pending", next |-> r] /\ minted' = minted \cup {r} /\ UNCHANGED linked

GoesOn ==
  /\ op.state \in Unfinished /\ op' \in Operation /\ op'.next = op.next /\ op'.state \in Unfinished
  /\ UNCHANGED <<linked, minted>>

TakesOver ==
  /\ op.state \in Unfinished /\ op' \in Operation /\ op'.next = op.next /\ op'.state = "completed"
  /\ linked' = op.next /\ UNCHANGED minted

(* finishOpenCodeClear of the operation there is. *)
LEMMA FinishFacts ==
  ASSUME TypeOK, ClearInv, NEW o \in Operation, o.next = op.next, op.state \in Unfinished,
         Finish(o), UNCHANGED minted
  PROVE  /\ op.next \in Ids
         /\ GoesOn \/ TakesOver
         /\ Relocate(Source, op.next)
         /\ at' = Move(Source, op.next) /\ at' \in [Prompts -> SUBSET Places]
         /\ unheard' \subseteq Prompts
         /\ inbox' \in [Places -> SUBSET Prompts] /\ had' \in [Places -> SUBSET Prompts]
         /\ \A x \in Places : \A p \in inbox'[x] :
              \/ p \in inbox[x]
              \/ /\ x = op.next /\ x \in child /\ linked' = x
                 /\ p \in Held(op.next) \cup Held(Source)
         /\ spent' \in [Faults -> Nat] /\ SpentGrows
<1>0. spent' = spent => SpentGrows
  BY DEF SpentGrows
<1>1. op \in Operation /\ op.next # None /\ op.next \in Ids
  BY DEF TypeOK, ClearInv, OperationShape, Unfinished, Operation
<1>2. op.next \in Places /\ Source \in Places /\ op.next # Source /\ Up(op.next) = (op.next \in child)
  BY <1>1, PlaceFacts DEF Up
<1>3. /\ Relocate(Source, op.next) /\ at' = Move(Source, op.next) /\ at' \in [Prompts -> SUBSET Places]
      /\ unheard' \subseteq Prompts
  BY <1>2, MoveTypes DEF Finish
<1>4. CASE /\ op' = [o EXCEPT !.state = "completed"] /\ linked' = o.next
           /\ Emit(o.next, Held(o.next) \cup Held(Source)) /\ UNCHANGED spent
  <2>1. TakesOver
    BY <1>4 DEF TakesOver, Operation, States
  <2>2. Held(o.next) \cup Held(Source) \in SUBSET Prompts
    BY DEF Held
  <2>3. Emit(op.next, Held(op.next) \cup Held(Source)) /\ linked' = op.next
    BY <1>4
  <2>4. /\ inbox' \in [Places -> SUBSET Prompts] /\ had' \in [Places -> SUBSET Prompts]
        /\ \A x \in Places : \A p \in inbox'[x] :
             p \in inbox[x] \/ (x = op.next /\ p \in Held(op.next) \cup Held(Source) /\ Up(op.next))
    BY <1>2, <1>4, <2>2, <2>3, EmitTypes
  <2>. QED
    BY <1>0, <1>1, <1>2, <1>3, <1>4, <2>1, <2>3, <2>4 DEF TypeOK
<1>5. CASE /\ Spend("error") /\ op' = [o EXCEPT !.state = "failed"] /\ UNCHANGED <<linked, inbox, had>>
  <2>1. GoesOn
    BY <1>5 DEF GoesOn, Operation, States, Unfinished
  <2>2. "error" \in Faults
    BY DEF Faults
  <2>. QED
    BY <1>1, <1>3, <1>5, <2>1, <2>2, SpendTypes DEF TypeOK
<1>. QED
  BY <1>4, <1>5 DEF Finish

Orders ==
  /\ task = None /\ (Starts \/ GoesOn) /\ op' \in Operation /\ op'.next \in Ids
  /\ task' = op' /\ ordered' = ordered \cup {op'.next}
  /\ UNCHANGED <<at, unheard, inbox, had, spent>>

(* clearOpenCodeSessionOnce where it is called: when the source is archived by the clear. *)
LEMMA ClearCases ==
  ASSUME TypeOK, ClearInv, Clear, op.state \in Committed \cup {"none"}
  PROVE  \/ UNCHANGED <<op, linked, minted, at, unheard, inbox, had, spent, task, ordered>>
         \/ Orders
         \/ /\ \E o \in Operation : o.next = op.next /\ Finish(o)
            /\ op.state \in Unfinished /\ task = None /\ Source \notin active
            /\ UNCHANGED <<minted, task, ordered>>
<1>1. op \in Operation /\ minted \subseteq Ids
  BY DEF TypeOK
<1>2. CASE /\ task = None /\ Source \notin active /\ linked = None /\ op.state # "reserved"
           /\ \E o \in Resumed :
                /\ minted' = minted \cup {o.next}
                /\ \/ /\ o.next \in active
                      /\ Finish(o)
                      /\ UNCHANGED <<task, ordered>>
                   \/ /\ o.next \notin active
                      /\ op' = o /\ task' = o
                      /\ ordered' = ordered \cup {o.next}
                      /\ UNCHANGED <<linked, at, unheard, inbox, had, spent>>
  <2>1. PICK o \in Resumed :
                /\ minted' = minted \cup {o.next}
                /\ \/ /\ o.next \in active
                      /\ Finish(o)
                      /\ UNCHANGED <<task, ordered>>
                   \/ /\ o.next \notin active
                      /\ op' = o /\ task' = o
                      /\ ordered' = ordered \cup {o.next}
                      /\ UNCHANGED <<linked, at, unheard, inbox, had, spent>>
    BY <1>2
  <2>2. op.state \in Unfinished \cup {"none"}
    BY <1>2 DEF ClearInv, OperationShape, Committed
  <2>3. CASE op.state = "none"
    <3>1. PICK r \in Ids \ minted : o = [state |-> "pending", next |-> r]
      BY <2>1, <2>3 DEF Resumed
    <3>2. o.next \notin active
      BY <2>3, <3>1 DEF ClearInv, TakenOnly, Committed, Unfinished
    <3>3. o \in Operation
      BY <3>1 DEF Operation, States
    <3>4. Starts
      BY <1>2, <2>1, <2>3, <3>1, <3>2 DEF Starts
    <3>. QED
      BY <1>2, <2>1, <3>1, <3>2, <3>3, <3>4 DEF Orders
  <2>4. CASE op.state \in Unfinished
    <3>1. o \in Operation /\ o.next = op.next /\ o.state \in Unfinished
      BY <1>1, <2>1, <2>4 DEF Resumed, Operation, States, Unfinished
    <3>2. op.next \in minted /\ op.next \in Ids /\ minted' = minted
      BY <1>1, <2>1, <2>4, <3>1 DEF ClearInv, OperationShape, Unfinished
    <3>3. CASE o.next \in active
      BY <1>2, <2>1, <2>4, <3>1, <3>2, <3>3
    <3>4. CASE o.next \notin active
      BY <1>2, <2>1, <2>4, <3>1, <3>2, <3>4 DEF Orders, GoesOn
    <3>. QED
      BY <3>3, <3>4
  <2>. QED
    BY <2>2, <2>3, <2>4
<1>. QED
  BY <1>2 DEF Clear, Clearable

(* Both callers of clearOpenCodeSession in the model. *)
LEMMA ClearCalled ==
  ASSUME TypeOK, ClearInv, CallClear \/ (Reconcile /\ op.state # "abort-needed")
  PROVE  Clear /\ op.state \in Committed \cup {"none"}
BY DEF CallClear, Reconcile, Committed, ClearInv, AgentGone

LEMMA ReserveCases ==
  ASSUME Reserve, UNCHANGED linked
  PROVE  Reserves \/ UNCHANGED <<op, linked, minted>>
BY DEF Reserve, Reserves

Moves ==
  UNCHANGED <<op, linked, minted>> \/ Reserves \/ GivesUp \/ Doubts \/ Confirms
    \/ Starts \/ GoesOn \/ TakesOver

(* What the hub's own steps, CallClear included, do to the operation. *)
LEMMA HubMoves ==
  ASSUME TypeOK, ClearInv, Hub \/ CallClear
  PROVE  Moves
<1>. USE DEF opVars, Moves
<1>1. ASSUME CallClear \/ (Reconcile /\ op.state # "abort-needed")
      PROVE  Moves
  <2>1. Clear /\ op.state \in Committed \cup {"none"}
    BY <1>1, ClearCalled
  <2>2. CASE \E o \in Operation : o.next = op.next /\ Finish(o) /\ op.state \in Unfinished /\ UNCHANGED minted
    BY <2>2, FinishFacts
  <2>. QED
    BY <2>1, <2>2, ClearCases DEF Orders
<1>2. CASE Reconcile /\ op.state = "abort-needed"
  BY <1>2 DEF Reconcile, Abort, GivesUp, Unfinished
<1>3. CASE SpawnSucceeds
  <2>1. task \in Operation /\ task.next = op.next /\ op.state \in Unfinished /\ Finish(task) /\ UNCHANGED minted
    BY <1>3 DEF SpawnSucceeds, TypeOK, ClearInv, TakenOnly
  <2>. QED
    BY <2>1, FinishFacts
<1>4. CASE SpawnFails
  <2>1. task \in Operation /\ task.next = op.next /\ op.state \in Unfinished
    BY <1>4 DEF SpawnFails, TypeOK, ClearInv, TakenOnly
  <2>2. op' = [task EXCEPT !.state = "failed"]
    BY <1>4, <2>1 DEF SpawnFails, Failed, ClearInv, OperationShape, Unfinished
  <2>3. GoesOn
    BY <1>4, <2>1, <2>2 DEF SpawnFails, GoesOn, Operation, States, Unfinished
  <2>. QED
    BY <2>3
<1>5. CASE HubRestart
  BY <1>5 DEF HubRestart
<1>. QED
  BY <1>1, <1>2, <1>3, <1>4, <1>5 DEF Hub

LEMMA OtherMoves ==
  ASSUME TypeOK, ClearInv, Messages \/ Cli \/ Others
  PROVE  Moves
<1>. USE DEF opVars, Moves
<1>1. CASE Messages
  BY <1>1 DEF Messages, PostChecked, Store, Run, Consumed, AcksLost, Alive, Expire
<1>2. CASE AskClear \/ CleanUp \/ Archive \/ EndCleared \/ Leave \/ Crash
  BY <1>2 DEF AskClear, CleanUp, Archive, EndCleared, Leave, Crash
<1>3. CASE CliReserve
  BY <1>3, ReserveCases DEF CliReserve
<1>4. CASE CliConfirm
  BY <1>4 DEF CliConfirm, Confirm, Confirmable, Confirms
<1>5. CASE CliAbort
  BY <1>5 DEF CliAbort, Abort, Abortable, GivesUp
<1>6. CASE Late
  BY <1>6, ReserveCases DEF Late, Confirm, Confirmable, Confirms, Abort, Abortable, GivesUp
<1>7. CASE EndOther
  BY <1>7 DEF EndOther, Abort, GivesUp, Doubts
<1>8. CASE CallClear
  BY <1>8, HubMoves
<1>9. CASE \E r \in Ids : Launch(r) \/ ChildCrashes(r) \/ ChildEnds(r)
  BY <1>9 DEF Launch, ChildCrashes, ChildEnds
<1>10. CASE ResumeReserved \/ Resume
  BY <1>10 DEF ResumeReserved, Resume
<1>11. CASE Stopped
  BY <1>11 DEF Stopped, Abort, Abortable, GivesUp
<1>. QED
  BY <1>1, <1>2, <1>3, <1>4, <1>5, <1>6, <1>7, <1>8, <1>9, <1>10, <1>11 DEF Cli, Others

LEMMA MovesKeepShape ==
  ASSUME TypeOK, ClearInv, Moves
  PROVE  /\ OperationShape' /\ op' \in Operation /\ linked' \in Ids \cup {None} /\ minted' \subseteq Ids
         /\ minted \subseteq minted'
         /\ op.state \in Committed => op'.state \in Committed /\ op'.next = op.next
         /\ op'.next # op.next =>
              op'.next \in Ids \ minted /\ op.state \in {"none", "aborted"}
<1>. USE PlacesAssumption DEF TypeOK, ClearInv, OperationShape, Operation, States
<1>1. op \in Operation /\ linked \in Ids \cup {None} /\ minted \subseteq Ids
  OBVIOUS
<1>2. None \notin Ids
  BY PlaceFacts
<1>3. CASE UNCHANGED <<op, linked, minted>>
  BY <1>1, <1>3
<1>4. CASE Reserves \/ Starts
  BY <1>1, <1>2, <1>4 DEF Reserves, Starts, Committed, Unfinished
<1>5. CASE GivesUp \/ Doubts \/ Confirms
  BY <1>1, <1>2, <1>5 DEF GivesUp, Doubts, Confirms, Committed, Unfinished
<1>6. CASE GoesOn
  BY <1>1, <1>2, <1>6 DEF GoesOn, Committed, Unfinished
<1>7. CASE TakesOver
  BY <1>1, <1>2, <1>7 DEF TakesOver, Committed, Unfinished
<1>. QED
  BY <1>3, <1>4, <1>5, <1>6, <1>7 DEF Moves

-----------------------------------------------------------------------------
(* Types. *)

LEMMA SweepTypes ==
  ASSUME TypeOK, NEW x \in Places
  PROVE  Sweep(x) \subseteq Prompts \X Places
<1>1. invoked \subseteq Prompts \X Places /\ Held(x) \subseteq Prompts
  BY DEF TypeOK, Held
<1>2. {<<p, x>> : p \in Held(x)} \subseteq Prompts \X Places
  BY <1>1
<1>. QED
  BY <1>1, <1>2 DEF Sweep

LEMMA TargetTypes ==
  ASSUME TypeOK, ClearInv, NEW x \in Places
  PROVE  /\ Target(x) \in Places
         /\ Target(x) = Source => linked = None
         /\ Target(x) # x => op.next = Target(x) /\ op.state # "aborted"
BY PlaceFacts DEF TypeOK, ClearInv, OperationShape, Target, Operation

LEMMA DeathTypes ==
  ASSUME TypeOK, NEW x \in Places, Dies(x) \/ acks' \in SUBSET acks
  PROVE  acks' \subseteq acks /\ acks' \subseteq Prompts \X Places
BY DEF TypeOK, Dies

LEMMA TypeStep ==
  ASSUME TypeOK, ClearInv, Next
  PROVE  TypeOK' /\ SpentGrows
<1>. USE DEF opVars, hubVars, procVars, runVars, rowVars, cliVars
<1>1. op' \in Operation /\ linked' \in Ids \cup {None} /\ minted' \subseteq Ids
  BY HubMoves, OtherMoves, MovesKeepShape DEF Next
<1>2. \A f \in Faults : Spend(f) => spent' \in [Faults -> Nat] /\ SpentGrows
  BY SpendTypes
<1>3. /\ {"lost", "late", "error", "spawn", "crash", "end", "partition", "restart", "resume", "repost"} \subseteq Faults
      /\ spent \in [Faults -> Nat] /\ (spent' = spent => spent' \in [Faults -> Nat] /\ SpentGrows)
  BY DEF Faults, TypeOK, SpentGrows
<1>4. CASE Messages
  <2>1. ASSUME NEW p \in Prompts, PostChecked(p)
        PROVE  TypeOK' /\ spent' = spent
    BY <1>1, <2>1 DEF PostChecked, TypeOK
  <2>2. ASSUME NEW p \in Prompts, Store(p)
        PROVE  TypeOK' /\ SpentGrows
    <3>1. address[p] \in Places
      BY <2>2 DEF Store, TypeOK
    <3>2. Target(address[p]) \in Places
      BY <3>1, TargetTypes
    <3>3. inbox' \in [Places -> SUBSET Prompts] /\ had' \in [Places -> SUBSET Prompts]
      <4>1. {p} \in SUBSET Prompts
        OBVIOUS
      <4>. QED
        BY <2>2, <3>2, <4>1, EmitTypes DEF Store, TypeOK
    <3>4. at' \in [Prompts -> SUBSET Places]
      BY <2>2, <3>2 DEF Store, TypeOK
    <3>5. spent' \in [Faults -> Nat] /\ SpentGrows
      BY <1>2, <1>3, <2>2 DEF Store
    <3>. QED
      BY <1>1, <2>2, <3>3, <3>4, <3>5 DEF Store, TypeOK
  <2>3. ASSUME NEW x \in Places, Run(x)
        PROVE  TypeOK' /\ spent' = spent
    <3>1. PICK p \in Prompts : /\ inbox' = [inbox EXCEPT ![x] = @ \ {p}]
                               /\ ran' = [ran EXCEPT ![p] = @ \cup {x}]
                               /\ acks' = acks \cup {<<p, x>>}
      BY <2>3 DEF Run, TypeOK
    <3>2. inbox' \in [Places -> SUBSET Prompts] /\ ran' \in [Prompts -> SUBSET Places]
      BY <3>1 DEF TypeOK
    <3>3. acks' \subseteq Prompts \X Places
      BY <3>1 DEF TypeOK
    <3>. QED
      BY <1>1, <2>3, <3>2, <3>3 DEF Run, TypeOK
  <2>4. ASSUME NEW x \in Places, Alive(x)
        PROVE  TypeOK' /\ spent' = spent
    <3>1. Held(x) \in SUBSET Prompts
      BY DEF Held
    <3>2. inbox' \in [Places -> SUBSET Prompts] /\ had' \in [Places -> SUBSET Prompts]
      BY <2>4, <3>1, EmitTypes DEF Alive, TypeOK
    <3>. QED
      BY <1>1, <2>4, <3>2 DEF Alive, TypeOK
  <2>5. ASSUME NEW x \in Places, Expire(x)
        PROVE  TypeOK' /\ SpentGrows
    BY <1>1, <1>2, <1>3, <2>5 DEF Expire, TypeOK
  <2>6. CASE Consumed
    <3>1. PICK p \in Prompts, x \in Places :
            /\ acks' = acks \ {<<p, x>>}
            /\ invoked' = IF x \in at[p] THEN invoked \cup {<<p, x>>} ELSE invoked
      BY <2>6 DEF Consumed
    <3>2. acks' \subseteq Prompts \X Places /\ invoked' \subseteq Prompts \X Places
      BY <3>1 DEF TypeOK
    <3>. QED
      BY <1>1, <1>3, <2>6, <3>2 DEF Consumed, TypeOK
  <2>7. CASE AcksLost
    <3>1. acks' \subseteq Prompts \X Places
      BY <2>7, PlaceFacts, DeathTypes DEF AcksLost
    <3>. QED
      BY <1>1, <1>2, <1>3, <2>7, <3>1 DEF AcksLost, TypeOK
  <2>. QED
    BY <1>3, <1>4, <2>1, <2>2, <2>3, <2>4, <2>5, <2>6, <2>7 DEF Messages
<1>5. ASSUME CallClear \/ (Reconcile /\ op.state # "abort-needed")
      PROVE  TypeOK' /\ SpentGrows
  <2>1. /\ Clear /\ op.state \in Committed \cup {"none"}
        /\ UNCHANGED <<active, resuming, proc, mine, sent, child, address, invoked, acks, ran>>
        /\ archived' \in {archived, "cleared"}
    BY <1>5, ClearCalled DEF CallClear, Reconcile
  <2>2. CASE UNCHANGED <<op, linked, minted, at, unheard, inbox, had, spent, task, ordered>>
    BY <1>1, <1>3, <2>1, <2>2 DEF TypeOK
  <2>3. CASE Orders
    BY <1>1, <1>3, <2>1, <2>3 DEF Orders, TypeOK
  <2>4. CASE /\ \E o \in Operation : o.next = op.next /\ Finish(o)
             /\ op.state \in Unfinished /\ UNCHANGED <<minted, task, ordered>>
    <3>1. /\ at' \in [Prompts -> SUBSET Places] /\ unheard' \subseteq Prompts
          /\ inbox' \in [Places -> SUBSET Prompts] /\ had' \in [Places -> SUBSET Prompts]
          /\ spent' \in [Faults -> Nat] /\ SpentGrows
      BY <2>4, FinishFacts
    <3>. QED
      BY <1>1, <2>1, <2>4, <3>1 DEF TypeOK
  <2>. QED
    BY <2>1, <2>2, <2>3, <2>4, ClearCases
<1>6. op.next # None /\ Abort => at' \in [Prompts -> SUBSET Places] /\ unheard' \subseteq Prompts
  BY PlaceFacts, MoveTypes DEF Abort, TypeOK, Operation
<1>14. op.state \in {"reserved", "abort-needed"} /\ Abort
         => at' \in [Prompts -> SUBSET Places] /\ unheard' \subseteq Prompts
  BY <1>6 DEF ClearInv, OperationShape
<1>7. CASE Reconcile /\ op.state = "abort-needed"
  <2>1. Abort /\ UNCHANGED <<linked, minted, task, ordered, inbox, had, spent>>
    BY <1>7 DEF Reconcile, Unfinished
  <2>. QED
    BY <1>1, <1>3, <1>7, <1>14, <2>1 DEF Reconcile, TypeOK
<1>8. CASE SpawnSucceeds
  <2>1. task \in Operation /\ task.next = op.next /\ op.state \in Unfinished /\ Finish(task) /\ UNCHANGED minted
    BY <1>8 DEF SpawnSucceeds, TypeOK, ClearInv, TakenOnly
  <2>2. /\ at' \in [Prompts -> SUBSET Places] /\ unheard' \subseteq Prompts
        /\ inbox' \in [Places -> SUBSET Prompts] /\ had' \in [Places -> SUBSET Prompts]
        /\ spent' \in [Faults -> Nat] /\ SpentGrows
    BY <2>1, FinishFacts
  <2>. QED
    BY <1>1, <1>8, <2>2 DEF SpawnSucceeds, TypeOK
<1>9. CASE SpawnFails
  BY <1>1, <1>2, <1>3, <1>9 DEF SpawnFails, TypeOK
<1>10. CASE HubRestart
  <2>1. acks' \subseteq Prompts \X Places
    BY <1>10, PlaceFacts, DeathTypes DEF HubRestart
  <2>. QED
    BY <1>1, <1>2, <1>3, <1>10, <2>1 DEF HubRestart, TypeOK
<1>11. CASE AskClear \/ CleanUp \/ Archive \/ Leave \/ EndCleared
  BY <1>1, <1>2, <1>3, <1>11 DEF AskClear, CleanUp, Archive, Leave, EndCleared, TypeOK, Phases
<1>21. CASE Crash
  <2>1. acks' \subseteq Prompts \X Places
    BY <1>21, PlaceFacts, DeathTypes DEF Crash
  <2>. QED
    BY <1>1, <1>2, <1>3, <1>21, <2>1 DEF Crash, TypeOK, Phases
<1>12. CASE CliReserve
  BY <1>1, <1>2, <1>3, <1>12 DEF CliReserve, Asks, TypeOK, Phases, Operation
<1>13. CASE CliConfirm
  BY <1>1, <1>2, <1>3, <1>13 DEF CliConfirm, Asks, TypeOK, Phases
<1>15. CASE CliAbort
  BY <1>1, <1>2, <1>3, <1>14, <1>15 DEF CliAbort, Asks, Abortable, TypeOK, Phases
<1>16. CASE Late
  BY <1>1, <1>2, <1>3, <1>14, <1>16 DEF Late, Abortable, TypeOK
<1>17. CASE EndOther
  <2>1. Sweep(Source) \subseteq Prompts \X Places
    BY SweepTypes, PlaceFacts
  <2>. QED
    BY <1>1, <1>2, <1>3, <1>14, <1>17, <2>1 DEF EndOther, TypeOK, Phases
<1>18. ASSUME NEW r \in Ids, Launch(r) \/ ChildCrashes(r) \/ ChildEnds(r)
       PROVE  TypeOK' /\ SpentGrows
  <2>1. Sweep(r) \subseteq Prompts \X Places /\ r \in Places
    BY SweepTypes, PlaceFacts
  <2>2. ChildCrashes(r) => acks' \subseteq Prompts \X Places
    BY <2>1, DeathTypes DEF ChildCrashes
  <2>. QED
    BY <1>1, <1>2, <1>3, <1>18, <2>1, <2>2 DEF Launch, ChildCrashes, ChildEnds, Forgets, TypeOK
<1>19. CASE ResumeReserved \/ Resume
  BY <1>1, <1>2, <1>3, <1>19, PlaceFacts DEF ResumeReserved, Resume, Forgets, TypeOK, Phases, Operation
<1>20. CASE Stopped
  <2>1. acks' \subseteq Prompts \X Places
    BY <1>20, PlaceFacts, DeathTypes DEF Stopped
  <2>. QED
    BY <1>1, <1>3, <1>14, <1>20, <2>1 DEF Stopped, Abortable, TypeOK, Phases
<1>. QED
  BY <1>4, <1>5, <1>7, <1>8, <1>9, <1>10, <1>11, <1>12, <1>13, <1>15, <1>16, <1>17, <1>18, <1>19, <1>20, <1>21
  DEF Next, Hub, Cli, Others

-----------------------------------------------------------------------------
(* The source's agent. *)

LEMMA GoneKept ==
  ASSUME TypeOK, ClearInv, Moves, UNCHANGED <<proc, mine, sent>>,
         op'.state \in Committed => op.state \in Committed \/ proc \notin Agent,
         op'.state = "abort-needed" => op.state = "abort-needed",
         op.state = "none" => op' = op \/ op'.state \in Committed \/ sent # {}
  PROVE  AgentGone'
<1>1. /\ minted \subseteq minted' /\ (op.state \in Committed => op'.state \in Committed /\ op'.next = op.next)
      /\ (op'.next # op.next => op'.next \in Ids \ minted /\ op.state \in {"none", "aborted"})
  BY MovesKeepShape
<1>2. op.state = "aborted" /\ op'.next = op.next => op' = op
  BY DEF Moves, Reserves, GivesUp, Doubts, Confirms, Starts, GoesOn, TakesOver, Unfinished,
         ClearInv, OperationShape
<1>. QED
  BY <1>1, <1>2 DEF ClearInv, AgentGone

LEMMA GoneStep ==
  ASSUME TypeOK, ClearInv, Next
  PROVE  AgentGone'
<1>. USE DEF opVars, hubVars, procVars, runVars, rowVars, cliVars
<1>1. Moves
  BY HubMoves, OtherMoves DEF Next
<1>2. op.state = "none" => op.state \notin Committed
  BY DEF Committed, Unfinished
<1>3. CASE Messages \/ HubRestart
  BY <1>1, <1>3, GoneKept DEF Messages, PostChecked, Store, Run, Consumed, AcksLost, Alive, Expire, HubRestart
<1>4. CASE SpawnSucceeds \/ SpawnFails
  <2>1. op.state \in Committed /\ UNCHANGED <<proc, mine, sent>>
    BY <1>4 DEF SpawnSucceeds, SpawnFails, TypeOK, ClearInv, TakenOnly, Committed
  <2>2. op'.state \in Committed
    BY <1>1, <2>1, MovesKeepShape
  <2>. QED
    BY <1>1, <2>1, <2>2, GoneKept DEF Committed, Unfinished
<1>5. CASE Reconcile
  <2>1. CASE op.state \in Unfinished
    <3>1. op.state \in Committed /\ op'.state \in Committed
      BY <1>1, <2>1, MovesKeepShape DEF Committed
    <3>. QED
      BY <1>1, <1>5, <3>1, GoneKept DEF Reconcile, Committed, Unfinished
  <2>2. CASE op.state = "abort-needed"
    <3>1. op' = [op EXCEPT !.state = "aborted"]
      BY <1>5, <2>2 DEF Reconcile, Abort, Unfinished
    <3>. QED
      BY <1>1, <1>5, <2>2, <3>1, GoneKept DEF Reconcile, Committed, Unfinished, TypeOK, Operation
  <2>. QED
    BY <1>5, <2>1, <2>2 DEF Reconcile
<1>6. CASE CallClear
  <2>1. proc \notin Agent /\ UNCHANGED <<proc, mine, sent>> /\ Clear /\ op.state \in Committed \cup {"none"}
    BY <1>6, ClearCalled DEF CallClear, Agent
  <2>2. op'.state \in Committed \/ op' = op
    <3>1. CASE op.state \in Committed
      BY <1>1, <3>1, MovesKeepShape
    <3>2. CASE op.state = "none"
      BY <2>1, <3>2, ClearCases DEF Orders, Starts, GoesOn, Committed, Unfinished
    <3>. QED
      BY <2>1, <3>1, <3>2
  <2>. QED
    BY <1>1, <2>1, <2>2, GoneKept DEF Committed, Unfinished
<1>7. CASE Late
  <2>1. CASE Reserve /\ sent # {}
    BY <1>1, <1>7, <2>1, GoneKept DEF Late, Reserve, Committed, Unfinished
  <2>2. CASE \E r \in Ids : <<"confirm", r>> \in sent /\ Confirmable(r) /\ Confirm
    BY <1>1, <1>7, <2>2, GoneKept DEF Late, Confirm, Confirmable, ClearInv, AgentGone
  <2>3. CASE \E r \in Ids : <<"abort", r>> \in sent /\ Abortable(r) /\ Abort
    BY <1>1, <1>7, <2>3, GoneKept DEF Late, Abort, Abortable, Committed, Unfinished, TypeOK, Operation
  <2>. QED
    BY <1>7, <2>1, <2>2, <2>3 DEF Late
<1>8. CASE AskClear \/ CleanUp \/ Archive \/ EndCleared \/ Leave \/ Crash
  <2>1. UNCHANGED <<op, minted, mine, sent>>
    BY <1>8 DEF AskClear, CleanUp, Archive, EndCleared, Leave, Crash
  <2>2. /\ proc # "gone"
        /\ proc' \in Agent => proc \in Agent
        /\ proc' \in {"confirmed", "archived", "clearing"} => proc \in {"confirmed", "archived"}
    BY <1>8 DEF AskClear, CleanUp, Archive, EndCleared, Leave, Crash, Agent
  <2>. QED
    BY <2>1, <2>2 DEF ClearInv, AgentGone
<1>9. /\ minted \subseteq minted' /\ minted' \subseteq Ids
      /\ (op.state \in Committed => op'.state \in Committed /\ op'.next = op.next)
      /\ (op'.next # op.next => op'.next \in Ids \ minted /\ op.state \in {"none", "aborted"})
      /\ OperationShape'
  BY <1>1, MovesKeepShape
<1>10. CASE CliReserve
  <2>1. /\ proc \in Agent /\ proc' \in {"asking", "cleaning", "crashing"}
        /\ Reserve \/ UNCHANGED op
        /\ mine' = mine \/ mine' = op'.next
        /\ \A r : <<"confirm", r>> \in sent' => <<"confirm", r>> \in sent
    BY <1>10 DEF CliReserve, Agent, Asks
  <2>2. op.state \notin Committed /\ op.state # "abort-needed"
    BY <2>1 DEF ClearInv, AgentGone, Agent
  <2>3. op'.state \notin Committed /\ op'.state # "abort-needed"
    BY <2>1, <2>2 DEF Reserve, Committed, Unfinished
  <2>4. mine' # None => mine' \in minted'
    BY <1>9, <2>1 DEF ClearInv, AgentGone, OperationShape
  <2>5. \A r \in Ids : <<"confirm", r>> \in sent' => r \in minted /\ (op.next # r \/ op.state = "aborted")
    BY <2>1 DEF ClearInv, AgentGone
  <2>6. op'.next = op.next => op' = op
    BY <2>1, PlaceFacts DEF Reserve, ClearInv, OperationShape
  <2>. QED
    BY <1>9, <2>1, <2>3, <2>4, <2>5, <2>6 DEF AgentGone
<1>11. CASE CliConfirm
  <2>1. /\ proc' \in {"cleaned", "confirmed", "crashing"} /\ UNCHANGED <<mine, minted>>
        /\ \A r : <<"confirm", r>> \in sent' => <<"confirm", r>> \in sent \/ r = mine
        /\ proc' = "confirmed" => op'.state \in Committed
        /\ op'.state # "abort-needed" \/ op' = op
        /\ proc = "cleaned"
    BY <1>11 DEF CliConfirm, Asks, Confirm, Confirmable, Committed, Unfinished, TypeOK, Operation
  <2>2. op'.state # "abort-needed"
    BY <2>1 DEF ClearInv, AgentGone
  <2>3. \A r \in Ids : <<"confirm", r>> \in sent' => r \in minted'
    BY <2>1, PlaceFacts DEF ClearInv, AgentGone
  <2>. QED
    BY <2>1, <2>2, <2>3 DEF ClearInv, AgentGone, Agent
<1>12. CASE CliAbort
  <2>1. /\ proc = "failing" /\ proc' \in {"failing", "crashing"} /\ UNCHANGED <<mine, minted>>
        /\ \A r : <<"confirm", r>> \in sent' => <<"confirm", r>> \in sent
        /\ op' = op \/ op' = [op EXCEPT !.state = "aborted"]
    BY <1>12 DEF CliAbort, Asks, Abort
  <2>2. op.state \notin Committed /\ op.state # "abort-needed"
    BY <2>1 DEF ClearInv, AgentGone, Agent
  <2>. QED
    BY <2>1, <2>2 DEF ClearInv, AgentGone, Agent, Committed, Unfinished, TypeOK, Operation
<1>13. CASE EndOther
  <2>1. proc' = "gone" /\ UNCHANGED <<mine, minted, sent>>
    BY <1>13 DEF EndOther
  <2>. QED
    BY <2>1 DEF ClearInv, AgentGone, Agent
<1>14. CASE Resume
  <2>1. proc' = "run" /\ mine' = None /\ UNCHANGED <<op, minted, sent>> /\ op.state \in {"none", "aborted"}
    BY <1>14 DEF Resume, ClearSource
  <2>. QED
    BY <2>1, PlaceFacts DEF ClearInv, AgentGone, OperationShape, Committed, Unfinished
<1>15. CASE Stopped
  <2>1. UNCHANGED <<mine, minted, sent>> /\ (proc' = "gone" \/ UNCHANGED <<op, proc>>)
    BY <1>15 DEF Stopped
  <2>. QED
    BY <2>1 DEF ClearInv, AgentGone, Agent
<1>16. CASE ResumeReserved \/ \E r \in Ids : Launch(r) \/ ChildCrashes(r) \/ ChildEnds(r)
  BY <1>1, <1>16, GoneKept DEF ResumeReserved, Launch, ChildCrashes, ChildEnds
<1>. QED
  BY <1>3, <1>4, <1>5, <1>6, <1>7, <1>8, <1>10, <1>11, <1>12, <1>13, <1>14, <1>15, <1>16
  DEF Next, Hub, Cli, Others

-----------------------------------------------------------------------------
(* The replacement that was decided for. *)

LEMMA TakenKept ==
  ASSUME TypeOK, ClearInv, Moves,
         task' # None => \/ task' = op' /\ op'.state \in Unfinished
                         \/ task' = task /\ op'.state # "completed",
         \A r \in Ids : (r \in active' \cup child' \cup ordered' \/ \E p \in Prompts : address'[p] = r)
            => \/ r \in active \cup child \cup ordered \/ \E p \in Prompts : address[p] = r
               \/ r = op'.next /\ op'.state \in Committed
  PROVE  TakenOnly'
<1>1. op.state \in Committed => op'.state \in Committed /\ op'.next = op.next
  BY MovesKeepShape
<1>. QED
  BY <1>1 DEF ClearInv, TakenOnly, Committed

LEMMA TakenStep ==
  ASSUME TypeOK, ClearInv, Next
  PROVE  TakenOnly'
<1>. USE DEF opVars, hubVars, procVars, runVars, rowVars, cliVars
<1>1. Moves
  BY HubMoves, OtherMoves DEF Next
<1>2. op'.state = "completed" => op' = op \/ TakesOver
  BY <1>1 DEF Moves, Reserves, GivesUp, Doubts, Confirms, Starts, GoesOn, Unfinished, TypeOK, Operation
<1>3. task # None => op.state # "completed" /\ (op'.state = "completed" => TakesOver)
  BY <1>2 DEF ClearInv, TakenOnly, Unfinished
<1>4. CASE Messages
  <2>1. UNCHANGED <<op, task, child, ordered>>
    BY <1>4 DEF Messages, PostChecked, Store, Run, Consumed, AcksLost, Alive, Expire
  <2>2. \A r \in Ids : (r \in active' \/ \E p \in Prompts : address'[p] = r)
          => r \in active \cup child \/ \E p \in Prompts : address[p] = r
    <3>1. ASSUME NEW p \in Prompts, PostChecked(p)
          PROVE  active' = active /\ \A q \in Prompts : address'[q] \in active \cup {address[q]}
      BY <3>1 DEF PostChecked, TypeOK
    <3>2. ASSUME NEW x \in Places, Alive(x)
          PROVE  address' = address /\ \A r \in Ids : r \in active' => r \in active \cup child
      BY <3>2, PlaceFacts DEF Alive, Speaks
    <3>. QED
      BY <1>4, <3>1, <3>2 DEF Messages, Store, Run, Consumed, AcksLost, Expire
  <2>. QED
    BY <1>1, <1>3, <2>1, <2>2, TakenKept
<1>5. CASE CallClear \/ (Reconcile /\ op.state # "abort-needed")
  <2>1. Clear /\ op.state \in Committed \cup {"none"} /\ UNCHANGED <<active, child, address>>
    BY <1>5, ClearCalled DEF CallClear, Reconcile
  <2>2. CASE UNCHANGED <<op, linked, minted, at, unheard, inbox, had, spent, task, ordered>>
    BY <1>1, <1>3, <2>1, <2>2, TakenKept
  <2>3. CASE Orders
    <3>1. op'.state \in Unfinished
      BY <2>3 DEF Orders, Starts, GoesOn, Unfinished
    <3>. QED
      BY <1>1, <2>1, <2>3, <3>1, TakenKept DEF Orders, Committed
  <2>4. CASE task = None /\ UNCHANGED <<task, ordered>>
    BY <1>1, <2>1, <2>4, TakenKept
  <2>. QED
    BY <2>1, <2>2, <2>3, <2>4, ClearCases
<1>6. CASE (Reconcile /\ op.state = "abort-needed") \/ SpawnSucceeds \/ SpawnFails \/ HubRestart
  <2>1. /\ UNCHANGED <<child, ordered>> /\ active' \subseteq active
        /\ \A p \in Prompts : address'[p] \in {address[p], None}
        /\ task' = None \/ (task' = task /\ op' = [op EXCEPT !.state = "aborted"])
    BY <1>6 DEF Reconcile, SpawnSucceeds, SpawnFails, HubRestart, Abort, Unfinished, TypeOK
  <2>2. task' # None => op'.state # "completed"
    BY <2>1 DEF TypeOK, Operation
  <2>. QED
    BY <1>1, <2>1, <2>2, TakenKept, PlaceFacts
<1>7. CASE Cli /\ ~CallClear
  <2>1. UNCHANGED <<task, child, ordered, address>> /\ active' \subseteq active
    BY <1>7 DEF Cli, AskClear, CliReserve, CleanUp, CliConfirm, CliAbort, Late, Archive, EndCleared,
                Leave, Crash, EndOther
  <2>2. UNCHANGED linked
    BY <1>7 DEF Cli, AskClear, CliReserve, CleanUp, CliConfirm, CliAbort, Late, Archive, EndCleared,
                Leave, Crash, EndOther
  <2>3. task # None => op'.state # "completed"
    BY <1>3, <2>2, PlaceFacts DEF TakesOver, TypeOK, ClearInv, OperationShape, TakenOnly, Unfinished, Operation
  <2>. QED
    BY <1>1, <2>1, <2>3, TakenKept
<1>8. CASE Others
  <2>1. UNCHANGED <<task, linked, address>> /\ active' \subseteq active
        /\ child' \cup ordered' \subseteq child \cup ordered
    BY <1>8 DEF Others, Launch, ChildCrashes, ChildEnds, ResumeReserved, Stopped, Resume
  <2>2. task # None => op'.state # "completed"
    BY <1>3, <2>1, PlaceFacts DEF TakesOver, TypeOK, ClearInv, OperationShape, TakenOnly, Unfinished, Operation
  <2>. QED
    BY <1>1, <2>1, <2>2, TakenKept
<1>. QED
  BY <1>4, <1>5, <1>6, <1>7, <1>8 DEF Next, Hub

-----------------------------------------------------------------------------
(* The rows. *)

RowsStay ==
  /\ UNCHANGED <<at, unheard, linked>> /\ invoked \subseteq invoked'
  /\ op'.state = "aborted" => op' = op

RowsBack ==
  GivesUp /\ Relocate(op.next, Source) /\ at' = Move(op.next, Source) /\ invoked \subseteq invoked' /\ UNCHANGED <<inbox, ran>>
    /\ (proc' = "run" => proc = "run")

RowsOver ==
  /\ GoesOn \/ TakesOver
  /\ Source \notin active \/ task # None
  /\ Relocate(Source, op.next) /\ at' = Move(Source, op.next) /\ UNCHANGED <<invoked, ran, proc, child>>
  /\ \A x \in Places : \A p \in inbox'[x] :
       \/ p \in inbox[x]
       \/ x = op.next /\ x \in child /\ linked' = x /\ p \in Held(op.next) \cup Held(Source)

LEMMA RowMoves ==
  ASSUME TypeOK, ClearInv, Next
  PROVE  RowsStay \/ RowsBack \/ RowsOver \/ \E p \in Prompts : Store(p)
<1>. USE DEF opVars, hubVars, procVars, runVars, rowVars, cliVars
<1>1. ASSUME NEW o \in Operation, o.next = op.next, op.state \in Unfinished,
             Finish(o), Source \notin active \/ task # None,
             UNCHANGED <<minted, invoked, ran, proc, child>>
      PROVE  RowsOver
  BY <1>1, FinishFacts DEF RowsOver
<1>2. CASE CallClear \/ (Reconcile /\ op.state # "abort-needed")
  <2>1. Clear /\ op.state \in Committed \cup {"none"} /\ UNCHANGED <<invoked, ran, proc, child>>
    BY <1>2, ClearCalled DEF CallClear, Reconcile
  <2>2. CASE Orders
    <3>1. op'.state \in Unfinished /\ UNCHANGED linked
      BY <2>2 DEF Orders, Starts, GoesOn, Unfinished
    <3>. QED
      BY <2>1, <2>2, <3>1 DEF Orders, RowsStay, Unfinished
  <2>3. CASE UNCHANGED <<op, linked, minted, at, unheard, inbox, had, spent, task, ordered>>
    BY <2>1, <2>3 DEF RowsStay
  <2>. QED
    BY <1>1, <2>1, <2>2, <2>3, ClearCases
<1>3. CASE SpawnSucceeds
  <2>1. task \in Operation /\ task.next = op.next /\ op.state \in Unfinished
    BY <1>3 DEF SpawnSucceeds, TypeOK, ClearInv, TakenOnly
  <2>. QED
    BY <1>1, <1>3, <2>1 DEF SpawnSucceeds
<1>4. CASE SpawnFails
  <2>1. task \in Operation /\ task.next = op.next /\ op.state \in Unfinished
    BY <1>4 DEF SpawnFails, TypeOK, ClearInv, TakenOnly
  <2>2. op' = [task EXCEPT !.state = "failed"]
    BY <1>4, <2>1 DEF SpawnFails, Failed, ClearInv, OperationShape, Unfinished
  <2>. QED
    BY <1>4, <2>1, <2>2 DEF SpawnFails, RowsStay, Operation
<1>5. op.state \in {"reserved", "abort-needed"} /\ Abort /\ UNCHANGED <<linked, minted, inbox, ran>>
        /\ invoked \subseteq invoked' /\ (proc' = "run" => proc = "run")
      => RowsBack
  BY DEF Abort, Relocate, RowsBack, GivesUp
<1>6. CASE Reconcile /\ op.state = "abort-needed"
  BY <1>5, <1>6 DEF Reconcile, Unfinished
<1>7. CASE CliAbort \/ Stopped
  BY <1>5, <1>7 DEF CliAbort, Stopped, Abortable, RowsStay
<1>8. CASE EndOther
  <2>1. invoked \subseteq invoked' /\ UNCHANGED <<linked, minted, inbox, ran>> /\ proc' = "gone"
    BY <1>8 DEF EndOther, Sweep
  <2>2. CASE op.state = "reserved" /\ Abort
    BY <1>5, <2>1, <2>2
  <2>3. CASE UNCHANGED <<at, unheard>> /\ op' \in {op, [op EXCEPT !.state = "abort-needed"]}
    BY <2>1, <2>3 DEF RowsStay, TypeOK, Operation
  <2>. QED
    BY <1>8, <2>2, <2>3 DEF EndOther
<1>9. CASE Late
  <2>1. CASE Reserve \/ Confirm
    BY <1>9, <2>1 DEF Late, Reserve, Confirm, Abort, RowsStay, TypeOK, Operation
  <2>2. CASE \E r \in Ids : Abortable(r) /\ Abort
    BY <1>5, <1>9, <2>2 DEF Late, Abortable, Reserve, Confirm
  <2>. QED
    BY <1>9, <2>1, <2>2 DEF Late
<1>10. CASE CliReserve \/ CliConfirm
  BY <1>10 DEF CliReserve, CliConfirm, Reserve, Confirm, RowsStay, TypeOK, Operation
<1>11. CASE AskClear \/ CleanUp \/ Archive \/ EndCleared \/ Leave \/ Crash \/ HubRestart
            \/ ResumeReserved \/ Resume
  BY <1>11 DEF AskClear, CleanUp, Archive, EndCleared, Leave, Crash, HubRestart, ResumeReserved, Resume,
               RowsStay
<1>12. CASE \E r \in Ids : Launch(r) \/ ChildCrashes(r) \/ ChildEnds(r)
  BY <1>12 DEF Launch, ChildCrashes, ChildEnds, RowsStay, Sweep, Dies, Forgets
<1>13. CASE Messages
  BY <1>13 DEF Messages, PostChecked, Run, Consumed, AcksLost, Alive, Expire, RowsStay
<1>. QED
  BY <1>2, <1>3, <1>4, <1>6, <1>7, <1>8, <1>9, <1>10, <1>11, <1>12, <1>13
  DEF Next, Hub, Cli, Others

(* A link is for good, and only a finished operation makes one. *)
LEMMA LinkStays ==
  ASSUME TypeOK, ClearInv, Moves
  PROVE  linked # None => linked' = linked
BY DEF Moves, Reserves, GivesUp, Doubts, Confirms, Starts, GoesOn, TakesOver, ClearInv, OperationShape,
       Unfinished

LEMMA StrandedStep ==
  ASSUME TypeOK, ClearInv, Next
  PROVE  NothingStranded'
<1>. USE DEF opVars, hubVars, procVars, runVars, rowVars, cliVars
<1>1. Moves
  BY HubMoves, OtherMoves DEF Next
<1>2. /\ op.state \in Committed => op'.state \in Committed /\ op'.next = op.next
      /\ op'.next # op.next => op'.next \in Ids \ minted /\ op.state \in {"none", "aborted"}
  BY <1>1, MovesKeepShape
<1>3. /\ linked # None => Held(Source) = {}
      /\ \A r \in Ids : (op.next # r \/ op.state = "aborted") => Held(r) = {}
      /\ op.state = "none" => op.next = None
      /\ op \in Operation /\ (linked # None => op.state = "completed")
  BY DEF ClearInv, NothingStranded, OperationShape, TypeOK
<1>4. CASE RowsStay
  <2>1. \A x \in Places : Held(x)' \subseteq Held(x)
    BY <1>4 DEF RowsStay, Held
  <2>2. \A r \in Ids : (op'.next # r \/ op'.state = "aborted") => op.next # r \/ op.state = "aborted"
    BY <1>2, <1>3, <1>4, PlaceFacts DEF RowsStay
  <2>. QED
    BY <1>3, <1>4, <2>1, <2>2, PlaceFacts DEF RowsStay, NothingStranded
<1>5. CASE RowsBack
  <2>1. PICK n \in Ids : n = op.next
    BY <1>5 DEF RowsBack, GivesUp, ClearInv, OperationShape, TypeOK, Operation
  <2>2. Held(n)' = {} /\ \A z \in Places \ {Source} : Held(z)' \subseteq Held(z)
    BY <1>5, <2>1, MoveHeld, PlaceFacts DEF RowsBack
  <2>3. linked' = None
    BY <1>3, <1>5 DEF RowsBack, GivesUp
  <2>4. \A r \in Ids : Held(r)' = {}
    BY <1>3, <2>1, <2>2, PlaceFacts
  <2>. QED
    BY <2>3, <2>4 DEF NothingStranded
<1>6. CASE RowsOver
  <2>1. op.next \in Ids /\ op.next \in Places /\ Source \in Places /\ op.next # Source
    BY <1>6, PlaceFacts DEF RowsOver, GoesOn, TakesOver, ClearInv, OperationShape, TypeOK, Operation, Unfinished
  <2>2. Held(Source)' = {} /\ \A z \in Places \ {op.next} : Held(z)' \subseteq Held(z)
    BY <1>6, <2>1, MoveHeld DEF RowsOver
  <2>3. op'.next = op.next /\ op'.state # "aborted"
    BY <1>6 DEF RowsOver, GoesOn, TakesOver, Unfinished
  <2>4. \A r \in Ids : r # op.next => Held(r)' = {}
    BY <1>3, <2>2, PlaceFacts
  <2>. QED
    BY <2>2, <2>3, <2>4 DEF NothingStranded
<1>7. ASSUME NEW p \in Prompts, Store(p) PROVE NothingStranded'
  <2>. DEFINE x == Target(address[p])
  <2>1. address[p] \in Places /\ UNCHANGED <<op, linked, invoked>> /\ at' = [at EXCEPT ![p] = @ \cup {x}]
    BY <1>7 DEF Store, TypeOK
  <2>2. /\ x \in Places /\ (x = Source => linked = None)
        /\ x # address[p] => op.next = x /\ op.state # "aborted"
    BY <2>1, TargetTypes
  <2>3. \A y \in Places : y # x => Held(y)' = Held(y)
    BY <2>1, <2>2 DEF Held, TypeOK
  <2>4. x \in Ids => op.next = x /\ op.state # "aborted"
    <3>1. x = address[p] /\ x \in Ids => op.next = x /\ op.state \in Committed
      BY DEF ClearInv, TakenOnly
    <3>. QED
      BY <2>2, <3>1 DEF Committed, Unfinished
  <2>5. linked' # None => Held(Source)' = {}
    BY <1>3, <2>1, <2>2, <2>3, PlaceFacts
  <2>6. \A r \in Ids : (op'.next # r \/ op'.state = "aborted") => Held(r)' = {}
    BY <1>3, <2>1, <2>3, <2>4, PlaceFacts
  <2>. QED
    BY <2>5, <2>6 DEF NothingStranded
<1>. QED
  BY <1>4, <1>5, <1>6, <1>7, RowMoves

(* The agents of the source and of a replacement. *)
LEMMA ExcludeStep ==
  ASSUME TypeOK, ClearInv, Next
  PROVE  AgentsExclude'
<1>. USE DEF opVars, hubVars, procVars, runVars, rowVars, cliVars
<1>1. TypeOK' /\ AgentGone' /\ TakenOnly' /\ Moves
  BY TypeStep, GoneStep, TakenStep, HubMoves, OtherMoves DEF Next
<1>2. child' # {} => proc' \notin {"run", "asking", "cleaning", "failing"}
  <2>1. child' \subseteq Ids
    BY <1>1 DEF TypeOK
  <2>. QED
    BY <1>1, <2>1 DEF TakenOnly, AgentGone, Agent
<1>3. \A r \in Ids : (inbox[r] # {} \/ \E p \in Prompts : r \in ran[p]) => linked = r /\ linked' = r
  BY <1>1, LinkStays, PlaceFacts DEF ClearInv, AgentsExclude
<1>4. \A r \in Ids : r \in child /\ ~Gated(r) => linked = r /\ linked' = r
  <2>1. \A r \in Ids : r \in child /\ ~Gated(r) => linked = r
    BY DEF Gated, ClearInv, TakenOnly, OperationShape, Committed, Unfinished
  <2>. QED
    BY <1>1, <2>1, LinkStays, PlaceFacts
<1>5. \A r \in Ids : Up(r) = (r \in child) /\ r \in Places
  BY PlaceFacts DEF Up
<1>6. ASSUME ran' = ran,
             \A r \in Ids : inbox'[r] \subseteq inbox[r] \/ linked' = r
      PROVE  \A r \in Ids : (inbox'[r] # {} \/ \E p \in Prompts : r \in ran'[p]) => linked' = r
  BY <1>3, <1>6
<1>7. \A r \in Ids : (inbox'[r] # {} \/ \E p \in Prompts : r \in ran'[p]) => linked' = r
  <2>1. ASSUME NEW x \in Places, Run(x)
        PROVE  \A r \in Ids : (inbox'[r] # {} \/ \E p \in Prompts : r \in ran'[p]) => linked' = r
    <3>1. PICK p \in Prompts : /\ p \in inbox[x] /\ inbox' = [inbox EXCEPT ![x] = @ \ {p}]
                               /\ ran' = [ran EXCEPT ![p] = @ \cup {x}]
      BY <2>1 DEF Run, TypeOK
    <3>2. \A r \in Ids : inbox'[r] # {} => inbox[r] # {}
      BY <1>5, <3>1 DEF TypeOK
    <3>3. \A r \in Ids : \A q \in Prompts : r \in ran'[q] => r \in ran[q] \/ r = x
      BY <3>1 DEF TypeOK
    <3>. QED
      BY <1>3, <3>1, <3>2, <3>3
  <2>2. ASSUME NEW x \in Places, NEW P \in SUBSET Prompts, ran' = ran, ~Gated(x) \/ inbox' = inbox,
               inbox' = inbox \/ Emit(x, P)
        PROVE  \A r \in Ids : (inbox'[r] # {} \/ \E p \in Prompts : r \in ran'[p]) => linked' = r
    <3>1. \A r \in Ids : inbox'[r] \subseteq inbox[r] \/ (r = x /\ r \in child /\ ~Gated(r))
      BY <1>5, <2>2 DEF Emit, TypeOK
    <3>. QED
      BY <1>4, <1>6, <2>2, <3>1
  <2>3. ASSUME NEW p \in Prompts, Store(p)
        PROVE  \A r \in Ids : (inbox'[r] # {} \/ \E q \in Prompts : r \in ran'[q]) => linked' = r
    <3>1. Target(address[p]) \in Places
      BY <2>3, TargetTypes DEF Store, TypeOK
    <3>2. {p} \in SUBSET Prompts
      OBVIOUS
    <3>. QED
      BY <2>2, <2>3, <3>1, <3>2 DEF Store
  <2>4. ASSUME NEW x \in Places, Alive(x)
        PROVE  \A r \in Ids : (inbox'[r] # {} \/ \E p \in Prompts : r \in ran'[p]) => linked' = r
    <3>1. Held(x) \in SUBSET Prompts
      BY DEF Held
    <3>. QED
      BY <2>2, <2>4, <3>1 DEF Alive
  <2>5. CASE RowsOver
    <3>1. ran' = ran /\ \A x \in Places : \A p \in inbox'[x] : p \in inbox[x] \/ linked' = x
      BY <2>5 DEF RowsOver
    <3>. QED
      BY <1>5, <1>6, <3>1
  <2>6. CASE RowsBack
    BY <1>6, <2>6 DEF RowsBack
  <2>7. CASE UNCHANGED <<inbox, ran>>
    BY <1>6, <2>7
  <2>8. CASE ran' = ran /\ \E x \in Places : inbox' = [inbox EXCEPT ![x] = {}]
    <3>1. \A r \in Ids : inbox'[r] \subseteq inbox[r]
      BY <1>5, <2>8 DEF TypeOK
    <3>. QED
      BY <1>6, <2>8, <3>1
  <2>9. CASE (\E p \in Prompts : PostChecked(p)) \/ (\E x \in Places : Expire(x)) \/ HubRestart
    BY <2>7, <2>9 DEF PostChecked, Expire, HubRestart
  <2>13. CASE Consumed \/ AcksLost
    BY <2>7, <2>13 DEF Consumed, AcksLost
  <2>10. CASE Cli /\ ~CallClear
    BY <2>7, <2>10 DEF Cli, AskClear, CliReserve, CleanUp, CliConfirm, CliAbort, Late, Archive, EndCleared,
                       Leave, Crash, EndOther
  <2>11. CASE Others
    BY <2>7, <2>8, <2>11, PlaceFacts
    DEF Others, Launch, ChildCrashes, ChildEnds, Forgets, ResumeReserved, Stopped, Resume
  <2>12. CASE SpawnSucceeds \/ SpawnFails \/ Reconcile \/ CallClear
    <3>1. CASE SpawnFails
      BY <2>7, <3>1 DEF SpawnFails
    <3>2. CASE SpawnSucceeds
      <4>1. task \in Operation /\ task.next = op.next /\ op.state \in Unfinished /\ Finish(task)
            /\ task # None /\ UNCHANGED <<minted, invoked, ran, proc, child>>
        BY <3>2 DEF SpawnSucceeds, TypeOK, ClearInv, TakenOnly
      <4>2. RowsOver
        BY <4>1, FinishFacts DEF RowsOver
      <4>. QED
        BY <2>5, <4>2
    <3>3. CASE Reconcile /\ op.state = "abort-needed"
      BY <2>7, <3>3 DEF Reconcile, Unfinished
    <3>4. CASE CallClear \/ (Reconcile /\ op.state # "abort-needed")
      <4>1. Clear /\ op.state \in Committed \cup {"none"} /\ UNCHANGED <<invoked, ran, proc, child>>
        BY <3>4, ClearCalled DEF CallClear, Reconcile
      <4>2. CASE inbox' = inbox
        BY <2>7, <4>1, <4>2
      <4>3. CASE /\ \E o \in Operation : o.next = op.next /\ Finish(o)
                 /\ op.state \in Unfinished /\ Source \notin active /\ UNCHANGED minted
        <5>1. RowsOver
          BY <4>1, <4>3, FinishFacts DEF RowsOver
        <5>. QED
          BY <2>5, <5>1
      <4>. QED
        BY <4>1, <4>2, <4>3, ClearCases DEF Orders
    <3>. QED
      BY <2>12, <3>1, <3>2, <3>3, <3>4
  <2>. QED
    BY <2>1, <2>3, <2>4, <2>9, <2>10, <2>11, <2>12, <2>13 DEF Next, Messages, Hub, Cli
<1>. QED
  BY <1>1, <1>2, <1>7 DEF AgentsExclude

(* The steps that neither move a row nor add to a queue. *)
Quiet ==
  /\ UNCHANGED ran
  /\ \/ UNCHANGED inbox /\ (proc' = "run" => proc = "run")
     \/ \E x \in Places : /\ inbox' = [inbox EXCEPT ![x] = {}]
                          /\ proc' = "run" => proc = "run" \/ x = Source

LEMMA RunCases ==
  ASSUME TypeOK, ClearInv, Next
  PROVE  \/ \E x \in Places : Run(x) \/ Alive(x)
         \/ \E p \in Prompts : Store(p)
         \/ RowsBack \/ RowsOver \/ (RowsStay /\ Quiet)
<1>. USE DEF opVars, hubVars, procVars, runVars, rowVars, cliVars
<1>1. UNCHANGED <<inbox, ran>> /\ (proc' = "run" => proc = "run") => Quiet
  BY DEF Quiet
<1>2. ASSUME NEW o \in Operation, o.next = op.next, op.state \in Unfinished,
             Finish(o), Source \notin active \/ task # None,
             UNCHANGED <<minted, invoked, ran, proc, child>>
      PROVE  RowsOver
  BY <1>2, FinishFacts DEF RowsOver
<1>3. CASE Messages
  BY <1>1, <1>3, RowMoves DEF Messages, PostChecked, Expire, Consumed, AcksLost
<1>4. CASE SpawnFails \/ HubRestart \/ (Reconcile /\ op.state = "abort-needed")
  BY <1>1, <1>4, RowMoves DEF SpawnFails, HubRestart, Reconcile, Unfinished
<1>5. CASE SpawnSucceeds
  <2>1. task \in Operation /\ task.next = op.next /\ op.state \in Unfinished /\ Finish(task)
        /\ task # None /\ UNCHANGED <<minted, invoked, ran, proc, child>>
    BY <1>5 DEF SpawnSucceeds, TypeOK, ClearInv, TakenOnly
  <2>. QED
    BY <1>2, <2>1
<1>6. CASE CallClear \/ (Reconcile /\ op.state # "abort-needed")
  <2>1. Clear /\ op.state \in Committed \cup {"none"} /\ UNCHANGED <<invoked, ran, proc, child>>
    BY <1>6, ClearCalled DEF CallClear, Reconcile
  <2>2. CASE inbox' = inbox
    BY <1>1, <2>1, <2>2, RowMoves
  <2>3. CASE /\ \E o \in Operation : o.next = op.next /\ Finish(o)
             /\ op.state \in Unfinished /\ Source \notin active /\ UNCHANGED minted
    BY <1>2, <2>1, <2>3
  <2>. QED
    BY <2>1, <2>2, <2>3, ClearCases DEF Orders
<1>7. CASE Cli /\ ~CallClear
  <2>1. UNCHANGED <<inbox, ran>> /\ (proc' = "run" => proc = "run")
    BY <1>7 DEF Cli, AskClear, CliReserve, CleanUp, CliConfirm, CliAbort, Late, Archive, EndCleared,
                Leave, Crash, EndOther
  <2>. QED
    BY <1>1, <2>1, RowMoves
<1>8. CASE \E r \in Ids : Launch(r) \/ ChildCrashes(r) \/ ChildEnds(r)
  <2>1. UNCHANGED <<ran, proc>> /\ (inbox' = inbox \/ \E x \in Places : inbox' = [inbox EXCEPT ![x] = {}])
    BY <1>8, PlaceFacts DEF Launch, ChildCrashes, ChildEnds, Forgets
  <2>2. Quiet
    BY <1>1, <2>1 DEF Quiet
  <2>. QED
    BY <2>2, RowMoves
<1>9. CASE ResumeReserved \/ Stopped
  <2>1. UNCHANGED <<inbox, ran>> /\ (proc' = "run" => proc = "run")
    BY <1>9 DEF ResumeReserved, Stopped
  <2>. QED
    BY <1>1, <2>1, RowMoves
<1>10. CASE Resume
  <2>1. UNCHANGED ran /\ inbox' = [inbox EXCEPT ![Source] = {}]
    BY <1>10 DEF Resume, Forgets
  <2>2. Quiet
    BY <2>1, PlaceFacts DEF Quiet
  <2>. QED
    BY <2>2, RowMoves
<1>. QED
  BY <1>3, <1>4, <1>5, <1>6, <1>7, <1>8, <1>9, <1>10 DEF Next, Hub, Cli, Others

(* A prompt's rows follow its runs. *)
LEMMA FollowStep ==
  ASSUME TypeOK, ClearInv, Next
  PROVE  RunsFollowRows'
<1>. USE DEF opVars, hubVars, procVars, runVars, rowVars, cliVars
<1>. SUFFICES ASSUME NEW p \in Prompts
              PROVE  /\ p \notin unheard' => ran'[p] \subseteq at'[p]
                     /\ proc' = "run" /\ p \in inbox'[Source] => Source \in at'[p]
                     /\ \A r \in Ids : p \in inbox'[r] => r \in at'[p]
  BY DEF RunsFollowRows
<1>. DEFINE Goal == /\ p \notin unheard' => ran'[p] \subseteq at'[p]
                    /\ proc' = "run" /\ p \in inbox'[Source] => Source \in at'[p]
                    /\ \A r \in Ids : p \in inbox'[r] => r \in at'[p]
<1>2. /\ p \notin unheard => ran[p] \subseteq at[p]
      /\ proc = "run" /\ p \in inbox[Source] => Source \in at[p]
      /\ \A r \in Ids : p \in inbox[r] => r \in at[p]
  BY DEF ClearInv, RunsFollowRows
<1>3. /\ at[p] \subseteq Places /\ ran[p] \subseteq Places
      /\ \A r \in Ids : p \in inbox[r] \/ r \in ran[p] => linked = r
  BY DEF TypeOK, ClearInv, AgentsExclude
<1>4. ASSUME UNCHANGED <<at, ran, unheard>>,
             proc' = "run" /\ p \in inbox'[Source] =>
               (proc = "run" /\ p \in inbox[Source]) \/ Source \in at[p],
             \A r \in Ids : p \in inbox'[r] => p \in inbox[r] \/ r \in at[p]
      PROVE  Goal
  BY <1>2, <1>4
<1>5. ASSUME NEW x \in Places, Run(x) PROVE Goal
  <2>1. PICK q \in Prompts : /\ q \in inbox[x] /\ inbox' = [inbox EXCEPT ![x] = @ \ {q}]
                             /\ ran' = [ran EXCEPT ![q] = @ \cup {x}]
    BY <1>5 DEF Run, TypeOK
  <2>2. UNCHANGED <<at, proc, unheard>> /\ (x = Source => proc = "run")
    BY <1>5 DEF Run
  <2>3. \A y \in Places : inbox'[y] \subseteq inbox[y]
    BY <2>1 DEF TypeOK
  <2>4. ran'[p] \subseteq ran[p] \cup (IF p = q THEN {x} ELSE {})
    BY <2>1 DEF TypeOK
  <2>5. x \in at[q] \/ q # p
    BY <1>2, <2>1, <2>2, PlaceFacts
  <2>. QED
    BY <1>2, <2>2, <2>3, <2>4, <2>5, PlaceFacts
<1>6. ASSUME NEW q \in Prompts, Store(q) PROVE Goal
  <2>. DEFINE x == Target(address[q])
  <2>1. /\ at' = [at EXCEPT ![q] = @ \cup {x}] /\ x \in Places
        /\ UNCHANGED <<ran, proc, unheard>> /\ (inbox' = inbox \/ Emit(x, {q}))
    BY <1>6, TargetTypes DEF Store, TypeOK
  <2>2. \A y \in Places : \A m \in inbox'[y] : m \in inbox[y] \/ (y = x /\ m = q)
    <3>1. {q} \in SUBSET Prompts
      OBVIOUS
    <3>. QED
      BY <2>1, <3>1, EmitTypes
  <2>3. at[p] \subseteq at'[p] /\ (q = p => x \in at'[p])
    BY <2>1 DEF TypeOK
  <2>. HIDE DEF x
  <2>. QED
    BY <1>2, <2>1, <2>2, <2>3, PlaceFacts
<1>7. CASE RowsBack
  <2>1. PICK n \in Ids : n = op.next
    BY <1>7 DEF RowsBack, GivesUp, ClearInv, OperationShape, TypeOK, Operation
  <2>2. /\ at'[p] = IF p \in Held(n) THEN (at[p] \ {n}) \cup {Source} ELSE at[p]
        /\ UNCHANGED <<inbox, ran>> /\ (proc' = "run" => proc = "run") /\ unheard \subseteq unheard'
    BY <1>7, <2>1 DEF RowsBack, Move, Relocate
  <2>3. linked = None
    BY <1>7 DEF RowsBack, GivesUp, ClearInv, OperationShape
  <2>4. n \notin ran[p] /\ \A r \in Ids : p \notin inbox[r]
    BY <1>3, <2>3, PlaceFacts
  <2>. QED
    BY <1>2, <2>1, <2>2, <2>4, PlaceFacts
<1>8. CASE RowsOver
  <2>1. PICK n \in Ids : n = op.next
    BY <1>8 DEF RowsOver, GoesOn, TakesOver, ClearInv, OperationShape, TypeOK, Operation, Unfinished
  <2>2. /\ at'[p] = IF p \in Held(Source) THEN (at[p] \ {Source}) \cup {n} ELSE at[p]
        /\ UNCHANGED <<ran, proc>> /\ unheard \subseteq unheard'
        /\ p \in Held(Source) /\ Source \in ran[p] => p \in unheard'
    BY <1>8, <2>1 DEF RowsOver, Move, Relocate
  <2>3. linked = None /\ proc # "run"
    BY <1>8 DEF RowsOver, GoesOn, TakesOver, ClearInv, OperationShape, AgentGone, Committed, Unfinished, Agent
  <2>4. \A r \in Ids : p \in inbox'[r] => r = n /\ p \in Held(n) \cup Held(Source)
    BY <1>3, <1>8, <2>1, <2>3, PlaceFacts DEF RowsOver
  <2>5. p \in Held(n) => n \in at[p]
    BY DEF Held
  <2>. QED
    BY <1>2, <2>2, <2>3, <2>4, <2>5, PlaceFacts
<1>9. ASSUME NEW x \in Places, Alive(x) PROVE Goal
  <2>1. Held(x) \in SUBSET Prompts /\ (p \in Held(x) => x \in at[p])
    BY DEF Held
  <2>2. \A y \in Places : p \in inbox'[y] => p \in inbox[y] \/ (y = x /\ p \in Held(x))
    BY <1>9, <2>1, EmitTypes DEF Alive
  <2>3. UNCHANGED <<at, ran, unheard, proc>>
    BY <1>9 DEF Alive
  <2>. QED
    BY <1>4, <2>1, <2>2, <2>3, PlaceFacts
<1>10. CASE RowsStay /\ Quiet
  <2>1. UNCHANGED <<at, ran, unheard>>
    BY <1>10 DEF RowsStay, Quiet
  <2>2. CASE UNCHANGED inbox /\ (proc' = "run" => proc = "run")
    BY <1>4, <2>1, <2>2
  <2>3. ASSUME NEW x \in Places, inbox' = [inbox EXCEPT ![x] = {}],
               proc' = "run" => proc = "run" \/ x = Source
        PROVE  Goal
    <3>1. inbox'[x] = {} /\ \A y \in Places : inbox'[y] \subseteq inbox[y]
      BY <2>3 DEF TypeOK
    <3>. QED
      BY <1>4, <2>1, <2>3, <3>1, PlaceFacts
  <2>. QED
    BY <1>10, <2>2, <2>3 DEF Quiet
<1>. QED
  BY <1>5, <1>6, <1>7, <1>8, <1>9, <1>10, RunCases

(* What the hub has heard of the runs of the source. *)
Silent == \A f \in Silencers : spent[f] = 0

Over == {"archived", "clearing", "gone"}

LEMMA SilentFacts ==
  ASSUME TypeOK, ClearInv, Next, Silent'
  PROVE  /\ \A f \in Silencers : ~Spend(f)
         /\ unheard = {} /\ resuming = None
         /\ Source \notin active \/ task # None => proc \in Over
         /\ proc \in Over => Settled(Source)
         /\ \A p \in Held(Source) : Source \in ran[p] => <<p, Source>> \in acks
<1>1. Silencers \subseteq Faults
  BY DEF Silencers, Faults
<1>2. SpentGrows /\ \A f \in Faults : Spend(f) => spent'[f] # 0
  BY TypeStep, SpendTypes
<1>3. \A f \in Silencers : spent'[f] = 0
  BY DEF Silent
<1>4. \A f \in Silencers : spent[f] = 0
  BY <1>1, <1>2, <1>3 DEF SpentGrows
<1>. QED
  BY <1>1, <1>2, <1>3, <1>4 DEF ClearInv, EndHeard, Over

(* Acknowledgements of the source precede its end, and are not lost without a silencer. *)
LEMMA SilentStep ==
  ASSUME TypeOK, ClearInv, Next, Silent'
  PROVE  /\ resuming' = None
         /\ Source \notin active' \/ task' # None => proc' \in Over
         /\ proc' \in Over => Settled(Source)'
         /\ Consumed \/ acks \subseteq acks'
<1>. USE DEF opVars, hubVars, procVars, runVars, rowVars, cliVars
<1>. DEFINE Goal == /\ resuming' = None
                    /\ Source \notin active' \/ task' # None => proc' \in Over
                    /\ proc' \in Over => Settled(Source)'
                    /\ Consumed \/ acks \subseteq acks'
<1>1. /\ \A f \in {"lost", "crash", "partition", "restart", "resume"} : ~Spend(f)
      /\ resuming = None
      /\ Source \notin active \/ task # None => proc \in Over
      /\ proc \in Over => Settled(Source)
  BY SilentFacts DEF Silencers
<1>2. acks' = acks => (Settled(Source)' <=> Settled(Source))
  BY DEF Settled
<1>3. ASSUME UNCHANGED <<resuming, task, acks, proc>>, Source \in active => Source \in active' \/ proc \in Over
      PROVE  Goal
  BY <1>1, <1>2, <1>3
<1>4. CASE Messages
  <2>1. ASSUME NEW x \in Places, Run(x) PROVE Goal
    <3>1. /\ UNCHANGED <<resuming, task, active, proc>> /\ (x = Source => proc = "run")
          /\ \E q \in Prompts : acks' = acks \cup {<<q, x>>}
      BY <2>1 DEF Run, TypeOK
    <3>2. x # Source => (Settled(Source)' <=> Settled(Source))
      BY <3>1 DEF Settled
    <3>. QED
      BY <1>1, <3>1, <3>2 DEF Over
  <2>2. ASSUME NEW x \in Places, Expire(x) PROVE Goal
    <3>1. UNCHANGED <<resuming, task, acks, proc>> /\ active' = active \ {x} /\ ~Speaks(x)
      BY <1>1, <2>2 DEF Expire
    <3>2. x = Source => proc \in Over
      BY <3>1 DEF Speaks, Over
    <3>. QED
      BY <1>3, <3>1, <3>2
  <2>3. CASE Consumed
    <3>1. UNCHANGED <<resuming, task, active, proc>> /\ acks' \subseteq acks
      BY <2>3 DEF Consumed
    <3>2. Settled(Source) => Settled(Source)'
      BY <3>1 DEF Settled
    <3>. QED
      BY <1>1, <2>3, <3>1, <3>2
  <2>4. ASSUME NEW p \in Prompts, PostChecked(p) \/ Store(p) PROVE Goal
    BY <1>3, <2>4 DEF PostChecked, Store
  <2>5. ASSUME NEW x \in Places, Alive(x) PROVE Goal
    BY <1>3, <2>5 DEF Alive
  <2>. QED
    BY <1>1, <1>4, <2>1, <2>2, <2>3, <2>4, <2>5 DEF Messages, AcksLost
<1>5. CASE Hub \/ CallClear
  <2>1. ~HubRestart
    BY <1>1 DEF HubRestart
  <2>2. UNCHANGED <<resuming, acks, proc>>
    BY <1>5, <2>1 DEF Hub, SpawnSucceeds, SpawnFails, Reconcile, CallClear
  <2>3. Source \in active' <=> Source \in active
    BY <1>5, <2>1 DEF Hub, SpawnSucceeds, SpawnFails, Reconcile, CallClear
  <2>4. task' # None => task # None \/ Source \notin active
    BY <1>5, <2>1 DEF Hub, SpawnSucceeds, SpawnFails, Reconcile, CallClear, Clear, Clearable
  <2>. QED
    BY <1>1, <1>2, <2>2, <2>3, <2>4
<1>6. CASE Cli /\ ~CallClear
  <2>1. UNCHANGED <<resuming, task, acks>>
    BY <1>1, <1>6 DEF Cli, AskClear, CliReserve, CleanUp, CliConfirm, CliAbort, Late, Archive, EndCleared,
                      Leave, Crash, EndOther
  <2>2. proc' \in Over => proc \in Over \/ Settled(Source)
    BY <1>1, <1>6 DEF Cli, AskClear, CliReserve, CleanUp, CliConfirm, CliAbort, Late, Archive, EndCleared,
                      Leave, Crash, EndOther, Over
  <2>3. Source \in active' \/ Source \notin active \/ proc' \in Over
    BY <1>6 DEF Cli, AskClear, CliReserve, CleanUp, CliConfirm, CliAbort, Late, Archive, EndCleared,
                Leave, Crash, EndOther, Over
  <2>4. proc \in Over => proc' \in Over
    BY <1>6 DEF Cli, AskClear, CliReserve, CleanUp, CliConfirm, CliAbort, Late, Archive, EndCleared,
                Leave, Crash, EndOther, Over
  <2>. QED
    BY <1>1, <1>2, <2>1, <2>2, <2>3, <2>4
<1>7. CASE Others
  <2>1. /\ UNCHANGED <<resuming, task, acks, proc>>
        /\ Source \in active => Source \in active'
    BY <1>1, <1>7, PlaceFacts DEF Others, Launch, ChildCrashes, ChildEnds, ResumeReserved, Stopped, Resume
  <2>. QED
    BY <1>3, <2>1
<1>. QED
  BY <1>4, <1>5, <1>6, <1>7 DEF Next

LEMMA HeardStep ==
  ASSUME TypeOK, ClearInv, Next
  PROVE  EndHeard'
<1>. USE DEF opVars, hubVars, procVars, runVars, rowVars, cliVars
<1>. SUFFICES ASSUME Silent'
              PROVE  unheard' = {} /\ \A p \in Held(Source)' : Source \in ran'[p] => <<p, Source>> \in acks'
  BY SilentStep DEF EndHeard, Silent, Over
<1>. DEFINE Heard(p) == p \in Held(Source)' /\ Source \in ran'[p] => <<p, Source>> \in acks'
<1>. DEFINE Good == unheard' = {} /\ \A p \in Prompts : Heard(p)
<1>1. /\ unheard = {}
      /\ Source \notin active \/ task # None => \A p \in Prompts : <<p, Source>> \notin acks
      /\ \A p \in Prompts : p \in Held(Source) /\ Source \in ran[p] => <<p, Source>> \in acks
      /\ \A p \in Prompts : Source \in ran[p] => Source \in at[p]
  BY SilentFacts DEF Settled, ClearInv, RunsFollowRows
<1>2. \A x \in Places : \A p : p \in Held(x) <=> p \in Prompts /\ x \in at[p] /\ <<p, x>> \notin invoked
  BY DEF Held
<1>3. \A p : p \in Held(Source)' <=> p \in Prompts /\ Source \in at'[p] /\ <<p, Source>> \notin invoked'
  BY DEF Held
<1>4. ASSUME UNCHANGED <<unheard, ran>>, invoked \subseteq invoked', acks \subseteq acks'
      PROVE  Good
  BY <1>1, <1>2, <1>3, <1>4, PlaceFacts
<1>5. Consumed \/ acks \subseteq acks'
  BY SilentStep
<1>6. ASSUME Consumed PROVE Good
  <2>1. PICK q \in Prompts, x \in Places :
          /\ acks' = acks \ {<<q, x>>}
          /\ invoked' = IF x \in at[q] THEN invoked \cup {<<q, x>>} ELSE invoked
    BY <1>6 DEF Consumed
  <2>2. UNCHANGED <<unheard, ran, at>>
    BY <1>6 DEF Consumed
  <2>3. ASSUME NEW p \in Prompts, p \in Held(Source)', Source \in ran'[p] PROVE <<p, Source>> \in acks'
    <3>1. Source \in at[p] /\ <<p, Source>> \notin invoked'
      BY <1>3, <2>2, <2>3
    <3>2. <<p, Source>> # <<q, x>> /\ <<p, Source>> \notin invoked
      BY <2>1, <3>1
    <3>3. <<p, Source>> \in acks
      BY <1>1, <1>2, <2>2, <2>3, <3>1, <3>2, PlaceFacts
    <3>. QED
      BY <2>1, <3>2, <3>3
  <2>. QED
    BY <1>1, <1>3, <2>2, <2>3
<1>7. ASSUME NEW x \in Places, Run(x) PROVE Good
  <2>1. PICK q \in Prompts : ran' = [ran EXCEPT ![q] = @ \cup {x}] /\ acks' = acks \cup {<<q, x>>}
    BY <1>7 DEF Run, TypeOK
  <2>2. UNCHANGED <<unheard, at, invoked>>
    BY <1>7 DEF Run
  <2>3. \A p \in Prompts : Source \in ran'[p] => Source \in ran[p] \/ (p = q /\ x = Source)
    BY <2>1 DEF TypeOK
  <2>. QED
    BY <1>1, <1>2, <1>3, <2>1, <2>2, <2>3, PlaceFacts
<1>8. ASSUME acks \subseteq acks', NEW q \in Prompts, Store(q)
      PROVE  Good
  BY <1>1, <1>4, <1>8 DEF Store
<1>9. ASSUME acks \subseteq acks', NEW x \in Places, Alive(x)
      PROVE  Good
  BY <1>4, <1>9 DEF Alive
<1>10. ASSUME acks \subseteq acks', RowsStay, Quiet PROVE Good
  BY <1>4, <1>10 DEF RowsStay, Quiet
<1>11. ASSUME acks \subseteq acks', RowsBack PROVE Good
  <2>1. PICK n \in Ids : n = op.next
    BY <1>11 DEF RowsBack, GivesUp, ClearInv, OperationShape, TypeOK, Operation
  <2>2. linked = None
    BY <1>11 DEF RowsBack, GivesUp, ClearInv, OperationShape
  <2>3. \A p \in Prompts : n \notin ran[p]
    BY <2>1, <2>2, PlaceFacts DEF ClearInv, AgentsExclude
  <2>4. unheard' = unheard \cup {p \in Held(n) : n \in ran[p]} /\ Held(n) \subseteq Prompts
    BY <1>11, <2>1 DEF RowsBack, Relocate, Held
  <2>5. unheard' = unheard
    BY <2>3, <2>4
  <2>6. UNCHANGED ran /\ invoked \subseteq invoked'
    BY <1>11 DEF RowsBack
  <2>. QED
    BY <1>1, <1>4, <1>11, <2>5, <2>6
<1>12. ASSUME RowsOver PROVE Good
  <2>1. PICK n \in Ids : n = op.next
    BY <1>12 DEF RowsOver, GoesOn, TakesOver, ClearInv, OperationShape, TypeOK, Operation, Unfinished
  <2>2. Held(Source)' = {}
    BY <1>12, <2>1, MoveHeld, PlaceFacts DEF RowsOver
  <2>3. unheard' = unheard \cup {p \in Held(Source) : Source \in ran[p]} /\ Held(Source) \subseteq Prompts
    BY <1>12 DEF RowsOver, Relocate, Held
  <2>4. \A p \in Prompts : ~(p \in Held(Source) /\ Source \in ran[p])
    BY <1>1, <1>12 DEF RowsOver
  <2>. QED
    BY <1>1, <2>2, <2>3, <2>4
<1>13. \/ Consumed
       \/ \E x \in Places : Run(x)
       \/ /\ acks \subseteq acks'
          /\ \/ \E x \in Places : Alive(x)
             \/ \E p \in Prompts : Store(p)
             \/ RowsBack \/ (RowsStay /\ Quiet)
       \/ RowsOver
  BY <1>5, RunCases
<1>14. Good =>
         unheard' = {} /\ \A p \in Held(Source)' : Source \in ran'[p] => <<p, Source>> \in acks'
  BY <1>3
<1>. HIDE DEF Good
<1>. QED
  BY <1>6, <1>7, <1>8, <1>9, <1>10, <1>11, <1>12, <1>13, <1>14

-----------------------------------------------------------------------------
LEMMA ClearInit == Init => TypeOK /\ ClearInv
<1>. SUFFICES ASSUME Init PROVE TypeOK /\ ClearInv
  OBVIOUS
<1>. USE DEF Init
<1>1. TypeOK
  BY PlaceFacts, LimitAssumption DEF TypeOK, Operation, States, Phases
<1>2. OperationShape /\ AgentGone
  BY PlaceFacts DEF OperationShape, AgentGone, Committed, Unfinished, Agent
<1>3. TakenOnly
  BY PlaceFacts DEF TakenOnly
<1>4. AgentsExclude
  BY <1>1, PlaceFacts DEF AgentsExclude
<1>5. NothingStranded
  BY PlaceFacts DEF NothingStranded, Held
<1>6. RunsFollowRows
  BY PlaceFacts DEF RunsFollowRows
<1>7. EndHeard
  BY PlaceFacts DEF EndHeard, Settled, Held
<1>. QED
  BY <1>1, <1>2, <1>3, <1>4, <1>5, <1>6, <1>7 DEF ClearInv

LEMMA ClearNext ==
  ASSUME TypeOK, ClearInv, [Next]_vars
  PROVE  (TypeOK /\ ClearInv)'
<1>1. CASE Next
  <2>1. OperationShape'
    BY <1>1, HubMoves, OtherMoves, MovesKeepShape DEF Next
  <2>. QED
    BY <1>1, <2>1, TypeStep, GoneStep, TakenStep, ExcludeStep, StrandedStep, FollowStep, HeardStep DEF ClearInv
<1>2. CASE UNCHANGED vars
  <2>. USE <1>2 DEF vars, opVars, hubVars, procVars, runVars, rowVars, cliVars
  <2>1. TypeOK' /\ OperationShape' /\ AgentGone' /\ TakenOnly'
    BY DEF TypeOK, ClearInv, OperationShape, AgentGone, TakenOnly
  <2>2. AgentsExclude'
    BY <2>1 DEF ClearInv, AgentsExclude
  <2>3. NothingStranded'
    BY DEF ClearInv, NothingStranded, Held
  <2>4. RunsFollowRows'
    BY DEF ClearInv, RunsFollowRows
  <2>5. EndHeard'
    BY DEF ClearInv, EndHeard, Settled, Held
  <2>. QED
    BY <2>1, <2>2, <2>3, <2>4, <2>5 DEF ClearInv
<1>. QED
  BY <1>1, <1>2

LEMMA ClearInductive == Spec => [](TypeOK /\ ClearInv)
<1>1. (TypeOK /\ ClearInv) /\ [Next]_vars => (TypeOK /\ ClearInv)'
  BY ClearNext
<1>. QED
  BY ClearInit, <1>1, PTL DEF Spec

(* A replacement has a process only while the source's agent is gone, and no   *)
(* prompt reaches it before the source is linked to it, whatever is lost, late *)
(* or restarted; and every variable of the clear keeps its type.               *)
THEOREM AgentsAlwaysExclude == Spec => []AgentsExclude
<1>1. ClearInv => AgentsExclude
  BY DEF ClearInv
<1>. QED
  BY ClearInductive, <1>1, PTL

(* Held prompts are neither left in a source that is linked to its replacement *)
(* nor in a replacement that was given up.                                     *)
THEOREM NothingIsStranded == Spec => []NothingStranded
<1>1. ClearInv => NothingStranded
  BY DEF ClearInv
<1>. QED
  BY ClearInductive, <1>1, PTL

(* Moving the rows between the source and its replacements makes a second agent *)
(* run a prompt only if it has two rows, or its row moved before the hub heard  *)
(* of the run; and that takes a loss, a crash, a silence, a restart or a resume. *)
THEOREM RunsOnce == Spec => []RunsInOneSession
<1>1. ASSUME TypeOK, ClearInv PROVE RunsInOneSession
  <2>1. unheard # {} => \E f \in Silencers : spent[f] > 0
    <3>1. Silencers \subseteq Faults /\ spent \in [Faults -> Nat]
      BY <1>1 DEF Silencers, Faults, TypeOK
    <3>2. (\A f \in Silencers : spent[f] = 0) => unheard = {}
      BY <1>1 DEF ClearInv, EndHeard
    <3>. QED
      BY <3>1, <3>2
  <2>2. ASSUME NEW p \in Prompts, p \notin unheard
        PROVE  ran[p] \subseteq at[p]
    BY <1>1, <2>2 DEF ClearInv, RunsFollowRows
  <2>. QED
    BY <2>1, <2>2 DEF RunsInOneSession
<1>. QED
  BY ClearInductive, <1>1, PTL

-----------------------------------------------------------------------------
(* Every step of the clear is a step of HandOff, or none of the fates changes. *)

LEMMA FateStep ==
  ASSUME TypeOK, ClearInv, Moves
  PROVE  [Clearing!Next]_[r \in Ids |-> Fate(r)]
<1>. DEFINE F == [r \in Ids |-> Fate(r)]
<1>1. /\ op \in Operation /\ minted \subseteq Ids /\ None \notin Ids
      /\ op.state = "none" <=> op.next = None
      /\ op.next # None => op.next \in minted /\ op.next \in Ids
  BY PlaceFacts DEF TypeOK, ClearInv, OperationShape, Operation
<1>2. ASSUME NEW n \in Ids, \A r \in Ids \ {n} : Fate(r)' = Fate(r) /\ Fate(r) \in {"unused", "given up"},
             \/ Fate(n) = "unused" /\ Fate(n)' = "reserved"
             \/ Fate(n) = "reserved" /\ Fate(n)' = "given up"
             \/ Fate(n) \in {"unused", "reserved"} /\ Fate(n)' = "committed"
             \/ Fate(n) = "committed" /\ Fate(n)' = "taken over"
      PROVE  Clearing!Next
  <2>1. Clearing!Alone(n)
    BY <1>2 DEF Clearing!Alone
  <2>2. F' = [F EXCEPT ![n] = Fate(n)']
    BY <1>2
  <2>4. CASE Fate(n) = "unused" /\ Fate(n)' = "reserved"
    <3>1. Clearing!Moves(n, {"unused"}, "reserved")
      BY <2>1, <2>2, <2>4 DEF Clearing!Moves
    <3>. QED
      BY <3>1 DEF Clearing!Next, Clearing!Reserve
  <2>5. CASE Fate(n) = "reserved" /\ Fate(n)' = "given up"
    <3>1. Clearing!Moves(n, {"reserved"}, "given up")
      BY <2>1, <2>2, <2>5 DEF Clearing!Moves
    <3>. QED
      BY <3>1 DEF Clearing!Next, Clearing!GiveUp
  <2>6. CASE Fate(n) \in {"unused", "reserved"} /\ Fate(n)' = "committed"
    <3>1. Clearing!Moves(n, {"unused", "reserved"}, "committed")
      BY <2>1, <2>2, <2>6 DEF Clearing!Moves
    <3>. QED
      BY <3>1 DEF Clearing!Next, Clearing!Commit
  <2>7. CASE Fate(n) = "committed" /\ Fate(n)' = "taken over"
    <3>1. Clearing!Moves(n, {"committed"}, "taken over")
      BY <2>1, <2>2, <2>7 DEF Clearing!Moves
    <3>. QED
      BY <3>1 DEF Clearing!Next, Clearing!TakeOver
  <2>. QED
    BY <1>2, <2>4, <2>5, <2>6, <2>7
<1>3. ASSUME \A r \in Ids : Fate(r)' = Fate(r) PROVE UNCHANGED F
  BY <1>3
<1>4. \A r \in Ids : r # op.next => Fate(r) = IF r \in minted THEN "given up" ELSE "unused"
  BY DEF Fate
<1>5. \A r \in Ids : r # op'.next => Fate(r)' = IF r \in minted' THEN "given up" ELSE "unused"
  BY DEF Fate
<1>6. \A r \in Ids : r = op.next /\ r \in minted =>
        Fate(r) = IF op.state \in {"abort-needed", "aborted"} THEN "given up"
                  ELSE IF op.state = "reserved" THEN "reserved"
                  ELSE IF op.state \in Unfinished THEN "committed" ELSE "taken over"
  <2>. SUFFICES ASSUME NEW r \in Ids, r = op.next, r \in minted
                PROVE  Fate(r) = IF op.state \in {"abort-needed", "aborted"} THEN "given up"
                                  ELSE IF op.state = "reserved" THEN "reserved"
                                  ELSE IF op.state \in Unfinished THEN "committed" ELSE "taken over"
    OBVIOUS
  <2>1. CASE op.state \in {"abort-needed", "aborted"}
    BY <2>1 DEF Fate, Unfinished
  <2>2. CASE op.state = "reserved"
    BY <2>2 DEF Fate, Unfinished
  <2>3. CASE op.state \in Unfinished
    BY <2>3 DEF Fate, Unfinished
  <2>4. CASE op.state \notin {"abort-needed", "aborted", "reserved"} \cup Unfinished
    BY <2>4 DEF Fate, Unfinished
  <2>. QED
    BY <2>1, <2>2, <2>3, <2>4
<1>7. \A r \in Ids : r = op'.next /\ r \in minted' =>
        Fate(r)' = IF op'.state \in {"abort-needed", "aborted"} THEN "given up"
                   ELSE IF op'.state = "reserved" THEN "reserved"
                   ELSE IF op'.state \in Unfinished THEN "committed" ELSE "taken over"
  <2>. SUFFICES ASSUME NEW r \in Ids, r = op'.next, r \in minted'
                PROVE  Fate(r)' = IF op'.state \in {"abort-needed", "aborted"} THEN "given up"
                                  ELSE IF op'.state = "reserved" THEN "reserved"
                                  ELSE IF op'.state \in Unfinished THEN "committed" ELSE "taken over"
    OBVIOUS
  <2>1. CASE op'.state \in {"abort-needed", "aborted"}
    BY <2>1 DEF Fate, Unfinished
  <2>2. CASE op'.state = "reserved"
    BY <2>2 DEF Fate, Unfinished
  <2>3. CASE op'.state \in Unfinished
    BY <2>3 DEF Fate, Unfinished
  <2>4. CASE op'.state \notin {"abort-needed", "aborted", "reserved"} \cup Unfinished
    BY <2>4 DEF Fate, Unfinished
  <2>. QED
    BY <2>1, <2>2, <2>3, <2>4
<1>8. CASE UNCHANGED <<op, linked, minted>>
  BY <1>3, <1>8 DEF Fate
<1>9. CASE Reserves \/ Starts
  <2>1. PICK n \in Ids \ minted :
          /\ op.state \in {"none", "aborted"} /\ minted' = minted \cup {n} /\ op'.next = n
          /\ op'.state = "reserved" \/ (op'.state = "pending" /\ op.state = "none")
    BY <1>9 DEF Reserves, Starts
  <2>2. \A r \in Ids : Fate(r) = IF r \in minted THEN "given up" ELSE "unused"
    BY <1>1, <1>4, <1>6, <2>1
  <2>3. Fate(n) = "unused" /\ Fate(n)' \in {"reserved", "committed"}
    BY <1>7, <2>1, <2>2 DEF Unfinished
  <2>4. \A r \in Ids \ {n} : Fate(r)' = Fate(r) /\ Fate(r) \in {"unused", "given up"}
    BY <1>5, <2>1, <2>2
  <2>. QED
    BY <1>2, <2>1, <2>3, <2>4
<1>10. CASE GivesUp \/ Doubts \/ Confirms \/ GoesOn \/ TakesOver
  <2>1. PICK n \in Ids : n = op.next /\ n = op'.next /\ n \in minted /\ minted' = minted
    <3>1. op.state # "none" /\ op'.next = op.next /\ minted' = minted
      BY <1>1, <1>10 DEF GivesUp, Doubts, Confirms, GoesOn, TakesOver, Unfinished, Operation
    <3>. QED
      BY <1>1, <3>1
  <2>2. \A r \in Ids \ {n} : Fate(r)' = Fate(r) /\ Fate(r) \in {"unused", "given up"}
    BY <1>4, <1>5, <2>1
  <2>3. \/ Fate(n)' = Fate(n)
        \/ Fate(n) = "reserved" /\ Fate(n)' = "given up"
        \/ Fate(n) = "reserved" /\ Fate(n)' = "committed"
        \/ Fate(n) = "committed" /\ Fate(n)' = "taken over"
    <3>1. CASE GivesUp \/ Doubts
      BY <1>1, <1>6, <1>7, <2>1, <3>1 DEF GivesUp, Doubts, Operation
    <3>2. CASE Confirms
      BY <1>1, <1>6, <1>7, <2>1, <3>2 DEF Confirms, Operation, Unfinished
    <3>3. CASE GoesOn \/ TakesOver
      BY <1>1, <1>6, <1>7, <2>1, <3>3 DEF GoesOn, TakesOver, Unfinished
    <3>. QED
      BY <1>10, <3>1, <3>2, <3>3
  <2>. QED
    BY <1>2, <1>3, <2>2, <2>3
<1>. QED
  BY <1>8, <1>9, <1>10 DEF Moves

(* The clear of a session implements the hand-off: a candidate at a time, each  *)
(* given up for good or committed to for good, and only the committed one takes *)
(* over - however requests are lost, repeated or late and the hub restarted.    *)
THEOREM ImplementsHandOff == Spec => ClearIsHandOff
<1>1. Init => Clearing!Init
  BY DEF Init, Clearing!Init, Fate
<1>2. (TypeOK /\ ClearInv) /\ [Next]_vars => [Clearing!Next]_[r \in Ids |-> Fate(r)]
  <2>1. ASSUME TypeOK, ClearInv, Next PROVE Moves
    BY <2>1, HubMoves, OtherMoves DEF Next
  <2>2. UNCHANGED vars => Moves
    BY DEF vars, opVars, Moves
  <2>. QED
    BY <2>1, <2>2, FateStep
<1>. QED
  BY ClearInductive, <1>1, <1>2, PTL DEF Spec, ClearIsHandOff, Clearing!Spec
=============================================================================
