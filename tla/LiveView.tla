------------------------------ MODULE LiveView ------------------------------
(***************************************************************************)
(* What a browser shows of a session: the window of messages of            *)
(* web/src/lib/message-window-store.ts, kept up to date by the events of   *)
(* EventStream and by pages it asks of the hub (getMessagesPage of         *)
(* hub/src/sync/messageService.ts over hub/src/store/messages.ts).         *)
(*                                                                         *)
(* Pages and events travel apart, so a page may be older than the events   *)
(* the browser has handled since it asked.                                 *)
(***************************************************************************)
EXTENDS EventStream, FiniteSetsExt

CONSTANTS
  Prompts,       \* rows with a localId: queued until the agent consumes them
  Outputs,       \* rows of the agent, invoked when they are inserted
  PageSize,      \* PAGE_SIZE
  TailLimit, HistoryLimit, OlderLimit,  \* VISIBLE_, HISTORY_ and OLDER_LOAD_WINDOW_SIZE
  MaxDrops,      \* bound: connections that break
  MaxTurns       \* bound: moves of the reader (scrolling back, returning, loading older
                 \* rows) and requests that fail, together

ASSUME RowsAssumption == Prompts \cap Outputs = {}
(* No event of the rows is one that is kept from this subscription. *)
ASSUME ElsewhereAssumption ==
  Elsewhere \notin [kind : {"consumed"}, row : Prompts, at : Nat] \cup [kind : {"cancelled"}, row : Prompts]
                      \cup [kind : {"invalidated"}]

VARIABLES
  row,      \* the rows of the session in the database
  used,     \* ids given so far; none is given twice
  clock,    \* the hub's clock
  epoch,    \* message_epochs
  win,      \* the window
  sync,     \* the run of runTailSync
  base,     \* rows of the window that are as they were when the run asked
  trailing, \* trailingRequested
  older,    \* the load of older rows
  recons,   \* runs of reconcileQueuedStateAfterConnect
  owed,     \* no run that was begun after the last gap was told has succeeded yet
  jumped,   \* rows of the stream were shown while one was owed and none was under way
  doubtful, \* prompts that were consumed or cancelled, or trimmed once consumed, while an
            \* answer under way may still show them queued
  drops, failures, moves  \* so far

hubRows == <<row, used, clock, epoch>>
window == <<win, sync, base, trailing, older, recons, owed, jumped, doubtful>>
ghosts == <<owed, jumped, doubtful>>
counters == <<drops, failures, moves>>
viewVars == <<vars, hubRows, window, counters>>

Rows == Prompts \cup Outputs
Nothing == [r \in {} |-> 0]  \* no rows
NoEpoch == 0 - 1

-----------------------------------------------------------------------------
(* Positions: (invokedAt ?? createdAt, seq), as one number; 0 is none. *)

Width == Cardinality(Rows) + 1
At(body) == IF body.invoked # 0 THEN body.invoked ELSE body.created
Pos(body) == At(body) * Width + body.seq
Queued(body) == body.invoked = 0

Positions(rows) == {Pos(rows[r]) : r \in DOMAIN rows}
Newest(rows) == IF DOMAIN rows = {} THEN 0 ELSE Max(Positions(rows))
Oldest(rows) == IF DOMAIN rows = {} THEN 0 ELSE Min(Positions(rows))
Only(rows, ids) == [r \in DOMAIN rows \cap ids |-> rows[r]]
Where(rows, Test(_)) == [r \in {q \in DOMAIN rows : Test(rows[q])} |-> rows[r]]

(* The first or the last n rows in display order. *)
Rank(rows, r) == Cardinality({q \in DOMAIN rows : Pos(rows[q]) < Pos(rows[r])})
FirstRows(rows, n) == Only(rows, {r \in DOMAIN rows : Rank(rows, r) < n})
LastRows(rows, n) ==
  Only(rows, {r \in DOMAIN rows : Rank(rows, r) + n >= Cardinality(DOMAIN rows)})

-----------------------------------------------------------------------------
(* The hub's pages *)

NewestRow == Newest(row)

PageBack(before) ==
  LET rows == LastRows(Where(row, LAMBDA b : before = 0 \/ Pos(b) < before), PageSize)
      oldest == Oldest(rows)
  IN  [rows |-> IF before = 0 THEN [r \in DOMAIN rows \cup DOMAIN Where(row, Queued) |-> row[r]] ELSE rows,
       latest |-> before = 0, reset |-> FALSE, epoch |-> epoch,
       before |-> oldest, after |-> 0, head |-> NewestRow,
       more |-> oldest # 0 /\ \E r \in DOMAIN row : Pos(row[r]) < oldest]

PageForward(after, until) ==
  LET head == IF until # 0 /\ NewestRow # 0 THEN Min({until, NewestRow}) ELSE Max({until, NewestRow})
      rows == FirstRows(Where(row, LAMBDA b : Pos(b) > after /\ Pos(b) <= head), PageSize)
      next == IF head <= after THEN after ELSE IF DOMAIN rows = {} THEN head ELSE Newest(rows)
  IN  [rows |-> rows, latest |-> FALSE, reset |-> FALSE, epoch |-> epoch,
       before |-> 0, after |-> next, head |-> head,
       more |-> DOMAIN rows # {} /\ next < head]

(* Mutant: the epoch is not looked at, a catch-up just goes on. *)
MutPage(ask) == IF ask.after # 0 THEN PageForward(ask.after, ask.until) ELSE PageBack(ask.before)

Page(ask) ==
  IF ask.after # 0
  THEN IF ask.epoch # NoEpoch /\ ask.epoch # epoch
       THEN [PageBack(0) EXCEPT !.reset = TRUE]
       ELSE PageForward(ask.after, ask.until)
  ELSE PageBack(ask.before)

-----------------------------------------------------------------------------
(* The window *)

EmptyWindow == [rows |-> Nothing, epoch |-> NoEpoch, newest |-> 0, oldest |-> 0,
                more |-> FALSE, stale |-> FALSE, mode |-> "tail"]

(* Mutant: what comes in always replaces what is there. *)
MutMerge(rows, incoming) ==
  [r \in DOMAIN rows \cup DOMAIN incoming |-> IF r \in DOMAIN incoming THEN incoming[r] ELSE rows[r]]

(* mergeMessages: what comes in replaces what is there, but a row that was *)
(* invoked stays so.                                                       *)
Merge(rows, incoming) ==
  [r \in DOMAIN rows \cup DOMAIN incoming |->
     IF r \notin DOMAIN incoming THEN rows[r]
     ELSE IF r \in DOMAIN rows /\ ~Queued(rows[r]) /\ Queued(incoming[r])
          THEN [incoming[r] EXCEPT !.invoked = rows[r].invoked]
          ELSE incoming[r]]

Trim(rows, limit, side) ==
  LET queued == Where(rows, Queued)
      regular == Where(rows, LAMBDA b : ~Queued(b))
      room == Max({0, limit - Cardinality(DOMAIN queued)})
      kept == IF side = "prepend" THEN FirstRows(regular, room) ELSE LastRows(regular, room)
  IN  Only(rows, DOMAIN queued \cup DOMAIN kept)

(* Older rows were dropped: they are to be asked for from the lowest row *)
(* kept, which may be a queued one that stands below what was dropped.   *)
DropBelow(w, kept) ==
  [w EXCEPT !.rows = kept, !.more = TRUE, !.oldest = Oldest(kept)]

MergeIntoWindow(w, incoming, side, limit) ==
  LET merged == Merge(w.rows, incoming)
      kept == Trim(merged, limit, side)
      dropped == DOMAIN kept # DOMAIN merged
  IN  CASE DOMAIN incoming = {} -> w
      [] DOMAIN incoming # {} /\ ~dropped -> [w EXCEPT !.rows = kept]
      [] DOMAIN incoming # {} /\ dropped /\ side = "append" ->
           DropBelow(w, kept)
      [] DOMAIN incoming # {} /\ dropped /\ side = "prepend" ->
           [w EXCEPT !.rows = kept, !.stale = TRUE, !.newest = Newest(kept)]

MergeHere(w, incoming) ==
  IF w.mode = "history" THEN MergeIntoWindow(w, incoming, "prepend", HistoryLimit)
                        ELSE MergeIntoWindow(w, incoming, "append", TailLimit)

(* ingestIncomingMessages *)
Ingest(w, incoming) ==
  LET merged == MergeHere(w, incoming)
  IN  IF merged.epoch = NoEpoch \/ merged.stale THEN merged
      ELSE [merged EXCEPT !.newest = Max({@, Newest(incoming)})]

MarkConsumed(w, r, at) ==
  IF r \in DOMAIN w.rows /\ Queued(w.rows[r]) THEN [w EXCEPT !.rows[r].invoked = at] ELSE w

Discard(w, ids) == [w EXCEPT !.rows = Only(@, DOMAIN @ \ ids)]

(* applyLatestResponse: rows of the window that changed since the request *)
(* win over the page; with replace the others give way to it.             *)
ApplyLatest(w, page, replace, untouched) ==
  LET concurrent == Only(w.rows, DOMAIN w.rows \ untouched)
      merged == Merge(Merge(IF replace THEN concurrent ELSE w.rows, page.rows), concurrent)
      kept == Trim(merged, TailLimit, "append")
      dropped == DOMAIN kept # DOMAIN merged
      head == IF page.head # 0 THEN page.head ELSE Newest(page.rows)
      paged == [w EXCEPT !.rows = kept, !.more = page.more \/ (~replace /\ @),
                         !.oldest = IF replace \/ page.before # 0 THEN page.before ELSE @]
      shown == IF dropped THEN DropBelow(w, kept) ELSE paged
  IN  [shown EXCEPT !.epoch = page.epoch, !.newest = Max({head, Newest(kept)}), !.stale = FALSE]

(* What a page of a catch-up does to the window. *)
ApplyForward(w, page) ==
  LET merged == MergeHere(w, page.rows)
  IN  IF merged.stale THEN [merged EXCEPT !.epoch = page.epoch]
      ELSE [merged EXCEPT !.epoch = page.epoch, !.newest = Max({@, page.after})]

EnterTail(w) ==
  LET kept == Trim(w.rows, TailLimit, "append")
      trimmed == IF DOMAIN kept # DOMAIN w.rows THEN DropBelow(w, kept) ELSE w
  IN  [trimmed EXCEPT !.mode = "tail",
                      !.epoch = IF w.stale THEN NoEpoch ELSE @,
                      !.newest = IF w.stale THEN 0 ELSE @]

-----------------------------------------------------------------------------
(* Synchronisation of the tail *)

Idle == [at |-> "idle", ask |-> <<>>, page |-> <<>>, replace |-> FALSE, covers |-> FALSE]

(* A run goes on from the newest position it knows, or reads the latest page. *)
Ask(w) ==
  IF w.newest # 0 /\ w.epoch # NoEpoch /\ ~w.stale
  THEN [after |-> w.newest, until |-> 0, epoch |-> w.epoch, before |-> 0]
  ELSE [after |-> 0, until |-> 0, epoch |-> NoEpoch, before |-> 0]

(* beginTailSync gives up a load of older rows. *)
StartSync(w) ==
  /\ win' = w
  /\ sync' = [at |-> "asked", ask |-> Ask(w), page |-> <<>>, replace |-> w.stale, covers |-> TRUE]
  /\ base' = DOMAIN w.rows
  /\ older' = Idle

(* syncTailMessages with ensureAfterCurrent *)
EnsureSync(w) ==
  IF sync.at = "idle"
  THEN StartSync(w) /\ UNCHANGED trailing
  ELSE /\ win' = w /\ trailing' = TRUE
       /\ UNCHANGED <<sync, base, older>>

(* A run ends, and the one that was asked for meanwhile begins. *)
EndSync(w, succeeded) ==
  /\ trailing' = FALSE
  /\ IF trailing THEN StartSync(w)
     ELSE /\ win' = w /\ sync' = Idle /\ base' = {} /\ UNCHANGED older
  /\ owed' = (owed /\ ~(succeeded /\ sync.covers))
  /\ jumped' = IF succeeded THEN jumped /\ ~(sync.covers /\ sync.page.latest) ELSE jumped \/ owed
  /\ UNCHANGED doubtful

SyncServe ==
  /\ sync.at = "asked"
  /\ sync' = [sync EXCEPT !.at = "answered", !.page = Page(sync.ask)]
  /\ UNCHANGED <<vars, hubRows, win, base, trailing, older, recons, ghosts, counters>>

SyncLatest ==
  /\ sync.at = "answered" /\ sync.page.latest
  /\ LET replace == sync.replace \/ sync.page.reset
     IN  EndSync(ApplyLatest(win, sync.page, replace, base), TRUE)
  /\ UNCHANGED <<vars, hubRows, recons, counters>>

(* A page of a catch-up: the run asks for the next one as long as there is *)
(* more below the head it began with.                                      *)
SyncForward ==
  /\ sync.at = "answered" /\ ~sync.page.latest
  /\ LET page == sync.page
         after == ApplyForward(win, page)
     IN  IF after.stale \/ ~page.more
         THEN EndSync(after, TRUE)
         ELSE /\ win' = after
              /\ sync' = [sync EXCEPT !.at = "asked", !.page = <<>>, !.ask.after = page.after,
                            !.ask.until = IF @ = 0 THEN page.head ELSE @]
              /\ base' = DOMAIN after.rows
              /\ UNCHANGED <<trailing, older, ghosts>>
  /\ UNCHANGED <<vars, hubRows, recons, counters>>

Fail == failures + moves < MaxTurns /\ failures' = failures + 1 /\ UNCHANGED <<drops, moves>>

SyncFails ==
  /\ sync.at # "idle"
  /\ EndSync(win, FALSE)
  /\ Fail
  /\ UNCHANGED <<vars, hubRows, recons>>

-----------------------------------------------------------------------------
(* Queued prompts after a gap (queued-state-reconciliation.ts): once the   *)
(* tail is synchronised the browser asks for the state of every prompt it  *)
(* shows as queued.                                                        *)

Draining == [at |-> "draining", ids |-> {}, queued |-> {}, invoked |-> Nothing]

(* An answer that the window is to be changed by is under way. *)
Pending == sync.at # "idle" \/ older.at # "idle"

(* Consumed prompts that a trim takes away while an answer may still show them queued. *)
Forgotten == IF Pending THEN (Prompts \cap DOMAIN win.rows) \ DOMAIN win'.rows ELSE {}

Synced(task) == task.at = "free" \/ (task.at = "draining" /\ sync.at = "idle")

ReconcileAsk(task) ==
  /\ Synced(task)
  /\ LET ids == DOMAIN Where(win.rows, Queued)
         asked == [task EXCEPT !.at = "asked", !.ids = ids]
     IN  recons' = (recons \ {task}) \cup (IF ids = {} THEN {} ELSE {asked})
  /\ UNCHANGED <<vars, hubRows, win, sync, base, trailing, older, ghosts, counters>>

ReconcileServe(task) ==
  /\ task.at = "asked"
  /\ LET known == Only(row, task.ids)
         answer == [task EXCEPT !.at = "answered", !.queued = DOMAIN Where(known, Queued),
                                !.invoked = Where(known, LAMBDA b : ~Queued(b))]
     IN  recons' = (recons \ {task}) \cup {answer}
  /\ UNCHANGED <<vars, hubRows, win, sync, base, trailing, older, ghosts, counters>>

(* Mutant: prompts the hub does not know are left as they are. *)
MutReconcileApply(task) ==
  /\ task.at = "answered"
  /\ LET changed == DOMAIN task.invoked \cap DOMAIN Where(win.rows, Queued)
     IN  /\ win' = [win EXCEPT !.rows =
                      [r \in DOMAIN @ |-> IF r \in changed THEN [@[r] EXCEPT !.invoked = task.invoked[r].invoked] ELSE @[r]]]
         /\ base' = base \ changed
  /\ recons' = recons \ {task}
  /\ doubtful' = IF Pending THEN doubtful ELSE doubtful \ (task.ids \ task.queued)
  /\ UNCHANGED <<vars, hubRows, sync, trailing, older, owed, jumped, counters>>

ReconcileApply(task) ==
  /\ task.at = "answered"
  /\ LET changed == DOMAIN task.invoked \cap DOMAIN Where(win.rows, Queued)
         now == [r \in DOMAIN win.rows |->
                    IF r \in changed THEN [win.rows[r] EXCEPT !.invoked = task.invoked[r].invoked] ELSE win.rows[r]]
         gone == {r \in task.ids \ task.queued : r \in DOMAIN now /\ Queued(now[r])}
     IN  /\ win' = [win EXCEPT !.rows = Only(now, DOMAIN now \ gone)]
         /\ base' = base \ (changed \cup gone)
  /\ recons' = recons \ {task}
  /\ doubtful' = IF Pending THEN doubtful ELSE doubtful \ (task.ids \ task.queued)
  /\ UNCHANGED <<vars, hubRows, sync, trailing, older, owed, jumped, counters>>

ReconcileFails(task) ==
  /\ task.at \in {"asked", "answered"}
  /\ recons' = recons \ {task}
  /\ Fail
  /\ UNCHANGED <<vars, hubRows, win, sync, base, trailing, older, ghosts>>

-----------------------------------------------------------------------------
(* The reader *)

Move == failures + moves < MaxTurns /\ moves' = moves + 1 /\ UNCHANGED <<drops, failures>>

ScrollBack ==
  /\ win.mode = "tail" /\ Move
  /\ win' = [win EXCEPT !.mode = "history"]
  /\ UNCHANGED <<vars, hubRows, sync, base, trailing, older, recons, ghosts>>

ReturnToTail ==
  /\ win.mode = "history" /\ Move
  /\ EnsureSync(EnterTail(win))
  /\ doubtful' = doubtful \cup Forgotten
  /\ UNCHANGED <<vars, hubRows, recons, owed, jumped>>

LoadOlder ==
  /\ sync.at = "idle" /\ older.at = "idle" /\ win.more /\ win.oldest # 0 /\ Move
  /\ older' = [at |-> "asked", page |-> <<>>, replace |-> FALSE, covers |-> FALSE,
               ask |-> [after |-> 0, until |-> 0, epoch |-> win.epoch, before |-> win.oldest]]
  /\ UNCHANGED <<vars, hubRows, win, sync, base, trailing, recons, ghosts>>

OlderServe ==
  /\ older.at = "asked"
  /\ older' = [older EXCEPT !.at = "answered", !.page = Page(older.ask)]
  /\ UNCHANGED <<vars, hubRows, win, sync, base, trailing, recons, ghosts, counters>>

OlderApply ==
  /\ older.at = "answered"
  /\ LET page == older.page
         merged == MergeIntoWindow(win, page.rows, "prepend", OlderLimit)
     IN  IF older.ask.epoch # NoEpoch /\ page.epoch # older.ask.epoch
         THEN EnsureSync([win EXCEPT !.epoch = NoEpoch, !.newest = 0, !.stale = TRUE])
         ELSE /\ win' = [merged EXCEPT !.more = page.more, !.epoch = page.epoch, !.oldest = page.before]
              /\ older' = Idle
              /\ base' = base \ DOMAIN page.rows
              /\ UNCHANGED <<sync, trailing>>
  /\ UNCHANGED <<vars, hubRows, recons, ghosts, counters>>

OlderFails ==
  /\ older.at # "idle"
  /\ older' = Idle /\ Fail
  /\ UNCHANGED <<vars, hubRows, win, sync, base, trailing, recons, ghosts>>

-----------------------------------------------------------------------------
(* The browser handles a frame *)

(* clearMessageWindow gives up the run and the load, and the tail is read anew. *)
Invalidate ==
  /\ StartSync(EmptyWindow)
  /\ trailing' = FALSE
  /\ owed' = TRUE /\ jumped' = FALSE /\ doubtful' = {}
  /\ recons' = {IF task.at = "draining" THEN [task EXCEPT !.at = "free"] ELSE task : task \in recons}

Show(event) ==
  CASE event.kind = "received" ->
         /\ win' = Ingest(win, event.rows)
         /\ base' = base \ DOMAIN event.rows
         /\ LET lost == sync.at # "idle" /\ ~((DOMAIN win.rows \ base) \cup DOMAIN event.rows \subseteq DOMAIN win'.rows)
            IN  /\ owed' = (owed \/ lost)
                /\ jumped' = (jumped \/ lost \/ (owed /\ ~sync.covers))
                /\ sync' = [sync EXCEPT !.covers = @ /\ ~lost]
         /\ doubtful' = doubtful \cup Forgotten
         /\ UNCHANGED <<trailing, older, recons>>
    [] event.kind = "consumed" ->
         /\ win' = MarkConsumed(win, event.row, event.at)
         /\ base' = base \ {event.row}
         /\ doubtful' = IF Pending /\ event.row \notin DOMAIN win.rows THEN doubtful \cup {event.row} ELSE doubtful
         /\ jumped' = (jumped \/ (owed /\ ~sync.covers))
         /\ UNCHANGED <<sync, trailing, older, recons, owed>>
    [] event.kind = "cancelled" ->
         /\ win' = Discard(win, {event.row})
         /\ doubtful' = IF Pending THEN doubtful \cup {event.row} ELSE doubtful
         /\ UNCHANGED <<sync, base, trailing, older, recons, owed, jumped>>
    [] event.kind = "invalidated" -> Invalidate

(* A gap was told: the tail is read by a run that begins after this one. *)
GapTold ==
  /\ IF sync.at = "idle"
     THEN StartSync(win) /\ UNCHANGED trailing
     ELSE /\ sync' = [sync EXCEPT !.covers = FALSE] /\ trailing' = TRUE
          /\ UNCHANGED <<win, base, older>>
  /\ recons' = recons \cup {Draining}
  /\ owed' = TRUE /\ UNCHANGED <<jumped, doubtful>>

Handle ==
  /\ HandleFrame
  /\ LET frame == Head(wire)
     IN CASE frame.verdict = "none" -> Show(frame.event)
          [] frame.verdict = "gap" -> GapTold
          [] frame.verdict = "ok" -> UNCHANGED window
  /\ UNCHANGED <<hubRows, counters>>

-----------------------------------------------------------------------------
(* The hub *)

NextRowSeq == Max({0} \cup {row[r].seq : r \in DOMAIN row}) + 1
With(r, body) == [q \in DOMAIN row \cup {r} |-> IF q = r THEN body ELSE row[q]]
Received(r, body) == [kind |-> "received", rows |-> [q \in {r} |-> body]]

(* addMessage: a row that lands before the newest one changes the epoch. *)
AddRow(r, at, invoked) ==
  LET body == [created |-> at, invoked |-> invoked, seq |-> NextRowSeq]
  IN  /\ row' = With(r, body) /\ used' = used \cup {r}
      /\ epoch' = IF DOMAIN row # {} /\ at < Max({At(row[q]) : q \in DOMAIN row}) THEN epoch + 1 ELSE epoch
      /\ Emit(Received(r, body))

Post(p) ==
  /\ p \notin used
  /\ clock' = clock + 1
  /\ AddRow(p, clock', 0)
  /\ UNCHANGED <<window, counters>>

(* The agent says when it wrote; that may be before rows the hub has. *)
Output(o) ==
  /\ o \notin used
  /\ clock' = clock + 1
  /\ \E at \in {clock', clock - 1} : at > 0 /\ AddRow(o, at, at)
  /\ UNCHANGED <<window, counters>>

Consume(p) ==
  /\ p \in DOMAIN row /\ Queued(row[p])
  /\ clock' = clock + 1
  /\ row' = [row EXCEPT ![p].invoked = clock']
  /\ UNCHANGED used
  /\ Emit([kind |-> "consumed", row |-> p, at |-> clock'])
  /\ UNCHANGED <<epoch, window, counters>>

Cancel(p) ==
  /\ p \in DOMAIN row /\ Queued(row[p])
  /\ row' = Only(row, DOMAIN row \ {p})
  /\ epoch' = epoch + 1
  /\ clock' = clock + 2 /\ UNCHANGED used
  /\ Emit([kind |-> "cancelled", row |-> p])
  /\ UNCHANGED <<window, counters>>

(* A rewind removes an invoked prompt and everything after it. *)
Rewind(p) ==
  /\ p \in DOMAIN row /\ ~Queued(row[p])
  /\ row' = Where(row, LAMBDA b : Pos(b) < Pos(row[p]))
  /\ epoch' = epoch + 1
  /\ clock' = clock + 2 /\ UNCHANGED used
  /\ Emit([kind |-> "invalidated"])
  /\ UNCHANGED <<window, counters>>

-----------------------------------------------------------------------------
ViewInit ==
  /\ Init
  /\ row = Nothing /\ used = {} /\ clock = 0 /\ epoch = 0
  /\ win = EmptyWindow
  /\ sync = [at |-> "asked", ask |-> Ask(EmptyWindow), page |-> <<>>, replace |-> FALSE, covers |-> TRUE]
  /\ owed = TRUE /\ jumped = FALSE /\ doubtful = {}
  /\ base = {} /\ trailing = FALSE /\ older = Idle /\ recons = {}
  /\ drops = 0 /\ failures = 0 /\ moves = 0

Transport(step) == step /\ UNCHANGED <<hubRows, window, counters>>

Break ==
  /\ drops < MaxDrops /\ drops' = drops + 1
  /\ Drop \/ Restart
  /\ UNCHANGED <<hubRows, window, failures, moves>>

ViewNext ==
  \/ \E p \in Prompts : Post(p) \/ Consume(p) \/ Cancel(p) \/ Rewind(p)
  \/ \E o \in Outputs : Output(o)
  \/ Transport(Subscribe) \/ Transport(WriteReplay) \/ Transport(DrainPending) \/ Break
  \/ Handle
  \/ SyncServe \/ SyncLatest \/ SyncForward \/ SyncFails
  \/ \E task \in recons :
       ReconcileAsk(task) \/ ReconcileServe(task) \/ ReconcileApply(task) \/ ReconcileFails(task)
  \/ ScrollBack \/ ReturnToTail \/ LoadOlder \/ OlderServe \/ OlderApply \/ OlderFails

ViewSpec == ViewInit /\ [][ViewNext]_viewVars
-----------------------------------------------------------------------------
(* Nothing is on its way: the stream is live and every answer is in. *)
Settled ==
  /\ connection.open /\ ~connection.queueing /\ wire = <<>>
  /\ sync.at = "idle" /\ older.at = "idle" /\ recons = {}

(* Once everything has arrived and nothing is owed, the window has every row *)
(* of the hub from its oldest position on, however pages and events crossed, *)
(* rows landed before ones already shown and the reader scrolled.  A prompt  *)
(* that was consumed stands elsewhere than where it was inserted: see the    *)
(* README on what the catch-up misses of those.                              *)
NoHole ==
  Settled /\ ~win.stale /\ ~owed /\ ~jumped =>
    \A r \in DOMAIN row :
      Pos(row[r]) >= win.oldest /\ (r \in Outputs \/ Queued(row[r])) => r \in DOMAIN win.rows

(* Once everything has arrived and no request failed, no prompt is shown as  *)
(* queued that the hub has consumed or cancelled, unless it left the window  *)
(* while a page was under way that may have been read before.                *)
NoGhost ==
  Settled /\ failures = 0 =>
    DOMAIN Where(win.rows, Queued) \ doubtful \subseteq DOMAIN Where(row, Queued)

(* A prompt shown as consumed never turns queued again while it is shown,    *)
(* whatever older page arrives late.                                         *)
ConsumedStays ==
  [][\A r \in DOMAIN win.rows \cap DOMAIN win'.rows :
       Queued(win'.rows[r]) => Queued(win.rows[r])]_viewVars
=============================================================================
