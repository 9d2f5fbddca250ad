--------------------------- MODULE MessageDelivery ---------------------------
(***************************************************************************)
(* A user's prompts to one session, from the hub's messages table to the   *)
(* agent: the hub's durable rows and its three ways of emitting them (on   *)
(* send, on every keepalive, on the 5-second scan of scheduled rows), the  *)
(* socket that loses whatever is in flight when it drops, the CLI's        *)
(* incoming filter, prompt queue and reconnect backfill, the CLI's         *)
(* acknowledgement, the user's cancellation with its ack and its timeout,  *)
(* and restarts of the CLI and of the hub.                                 *)
(*                                                                         *)
(* One session, one CLI socket in its room at a time, prompts with a       *)
(* localId only, no OpenCode clear in progress.                            *)
(***************************************************************************)
EXTENDS Naturals, Sequences, FiniteSets, SequencesExt

CONSTANTS
  Msgs,        \* prompts, named by their localId (the row id follows it)
  Scheduled,   \* those posted with a scheduledAt
  ModeOf,      \* the CLI's modeHash of each prompt
  FilterCap,   \* capacity of IncomingMessageFilter (256 in the code)
  PageLimit,   \* rows per backfill page (200 in the code)
  Limit,       \* bound: how often each of Faults may happen
  Kinds        \* bound: how many of Faults one behaviour may see

Faults == {"drop", "life", "crash", "cancel", "repost", "abort"}

ASSUME MsgsAssumption  == IsFiniteSet(Msgs) /\ Scheduled \subseteq Msgs
ASSUME SizesAssumption == FilterCap \in Nat \ {0} /\ PageLimit \in Nat \ {0}
ASSUME LimitAssumption == Limit \in [Faults -> Nat] /\ Kinds \in Nat

VARIABLES
  \* hub, durable
  row,         \* state of each prompt's row
  seq,         \* its seq column, 0 before it is inserted
  by,          \* who stamped invoked_at
  \* hub, in memory
  cancelling,  \* DELETE requests waiting for the CLI's ack
  notified,    \* scheduledMatureNotifiedLocalIds
  due,         \* scheduled prompts whose time has come (the clock)
  outcome,     \* what the last DELETE of each prompt answered
  \* network
  connected, down, up,
  \* CLI process
  cli, connectedOnce, seen, cursor, queue, fetch, page,
  \* history
  done,        \* consumed by the agent in this CLI process
  ran,         \* consumed by the agent of any CLI process
  spent        \* how often each of Faults has happened

hubVars  == <<row, seq, by, cancelling, notified, due, outcome>>
netVars  == <<connected, down, up>>
cliVars  == <<cli, connectedOnce, seen, cursor, queue, fetch, page>>
histVars == <<done, ran, spent>>
vars     == <<hubVars, netVars, cliVars, histVars>>

Packet   == [t : {"new", "cancel"}, m : Msgs]
Reply    == [t : {"alive", "consumed", "ack", "end"}, ids : SUBSET Msgs, removed : BOOLEAN]
Fetch    == [st : {"idle", "asked", "answered", "draining"}, after : Nat, full : BOOLEAN]
Outcomes == {"none", "sent", "acked", "offline", "future"}

New(m)    == [t |-> "new", m |-> m]
Cancel(m) == [t |-> "cancel", m |-> m]
Alive     == [t |-> "alive", ids |-> {}, removed |-> FALSE]
Consumed(S)  == [t |-> "consumed", ids |-> S, removed |-> FALSE]
CancelAck(m, r) == [t |-> "ack", ids |-> {m}, removed |-> r]
End       == [t |-> "end", ids |-> {}, removed |-> FALSE]

NoFetch == [st |-> "idle", after |-> 0, full |-> FALSE]

Spend(f) == /\ spent[f] < Limit[f]
            /\ Cardinality({g \in Faults \ {f} : spent[g] > 0}) < Kinds
            /\ spent' = [spent EXCEPT ![f] = @ + 1]

(* scheduledAt is set and still in the future *)
Future(m) == m \in Scheduled \ due

Existing == {m \in Msgs : row[m] \in {"queued", "invoked"}}
Queued   == {m \in Msgs : row[m] = "queued"}

(* the orders in which "ORDER BY seq ASC" may return the rows of S: one *)
InSeqOrder(S) ==
  {s \in SetToSeqs(S) : \A i, j \in DOMAIN s : i < j => seq[s[i]] < seq[s[j]]}

(* io.of('/cli').to(room).emit: lost when no socket is in the room *)
Emit(packets) == down' = IF connected THEN down \o packets ELSE down

EmitNew(s) == Emit([i \in DOMAIN s |-> New(s[i])])

(* bound: the hub's timers do not emit a prompt again while it is in flight *)
InFlight(S) == \E i \in DOMAIN down : down[i].t = "new" /\ down[i].m \in S

(* mutant: the stamp is written again, over the first one *)
MutRestamp(S, who) ==
  /\ row' = [m \in Msgs |-> IF m \in S \cap Existing THEN "invoked" ELSE row[m]]
  /\ by'  = [m \in Msgs |-> IF m \in S \cap Existing THEN who ELSE by[m]]

(* markMessagesInvoked: first write wins *)
MarkInvoked(S, who) ==
  /\ row' = [m \in Msgs |-> IF m \in S \cap Queued THEN "invoked" ELSE row[m]]
  /\ by'  = [m \in Msgs |-> IF m \in S \cap Queued THEN who ELSE by[m]]

(* mutant: the delete does not look at invoked_at *)
MutDelete(m) == row' = [row EXCEPT ![m] = "deleted"]

(* deleteQueuedMessageById: only a row that is still queued *)
DeleteQueued(m) ==
  row' = IF row[m] = "queued" THEN [row EXCEPT ![m] = "deleted"] ELSE row

-----------------------------------------------------------------------------
(* The hub *)

(* sendMessage of a new localId: seq = MAX(seq) + 1 over the rows that are left *)
Post(m) ==
  /\ row[m] = "absent"
  /\ \E n \in 1..Cardinality(Msgs) :
       /\ \A x \in Existing : seq[x] < n
       /\ n = 1 \/ \E x \in Existing : seq[x] = n - 1
       /\ seq' = [seq EXCEPT ![m] = n]
  /\ row' = [row EXCEPT ![m] = "queued"]
  /\ Emit(IF Future(m) THEN <<>> ELSE <<New(m)>>)
  /\ UNCHANGED <<by, cancelling, notified, due, outcome, connected, up, cliVars, histVars>>

(* sendMessage again with a localId that has a row: the same row is emitted again *)
Repost(m) ==
  /\ m \in Existing
  /\ Spend("repost")
  /\ Emit(IF Future(m) THEN <<>> ELSE <<New(m)>>)
  /\ UNCHANGED <<hubVars, connected, up, cliVars, done, ran>>

(* the clock passes a scheduledAt *)
Mature(m) ==
  /\ m \in Scheduled \ due
  /\ due' = due \cup {m}
  /\ UNCHANGED <<row, seq, by, cancelling, notified, outcome, netVars, cliVars, histVars>>

(* releaseMatureScheduledMessages, every 5 seconds; two rows that mature   *)
(* together come in either order                                           *)
Tick ==
  LET mature == Queued \cap Scheduled \cap due IN
  /\ mature # {} /\ ~InFlight(mature)
  /\ \E s \in SetToSeqs(mature) : EmitNew(s)
  /\ notified' = notified \cup mature
  /\ UNCHANGED <<row, seq, by, cancelling, due, outcome, connected, up, cliVars, histVars>>

Receives(t) == connected /\ up # <<>> /\ Head(up).t = t /\ up' = Tail(up)

(* mutant: the replay takes the scheduled rows too *)
MutReplayAll ==
  /\ Receives("alive")
  /\ \E s \in InSeqOrder(Queued) : EmitNew(s)
  /\ UNCHANGED <<hubVars, connected, cliVars, histVars>>

(* mutant: a keepalive replays nothing *)
MutNoReplay ==
  /\ Receives("alive")
  /\ UNCHANGED <<hubVars, connected, down, cliVars, histVars>>

(* session-alive: replayImmediateQueuedMessages *)
HubAlive ==
  /\ Receives("alive")
  /\ \E s \in InSeqOrder(Queued \ Scheduled) : EmitNew(s)
  /\ UNCHANGED <<hubVars, connected, cliVars, histVars>>

(* messages-consumed: recordMessagesConsumed *)
HubConsumed ==
  /\ Receives("consumed")
  /\ MarkInvoked(Head(up).ids, "cli")
  /\ UNCHANGED <<seq, cancelling, notified, due, outcome, connected, down, cliVars, histVars>>

(* session-end: sweepImmediateQueuedOnSessionEnd leaves every scheduled row *)
HubEnd ==
  /\ Receives("end")
  /\ MarkInvoked(Queued \ Scheduled, "sweep")
  /\ notified' = notified \ (Queued \ Scheduled)
  /\ UNCHANGED <<seq, cancelling, due, outcome, connected, down, cliVars, histVars>>

(* cancelQueuedMessage up to its await *)
CancelRequest(m) ==
  /\ m \in Existing \ cancelling
  /\ Spend("cancel")
  /\ \/ /\ row[m] = "invoked"
        /\ outcome' = [outcome EXCEPT ![m] = "sent"]
        /\ UNCHANGED <<row, cancelling, notified, down>>
     \/ /\ row[m] = "queued" /\ (Future(m) \/ ~connected)
        /\ DeleteQueued(m)
        /\ notified' = notified \ {m}
        /\ outcome' = [outcome EXCEPT ![m] = IF Future(m) THEN "future" ELSE "offline"]
        /\ UNCHANGED <<cancelling, down>>
     \/ /\ row[m] = "queued" /\ ~Future(m) /\ connected
        /\ cancelling' = cancelling \cup {m}
        /\ Emit(<<Cancel(m)>>)
        /\ UNCHANGED <<row, notified, outcome>>
  /\ UNCHANGED <<seq, by, due, connected, up, cliVars, done, ran>>

(* the CLI did not remove it, or did not answer in time: stamped as sent *)
SettleUnremoved(m) ==
  /\ MarkInvoked({m}, "cancel")
  /\ cancelling' = cancelling \ {m}
  /\ notified' = notified \ {m}
  /\ outcome' = [outcome EXCEPT ![m] = IF row[m] = "deleted" THEN @ ELSE "sent"]

(* 500 ms pass without the ack *)
CancelTimeout(m) ==
  /\ m \in cancelling
  /\ SettleUnremoved(m)
  /\ UNCHANGED <<seq, due, netVars, cliVars, histVars>>

(* the CLI's ack, dropped when the request has timed out already *)
HubAck ==
  /\ Receives("ack")
  /\ \E m \in Head(up).ids :
       \/ /\ m \in cancelling /\ Head(up).removed
          /\ DeleteQueued(m)
          /\ cancelling' = cancelling \ {m}
          /\ notified' = notified \ {m}
          /\ outcome' = [outcome EXCEPT ![m] = "acked"]
          /\ UNCHANGED by
       \/ /\ m \in cancelling /\ ~Head(up).removed
          /\ SettleUnremoved(m)
       \/ /\ m \notin cancelling
          /\ UNCHANGED <<row, by, cancelling, notified, outcome>>
  /\ UNCHANGED <<seq, due, connected, down, cliVars, histVars>>

(* GET /cli/sessions/:id/messages: getDeliverableMessagesAfter, invoked rows included *)
BackfillServe ==
  /\ fetch.st = "asked"
  /\ \E s \in InSeqOrder({m \in Existing : seq[m] > fetch.after /\ ~Future(m)}) :
       LET n == IF Len(s) > PageLimit THEN PageLimit ELSE Len(s) IN
       /\ page' = SubSeq(s, 1, n)
       /\ fetch' = [fetch EXCEPT !.st = "answered", !.full = (n = PageLimit)]
  /\ UNCHANGED <<hubVars, netVars, cli, connectedOnce, seen, cursor, queue, histVars>>

(* the hub process restarts: sockets drop, requests die, in-memory sets are   *)
(* empty; what a CLI without a socket had buffered waits for the next connect *)
HubCrash ==
  /\ Spend("crash")
  /\ cancelling' = {} /\ notified' = {}
  /\ connected' = FALSE /\ down' = <<>> /\ up' = IF connected THEN <<>> ELSE up
  /\ UNCHANGED <<row, seq, by, due, outcome, cliVars, done, ran>>

-----------------------------------------------------------------------------
(* The CLI *)

(* JavaScript runs one handler at a time: nothing else runs while a page is handled *)
CliIdle == fetch.st # "draining"

(* socket.emit: buffered while disconnected, sent first on reconnect *)
Send(reply) == up' = Append(up, reply)

(* mutant: eviction sets in one id too early *)
MutEarlyEviction(m) ==
  \/ /\ m \notin ToSet(seen)
     /\ seen'   = IF Len(seen) = FilterCap - 1 THEN Tail(Append(seen, m)) ELSE Append(seen, m)
     /\ cursor' = IF seq[m] > cursor THEN seq[m] ELSE cursor
     /\ queue'  = Append(queue, m)
  \/ /\ \E i \in DOMAIN seen : seen[i] = m /\ seen' = Append(RemoveAt(seen, i), m)
     /\ UNCHANGED <<cursor, queue>>

(* IncomingMessageFilter.accept, and the queue push of what it lets through *)
Accept(m) ==
  \/ /\ m \notin ToSet(seen)
     /\ seen'   = IF Len(seen) = FilterCap THEN Tail(Append(seen, m)) ELSE Append(seen, m)
     /\ cursor' = IF seq[m] > cursor THEN seq[m] ELSE cursor
     /\ queue'  = Append(queue, m)
  \/ /\ \E i \in DOMAIN seen : seen[i] = m /\ seen' = Append(RemoveAt(seen, i), m)
     /\ UNCHANGED <<cursor, queue>>

(* a CLI process for the session starts: spawned, or resumed *)
Start ==
  /\ cli = "off"
  /\ cli' = "on"
  /\ connectedOnce' = FALSE /\ seen' = <<>> /\ cursor' = 0
  /\ queue' = <<>> /\ fetch' = NoFetch /\ page' = <<>> /\ done' = {}
  /\ UNCHANGED <<hubVars, netVars, ran, spent>>

(* the socket connects: it joins the room; a backfill starts unless one is  *)
(* in flight or nothing was ever seen; session-alive follows                *)
Connect ==
  /\ cli # "off" /\ ~connected /\ CliIdle
  /\ connected' = TRUE
  /\ connectedOnce' = TRUE
  /\ fetch' = IF connectedOnce /\ cursor # 0 /\ fetch.st = "idle"
              THEN [NoFetch EXCEPT !.st = "asked", !.after = cursor]
              ELSE fetch
  /\ Send(Alive)
  /\ UNCHANGED <<hubVars, down, cli, seen, cursor, queue, page, histVars>>

(* keepAlive every 2 seconds, volatile; bound: one keepalive, one replay in flight *)
KeepAlive ==
  /\ cli = "on" /\ connected /\ CliIdle
  /\ \A i \in DOMAIN up : up[i].t # "alive"
  /\ ~InFlight(Queued \ Scheduled)
  /\ Send(Alive)
  /\ UNCHANGED <<hubVars, connected, down, cliVars, histVars>>

Arrives(t) == down # <<>> /\ CliIdle /\ Head(down).t = t /\ down' = Tail(down)

(* mutant: a prompt is acknowledged when it is queued *)
MutAckOnReceipt ==
  /\ Arrives("new")
  /\ Accept(Head(down).m)
  /\ Send(Consumed({Head(down).m}))
  /\ UNCHANGED <<hubVars, connected, cli, connectedOnce, fetch, page, histVars>>

(* 'update' with a new-message body *)
CliNew ==
  /\ Arrives("new")
  /\ Accept(Head(down).m)
  /\ UNCHANGED <<hubVars, connected, up, cli, connectedOnce, fetch, page, histVars>>

(* mutant: the removal is confirmed but the prompt stays in the queue *)
MutCancelKeeps ==
  /\ Arrives("cancel")
  /\ Send(CancelAck(Head(down).m, Head(down).m \in ToSet(queue)))
  /\ UNCHANGED <<hubVars, connected, cli, connectedOnce, seen, cursor, queue, fetch, page, histVars>>

(* 'update' with a cancel-queued-message body: cancelByLocalId, then the ack *)
CliCancel ==
  /\ Arrives("cancel")
  /\ LET m == Head(down).m IN
     \/ \E i \in DOMAIN queue :
          /\ queue[i] = m /\ \A j \in 1..(i - 1) : queue[j] # m
          /\ queue' = RemoveAt(queue, i)
          /\ Send(CancelAck(m, TRUE))
     \/ /\ m \notin ToSet(queue)
        /\ Send(CancelAck(m, FALSE))
        /\ UNCHANGED queue
  /\ UNCHANGED <<hubVars, connected, cli, connectedOnce, seen, cursor, fetch, page, histVars>>

(* waitForMessagesAndGetAsString: the run of same-mode prompts at the head of *)
(* the queue becomes one agent turn and is acknowledged                       *)
AgentTakes ==
  /\ cli = "on" /\ CliIdle
  /\ \E n \in DOMAIN queue :
       /\ \A i \in 1..n : ModeOf[queue[i]] = ModeOf[queue[1]]
       /\ n < Len(queue) => ModeOf[queue[n + 1]] # ModeOf[queue[1]]
       /\ LET batch == {queue[i] : i \in 1..n} IN
          /\ done' = done \cup batch
          /\ ran'  = ran \cup batch
          /\ Send(Consumed(batch))
       /\ queue' = SubSeq(queue, n + 1, Len(queue))
  /\ UNCHANGED <<hubVars, connected, down, cli, connectedOnce, seen, cursor, fetch, page, spent>>

(* the user aborts the turn: queue.reset() drops what waits, unacknowledged *)
AgentAbort ==
  /\ cli = "on" /\ CliIdle /\ queue # <<>>
  /\ Spend("abort")
  /\ queue' = <<>>
  /\ UNCHANGED <<hubVars, netVars, cli, connectedOnce, seen, cursor, fetch, page, done, ran>>

(* the page arrives; its rows go through the filter one by one, in one turn *)
BackfillArrives ==
  /\ fetch.st = "answered"
  /\ fetch' = [fetch EXCEPT !.st = "draining"]
  /\ UNCHANGED <<hubVars, netVars, cli, connectedOnce, seen, cursor, queue, page, histVars>>

BackfillRow ==
  /\ fetch.st = "draining" /\ page # <<>>
  /\ Accept(Head(page))
  /\ page' = Tail(page)
  /\ UNCHANGED <<hubVars, netVars, cli, connectedOnce, fetch, histVars>>

(* a full page asks for the next one, from the newest seq seen meanwhile *)
BackfillTurn ==
  /\ fetch.st = "draining" /\ page = <<>>
  /\ fetch' = IF fetch.full /\ cursor > fetch.after
              THEN [NoFetch EXCEPT !.st = "asked", !.after = cursor]
              ELSE NoFetch
  /\ UNCHANGED <<hubVars, netVars, cli, connectedOnce, seen, cursor, queue, page, histVars>>

(* the request fails or times out: nothing retries it before the next connect *)
BackfillFail ==
  /\ fetch.st \in {"asked", "answered"}
  /\ Spend("drop")
  /\ fetch' = NoFetch /\ page' = <<>>
  /\ UNCHANGED <<hubVars, netVars, cli, connectedOnce, seen, cursor, queue, done, ran>>

(* the socket drops: both directions lose what is in flight *)
Drop ==
  /\ connected /\ Spend("drop")
  /\ connected' = FALSE /\ down' = <<>> /\ up' = <<>>
  /\ UNCHANGED <<hubVars, cliVars, done, ran>>

(* sendSessionDeath: the agent takes no more, the socket is still served *)
SessionEnds ==
  /\ cli = "on" /\ CliIdle
  /\ Spend("life")
  /\ cli' = "ended"
  /\ Send(End)
  /\ UNCHANGED <<hubVars, connected, down, connectedOnce, seen, cursor, queue, fetch, page, done, ran>>

Gone ==
  /\ cli' = "off"
  /\ connected' = FALSE /\ down' = <<>> /\ up' = <<>>
  /\ queue' = <<>> /\ fetch' = NoFetch /\ page' = <<>>
  /\ UNCHANGED <<hubVars, connectedOnce, seen, cursor, done, ran>>

(* close(): the process exits after session-end, flushed or not *)
Close == cli = "ended" /\ Gone /\ UNCHANGED spent

(* the process dies without a word *)
CliCrash == cli # "off" /\ Spend("life") /\ Gone

-----------------------------------------------------------------------------
Init ==
  /\ row = [m \in Msgs |-> "absent"] /\ seq = [m \in Msgs |-> 0]
  /\ by = [m \in Msgs |-> "nobody"] /\ outcome = [m \in Msgs |-> "none"]
  /\ cancelling = {} /\ notified = {} /\ due = {}
  /\ connected = FALSE /\ down = <<>> /\ up = <<>>
  /\ cli = "off" /\ connectedOnce = FALSE /\ seen = <<>> /\ cursor = 0
  /\ queue = <<>> /\ fetch = NoFetch /\ page = <<>>
  /\ done = {} /\ ran = {} /\ spent = [f \in Faults |-> 0]

Hub == \/ \E m \in Msgs : Post(m) \/ Repost(m) \/ CancelRequest(m) \/ CancelTimeout(m) \/ Mature(m)
       \/ Tick \/ HubAlive \/ HubConsumed \/ HubEnd \/ HubAck \/ BackfillServe \/ HubCrash

Cli == \/ Start \/ Connect \/ KeepAlive \/ CliNew \/ CliCancel \/ AgentTakes \/ AgentAbort
       \/ BackfillArrives \/ BackfillRow \/ BackfillTurn \/ BackfillFail
       \/ Drop \/ SessionEnds \/ Close \/ CliCrash

Next == Hub \/ Cli

Spec == Init /\ [][Next]_vars

(* What the timers and event loops of both processes guarantee.  Start is the *)
(* one assumption on the user: a session that ended is eventually resumed.    *)
Fairness ==
  /\ WF_vars(Tick) /\ WF_vars(HubAlive) /\ WF_vars(HubConsumed) /\ WF_vars(HubEnd)
  /\ WF_vars(HubAck) /\ WF_vars(BackfillServe)
  /\ \A m \in Msgs : WF_vars(CancelTimeout(m)) /\ WF_vars(Mature(m))
  /\ WF_vars(Start) /\ WF_vars(Connect) /\ WF_vars(KeepAlive) /\ WF_vars(CliNew)
  /\ WF_vars(CliCancel) /\ WF_vars(AgentTakes) /\ WF_vars(BackfillArrives)
  /\ WF_vars(BackfillRow) /\ WF_vars(BackfillTurn) /\ WF_vars(Close)

FairSpec == Spec /\ Fairness
-----------------------------------------------------------------------------
(* The types, and what the columns of one row say together. *)
TypeOK ==
  /\ \A m \in Msgs : by[m] # "nobody" <=> row[m] = "invoked"
  /\ row \in [Msgs -> {"absent", "queued", "invoked", "deleted"}]
  /\ seq \in [Msgs -> Nat]
  /\ by \in [Msgs -> {"nobody", "cli", "sweep", "cancel"}]
  /\ outcome \in [Msgs -> Outcomes]
  /\ cancelling \subseteq Msgs /\ notified \subseteq Scheduled /\ due \subseteq Scheduled
  /\ connected \in BOOLEAN /\ down \in Seq(Packet) /\ up \in Seq(Reply)
  /\ cli \in {"off", "on", "ended"} /\ connectedOnce \in BOOLEAN
  /\ seen \in Seq(Msgs) /\ cursor \in Nat /\ queue \in Seq(Msgs)
  /\ fetch \in Fetch /\ page \in Seq(Msgs)
  /\ done \subseteq Msgs /\ ran \subseteq Msgs
  /\ spent \in [Faults -> Nat]

(* A prompt scheduled for later reaches neither the socket, nor a backfill   *)
(* page, nor the CLI's queue, nor the agent before its time, whichever of    *)
(* send, retry, replay, scan, reconnect or restart comes in between.         *)
NothingEarly ==
  \A m \in Msgs : Future(m) =>
    m \notin ToSet(queue) \cup ToSet(page) \cup ran \cup {down[i].m : i \in DOMAIN down}

(* The filter's promise: in one CLI process a prompt is queued or consumed    *)
(* at most once, however often the hub emits it, as long as the filter can    *)
(* hold the prompts there are.                                                *)
NoRepeat ==
  /\ \A i, j \in DOMAIN queue : queue[i] = queue[j] => i = j
  /\ ToSet(queue) \cap done = {}

(* invoked_at written for the CLI's acknowledgement is never ahead of the    *)
(* agent: not even for an ack that waited out a disconnect, or two restarts. *)
AckedWasRun == \A m \in Msgs : by[m] = "cli" => m \in ran

(* A cancel that deleted the row because the CLI confirmed the removal, or     *)
(* because the prompt was still scheduled, keeps it away from the agent, in    *)
(* that CLI process and in every later one, as long as the filter can hold the *)
(* prompts there are.                                                          *)
ConfirmedCancelStands ==
  [][\A m \in Msgs : row[m] = "deleted" /\ outcome[m] # "offline" => (m \in done' => m \in done)]_vars

(* first-write-wins and the rest of PromptLedger's promise *)
Ledger == INSTANCE PromptLedger WITH status <- row
LedgerSpec == Ledger!Spec

(* A queued immediate prompt reaches the agent or leaves the queue, whatever  *)
(* the socket loses and however often the CLI process is replaced. A scheduled *)
(* prompt is never settled behind the user's back: it reaches the agent, or    *)
(* the user cancelled it, even when the session ends in between.              *)
PromptsReachAgent ==
  /\ \A m \in Msgs \ Scheduled : row[m] = "queued" ~> (m \in ran \/ row[m] # "queued")
  /\ \A m \in Scheduled :
       row[m] = "queued" ~> (m \in ran \/ row[m] = "deleted" \/ by[m] = "cancel")
=============================================================================
