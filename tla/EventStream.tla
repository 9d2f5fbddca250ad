---------------------------- MODULE EventStream ----------------------------
(***************************************************************************)
(* The stream of server-sent events of one browser: the hub's SSEManager   *)
(* (hub/src/sse/sseManager.ts), the route that writes the stream           *)
(* (hub/src/web/routes/events.ts) and the hook that reads it               *)
(* (web/src/hooks/useSSE.ts).                                              *)
(*                                                                         *)
(* The hub numbers every event and keeps the last ones in a ring.  A       *)
(* browser that reconnects says which one it handled last; the hub answers *)
(* whether the ring still has everything after it, writes what it has, and *)
(* only then what was broadcast in the meantime.  The bytes of the stream  *)
(* arrive in order; what is on its way when the connection breaks is lost. *)
(***************************************************************************)
EXTENDS Naturals, Sequences, FiniteSets

CONSTANTS
  Events,     \* what may be broadcast to this subscription
  Capacity,   \* EVENT_BUFFER_CAPACITY
  Elsewhere,  \* an event that shouldSend keeps from this subscription
  Silence,    \* no event: the frame carries a verdict
  MaxEvents,  \* bound: events of one hub process
  MaxBoots    \* bound: hub processes

ASSUME CapacityAssumption == Capacity \in Nat \ {0}
ASSUME BoundsAssumption == MaxEvents \in Nat /\ MaxBoots \in Nat \ {0}

VARIABLES
  boot,         \* the epoch of the hub process, part of every event id
  nextSeq,
  eventBuffer,  \* entries [seq, event], oldest first
  connection,   \* the connection of this browser in SSEManager
  wire,         \* frames on their way
  cursor,       \* lastEventCursorRef of the browser: [boot, seq]
  sent,         \* events of this subscription that were broadcast so far
  position,     \* the number of the last of them that the browser has behind it
  told          \* flips when the browser reads a gap verdict

stream == <<boot, nextSeq, eventBuffer, connection, wire, cursor>>
progress == <<sent, position, told>>
vars == <<stream, progress>>

Closed == [open |-> FALSE, replay |-> <<>>, queueing |-> FALSE, pending |-> <<>>]
NoCursor == [boot |-> 0, seq |-> 0]

ShouldSend(event) == event # Elsewhere

(* number counts the events of the subscription; the code has no such field. *)
Frame(entry) == [verdict |-> "none", event |-> entry.event, seq |-> entry.seq, number |-> entry.number]
Verdict(resume, upTo) == [verdict |-> resume, event |-> Silence, seq |-> 0, number |-> upTo]

Init ==
  /\ boot = 1 /\ nextSeq = 1 /\ eventBuffer = <<>>
  /\ connection = Closed /\ wire = <<>>
  /\ cursor = NoCursor
  /\ sent = 0 /\ position = 0 /\ told = FALSE

-----------------------------------------------------------------------------
(* The hub *)

(* Mutant: the ring is trimmed one entry too late. *)
MutRemember(entry) ==
  LET longer == Append(eventBuffer, entry)
  IN  IF Len(longer) > Capacity + 1 THEN Tail(longer) ELSE longer

Remember(entry) ==
  LET longer == Append(eventBuffer, entry)
  IN  IF Len(longer) > Capacity THEN Tail(longer) ELSE longer

(* What SSEManager.broadcast does with an event.  A connection that is still *)
(* writing its replay keeps the event for later.                             *)
Broadcast(event) ==
  LET mine == ShouldSend(event)
      entry == [seq |-> nextSeq, event |-> event, number |-> IF mine THEN sent + 1 ELSE 0]
  IN /\ eventBuffer' = Remember(entry)
     /\ nextSeq' = nextSeq + 1
     /\ sent' = IF mine THEN sent + 1 ELSE sent
     /\ connection' = IF mine /\ connection.open /\ connection.queueing
                      THEN [connection EXCEPT !.pending = Append(@, entry)] ELSE connection
     /\ wire' = IF mine /\ connection.open /\ ~connection.queueing
                THEN Append(wire, Frame(entry)) ELSE wire
     /\ UNCHANGED <<boot, cursor, position, told>>

OldestBuffered == IF eventBuffer = <<>> THEN nextSeq ELSE Head(eventBuffer).seq

(* Mutant: off by one, the ring may have lost the first event after the cursor. *)
MutResumable(from) == from.boot = boot /\ from.seq \in 1 .. (nextSeq - 1) /\ from.seq >= OldestBuffered - 2

Resumable(from) ==
  /\ from.boot = boot
  /\ from.seq \in 1 .. (nextSeq - 1)
  /\ from.seq >= OldestBuffered - 1

(* What the ring has for this subscription after a cursor, oldest first. *)
After(from) == {i \in DOMAIN eventBuffer : eventBuffer[i].seq > from.seq /\ ShouldSend(eventBuffer[i].event)}

Missed(from) ==
  LET Place(i) == Cardinality({j \in After(from) : j <= i})
  IN  [n \in 1 .. Cardinality(After(from)) |-> eventBuffer[CHOOSE i \in After(from) : Place(i) = n]]

(* The browser connects with its cursor; the route writes the verdict at once. *)
Subscribe ==
  /\ ~connection.open
  /\ LET resume == IF Resumable(cursor) THEN "ok" ELSE "gap"
         replay == IF Resumable(cursor) THEN Missed(cursor) ELSE <<>>
     IN /\ connection' = [open |-> TRUE, replay |-> replay, queueing |-> replay # <<>>, pending |-> <<>>]
        /\ wire' = <<Verdict(resume, sent)>>
  /\ UNCHANGED <<boot, nextSeq, eventBuffer, cursor, progress>>

(* The route writes the replay event by event, awaiting each ... *)
WriteReplay ==
  /\ connection.replay # <<>>
  /\ wire' = Append(wire, Frame(Head(connection.replay)))
  /\ connection' = [connection EXCEPT !.replay = Tail(@)]
  /\ UNCHANGED <<boot, nextSeq, eventBuffer, cursor, progress>>

(* Mutant: the connection goes live without a look at what was queued. *)
MutDrainPending ==
  /\ connection.queueing /\ connection.replay = <<>>
  /\ connection' = [connection EXCEPT !.queueing = FALSE, !.pending = <<>>]
  /\ UNCHANGED <<boot, nextSeq, eventBuffer, wire, cursor, progress>>

(* ... and drainPending takes what was queued meanwhile as the next batch, *)
(* until there is nothing left and events go out directly.                 *)
DrainPending ==
  /\ connection.queueing /\ connection.replay = <<>>
  /\ connection' = IF connection.pending = <<>>
                   THEN [connection EXCEPT !.queueing = FALSE]
                   ELSE [connection EXCEPT !.replay = connection.pending, !.pending = <<>>]
  /\ UNCHANGED <<boot, nextSeq, eventBuffer, wire, cursor, progress>>

-----------------------------------------------------------------------------
(* The browser *)

Arrived == wire # <<>>

(* handleMessage: the cursor follows only after the event was handled. *)
HandleFrame ==
  /\ Arrived
  /\ wire' = Tail(wire)
  /\ LET frame == Head(wire)
     IN CASE frame.verdict = "none" ->
               /\ cursor' = [boot |-> boot, seq |-> frame.seq]
               /\ position' = frame.number
               /\ UNCHANGED told
          [] frame.verdict = "gap" ->
               /\ told' = ~told
               /\ position' = frame.number
               /\ UNCHANGED cursor
          [] frame.verdict = "ok" -> UNCHANGED <<cursor, position, told>>
  /\ UNCHANGED <<boot, nextSeq, eventBuffer, connection, sent>>

(* The connection breaks, or the watchdog gives it up. *)
Drop ==
  /\ connection.open
  /\ connection' = Closed /\ wire' = <<>>
  /\ UNCHANGED <<boot, nextSeq, eventBuffer, cursor, progress>>

HubRestart ==
  /\ boot' = boot + 1
  /\ nextSeq' = 1 /\ eventBuffer' = <<>>
  /\ connection' = Closed /\ wire' = <<>>
  /\ UNCHANGED <<cursor, progress>>

-----------------------------------------------------------------------------
Emit(event) == nextSeq <= MaxEvents /\ Broadcast(event)
Restart == boot < MaxBoots /\ HubRestart

Next ==
  \/ \E event \in Events \cup {Elsewhere} : Emit(event)
  \/ Subscribe \/ WriteReplay \/ DrainPending
  \/ HandleFrame \/ Drop \/ Restart

(* The browser reconnects and reads, the route writes; nothing says that the *)
(* connection breaks only so often.                                          *)
Fairness ==
  /\ WF_vars(Subscribe) /\ WF_vars(WriteReplay) /\ WF_vars(DrainPending)
  /\ SF_vars(HandleFrame)

Spec == Init /\ [][Next]_vars /\ Fairness
-----------------------------------------------------------------------------
Entry == [seq : 1 .. MaxEvents, event : Events \cup {Elsewhere}, number : Nat]

TypeOK ==
  /\ boot \in 1 .. MaxBoots /\ nextSeq \in 1 .. (MaxEvents + 1)
  /\ eventBuffer \in Seq(Entry) /\ Len(eventBuffer) <= Capacity
  /\ connection \in [open : BOOLEAN, replay : Seq(Entry), queueing : BOOLEAN, pending : Seq(Entry)]
  /\ wire \in Seq([verdict : {"ok", "gap", "none"}, event : Events \cup {Silence},
                   seq : 0 .. MaxEvents, number : Nat])
  /\ cursor \in [boot : 0 .. MaxBoots, seq : 0 .. MaxEvents]
  /\ sent \in Nat /\ position \in 0 .. sent /\ told \in BOOLEAN

(* The stream keeps the promise of EventFeed: no event is handled before an  *)
(* earlier one or twice, and none is left out without a gap verdict, however *)
(* broadcasts fall between the replay, its drain and the live traffic, and   *)
(* whatever the ring has evicted.                                            *)
Feed == INSTANCE EventFeed WITH broadcasts <- sent
IsAFeed == Feed!Spec

(* A connection that lasts brings the browser up to date: what was broadcast *)
(* is handled, or lies behind a gap that was told.                           *)
CatchesUp == <>[]connection.open => []<>(position = sent)
=============================================================================
