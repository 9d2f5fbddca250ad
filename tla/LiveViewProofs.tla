--------------------------- MODULE LiveViewProofs ---------------------------
(***************************************************************************)
(* Proofs about EventStream, for every ring and every number of events,    *)
(* hub processes and breaks, and about LiveView, which extends it.         *)
(*                                                                         *)
(* What is said of the stream does not depend on what its events are: E is *)
(* the set of them, Events in EventStream and the changes of the rows in   *)
(* LiveView.                                                               *)
(***************************************************************************)
EXTENDS LiveView, FiniteSetTheorems, WellFoundedInduction, TLAPS

-----------------------------------------------------------------------------
(* The invariant of the stream *)

EntryOf(E) == [seq : Nat, event : E \cup {Elsewhere}, number : Nat]
FrameOf(E) ==
  [verdict : {"none"}, event : E \cup {Elsewhere}, seq : Nat, number : Nat]
    \cup [verdict : {"ok", "gap"}, event : {Silence}, seq : {0}, number : Nat]

StreamTypes(E) ==
  /\ boot \in Nat \ {0} /\ nextSeq \in Nat \ {0}
  /\ eventBuffer \in Seq(EntryOf(E))
  /\ connection \in [open : BOOLEAN, replay : Seq(EntryOf(E)), queueing : BOOLEAN, pending : Seq(EntryOf(E))]
  /\ wire \in Seq(FrameOf(E))
  /\ cursor \in [boot : Nat, seq : Nat]
  /\ sent \in Nat /\ position \in 0 .. sent /\ told \in BOOLEAN

(* The ring is numbered without holes, and so are the events of the subscription in it. *)
Mine(ring) == {i \in DOMAIN ring : ShouldSend(ring[i].event)}

RingInv ==
  /\ Len(eventBuffer) <= Capacity /\ Len(eventBuffer) < nextSeq
  /\ \A i \in DOMAIN eventBuffer : eventBuffer[i].seq = nextSeq - Len(eventBuffer) + i - 1
  /\ \A i \in Mine(eventBuffer) : eventBuffer[i].number \in 1 .. sent
  /\ \A i, j \in Mine(eventBuffer) : i < j => eventBuffer[i].number < eventBuffer[j].number

Hub == [ring |-> eventBuffer, next |-> nextSeq, sent |-> sent]

(* Sequence number s of the hub is number n of the subscription: what the ring *)
(* has after the one it has after the other, and all of it unless it evicted   *)
(* what follows s.                                                             *)
Mark(hub, s, n) ==
  /\ s \in 1 .. hub.next - 1 /\ n \in 0 .. hub.sent
  /\ \A i \in Mine(hub.ring) : hub.ring[i].seq > s <=> hub.ring[i].number > n
  /\ hub.next - Len(hub.ring) <= s + 1 =>
       \A m \in n + 1 .. hub.sent : \E i \in Mine(hub.ring) : hub.ring[i].number = m

(* The entry or the frame is the event with number n of the subscription. *)
IsNumber(hub, entry, n) ==
  entry.number = n /\ ShouldSend(entry.event) /\ Mark(hub, entry.seq, entry.number)

(* Entries that are numbered one by one after the first n. *)
Consecutive(hub, entries, n) == \A i \in DOMAIN entries : IsNumber(hub, entries[i], n + i)

(* Frames on their way: a verdict comes first if there is one. *)
InOrder(hub, frames, n) ==
  \A i \in DOMAIN frames :
    IF frames[i].verdict = "none" THEN IsNumber(hub, frames[i], n + i)
    ELSE i = 1 /\ frames[i] = Verdict(frames[i].verdict, frames[i].number)

(* What lies before the wire, the replay and the queue behind it. *)
BeforePending == sent - Len(connection.pending)
BeforeReplay == BeforePending - Len(connection.replay)
BeforeWire == BeforeReplay - Len(wire)

FlowInv ==
  /\ ~connection.open => wire = <<>> /\ connection = Closed
  /\ ~connection.queueing => connection.replay = <<>> /\ connection.pending = <<>>
  /\ Consecutive(Hub, connection.pending, BeforePending)
  /\ Consecutive(Hub, connection.replay, BeforeReplay)
  /\ InOrder(Hub, wire, BeforeWire)
  /\ connection.open /\ wire = <<>> => position = BeforeWire
  /\ connection.open /\ wire # <<>> =>
       /\ wire[1].verdict = "none" => position = BeforeWire
       /\ wire[1].verdict = "ok" => position = BeforeWire + 1
       /\ wire[1].verdict = "gap" => /\ wire[1].number = BeforeWire + 1
                                      /\ position <= wire[1].number
                                      /\ ~Resumable(cursor)

CursorInv ==
  /\ cursor.boot <= boot
  /\ cursor.boot = boot => cursor.seq \in 1 .. nextSeq - 1
  /\ Resumable(cursor) => Mark(Hub, cursor.seq, position)

StreamInv(E) == StreamTypes(E) /\ RingInv /\ FlowInv /\ CursorInv

-----------------------------------------------------------------------------
(* Sequences *)

LEMMA AppendAt ==
  ASSUME NEW S, NEW s \in Seq(S), NEW e \in S
  PROVE  /\ Append(s, e) \in Seq(S) /\ Len(Append(s, e)) = Len(s) + 1
         /\ DOMAIN Append(s, e) = 1 .. Len(s) + 1 /\ DOMAIN s = 1 .. Len(s)
         /\ \A i \in DOMAIN s : Append(s, e)[i] = s[i]
         /\ Append(s, e)[Len(s) + 1] = e
OBVIOUS

LEMMA TailAt ==
  ASSUME NEW S, NEW s \in Seq(S), s # <<>>
  PROVE  /\ Tail(s) \in Seq(S) /\ Len(s) \in Nat \ {0} /\ Len(Tail(s)) = Len(s) - 1
         /\ DOMAIN Tail(s) = 1 .. Len(s) - 1 /\ DOMAIN s = 1 .. Len(s)
         /\ Head(s) = s[1] /\ Head(s) \in S
         /\ \A i \in DOMAIN Tail(s) : Tail(s)[i] = s[i + 1]
OBVIOUS

LEMMA LenOfEmpty ==
  ASSUME NEW S, NEW s \in Seq(S)
  PROVE  Len(s) \in Nat /\ (s = <<>> <=> Len(s) = 0) /\ DOMAIN s = 1 .. Len(s)
OBVIOUS

-----------------------------------------------------------------------------
(* A broadcast: the ring loses its first entry if it is full. *)

BroadcastEntry(event) ==
  [seq |-> nextSeq, event |-> event, number |-> IF ShouldSend(event) THEN sent + 1 ELSE 0]

LEMMA RingMoves ==
  ASSUME NEW E, StreamTypes(E), RingInv, NEW event \in E \cup {Elsewhere}, Broadcast(event)
  PROVE  /\ BroadcastEntry(event) \in EntryOf(E)
         /\ eventBuffer' \in Seq(EntryOf(E)) /\ Len(eventBuffer') <= Capacity
         /\ Len(eventBuffer') \in Nat \ {0} /\ DOMAIN eventBuffer' = 1 .. Len(eventBuffer')
         /\ eventBuffer'[Len(eventBuffer')] = BroadcastEntry(event)
         /\ \E d \in {0, 1} :
              /\ Len(eventBuffer') = Len(eventBuffer) + 1 - d
              /\ \A i \in 1 .. Len(eventBuffer') - 1 : eventBuffer'[i] = eventBuffer[i + d]
<1>. DEFINE entry == BroadcastEntry(event)
            longer == Append(eventBuffer, entry)
<1>1. entry \in EntryOf(E)
  BY DEF StreamTypes, EntryOf, BroadcastEntry
<1>2. eventBuffer' = IF Len(longer) > Capacity THEN Tail(longer) ELSE longer
  BY DEF Broadcast, Remember, BroadcastEntry
<1>3. eventBuffer \in Seq(EntryOf(E)) /\ Len(eventBuffer) \in Nat /\ Len(eventBuffer) <= Capacity
  BY LenOfEmpty DEF StreamTypes, RingInv
<1>4. /\ longer \in Seq(EntryOf(E)) /\ Len(longer) = Len(eventBuffer) + 1
      /\ \A i \in 1 .. Len(eventBuffer) : longer[i] = eventBuffer[i]
      /\ longer[Len(eventBuffer) + 1] = entry
  BY <1>1, <1>3, AppendAt
<1>. HIDE DEF entry, longer
<1>5. CASE Len(longer) > Capacity
  <2>1. longer # <<>>
    BY <1>3, <1>4
  <2>2. /\ Tail(longer) \in Seq(EntryOf(E)) /\ Len(Tail(longer)) = Len(eventBuffer)
        /\ \A i \in 1 .. Len(eventBuffer) : Tail(longer)[i] = longer[i + 1]
    BY <1>3, <1>4, <2>1, TailAt
  <2>3. Len(eventBuffer) = Capacity /\ Capacity \in Nat \ {0}
    BY <1>3, <1>4, <1>5, CapacityAssumption
  <2>. QED
    BY <1>1, <1>2, <1>3, <1>4, <1>5, <2>2, <2>3 DEF entry
<1>6. CASE ~(Len(longer) > Capacity)
  BY <1>1, <1>2, <1>3, <1>4, <1>6, CapacityAssumption DEF entry
<1>. QED
  BY <1>5, <1>6

(* Sequence numbers of the ring, and its oldest one. *)
LEMMA OldestIs ==
  ASSUME NEW E, StreamTypes(E), RingInv
  PROVE  OldestBuffered = nextSeq - Len(eventBuffer) /\ OldestBuffered \in 1 .. nextSeq
<1>1. eventBuffer \in Seq(EntryOf(E)) /\ Len(eventBuffer) \in Nat /\ (eventBuffer = <<>> <=> Len(eventBuffer) = 0)
      /\ DOMAIN eventBuffer = 1 .. Len(eventBuffer) /\ nextSeq \in Nat \ {0}
  BY LenOfEmpty DEF StreamTypes
<1>2. CASE eventBuffer = <<>>
  BY <1>1, <1>2 DEF OldestBuffered
<1>3. CASE eventBuffer # <<>>
  <2>1. Head(eventBuffer) = eventBuffer[1] /\ 1 \in DOMAIN eventBuffer
    BY <1>1, <1>3, TailAt
  <2>. QED
    BY <1>1, <1>3, <2>1 DEF OldestBuffered, RingInv
<1>. QED
  BY <1>2, <1>3

LEMMA RingKept ==
  ASSUME NEW E, StreamTypes(E), RingInv, NEW event \in E \cup {Elsewhere}, Broadcast(event)
  PROVE  RingInv'
<1>1. /\ eventBuffer \in Seq(EntryOf(E)) /\ Len(eventBuffer) \in Nat /\ DOMAIN eventBuffer = 1 .. Len(eventBuffer)
      /\ nextSeq \in Nat \ {0} /\ sent \in Nat
  BY LenOfEmpty DEF StreamTypes
<1>2. nextSeq' = nextSeq + 1 /\ sent' = IF ShouldSend(event) THEN sent + 1 ELSE sent
  BY DEF Broadcast
<1>3. PICK d \in {0, 1} :
        /\ Len(eventBuffer') = Len(eventBuffer) + 1 - d
        /\ \A i \in 1 .. Len(eventBuffer') - 1 : eventBuffer'[i] = eventBuffer[i + d]
  BY RingMoves
<1>4. /\ Len(eventBuffer') \in Nat \ {0} /\ Len(eventBuffer') <= Capacity
      /\ DOMAIN eventBuffer' = 1 .. Len(eventBuffer')
      /\ eventBuffer'[Len(eventBuffer')] = BroadcastEntry(event)
  BY RingMoves
<1>5. Len(eventBuffer') < nextSeq'
  BY <1>1, <1>2, <1>3 DEF RingInv
<1>6. ASSUME NEW i \in DOMAIN eventBuffer'
      PROVE  eventBuffer'[i].seq = nextSeq' - Len(eventBuffer') + i - 1
  <2>1. CASE i = Len(eventBuffer')
    BY <1>1, <1>2, <1>4, <2>1 DEF BroadcastEntry
  <2>2. CASE i < Len(eventBuffer')
    <3>1. i + d \in DOMAIN eventBuffer /\ eventBuffer'[i] = eventBuffer[i + d]
      BY <1>1, <1>3, <1>4, <2>2
    <3>2. eventBuffer'[i].seq = nextSeq - Len(eventBuffer) + (i + d) - 1
      BY <3>1 DEF RingInv
    <3>3. d \in Int /\ Len(eventBuffer') = Len(eventBuffer) + 1 - d
      BY <1>3
    <3>4. i \in Int
      BY <1>4, <1>6
    <3>. QED
      BY <1>1, <1>2, <3>2, <3>3, <3>4
  <2>. QED
    BY <1>4, <2>1, <2>2
<1>7. ASSUME NEW i \in Mine(eventBuffer)'
      PROVE  /\ eventBuffer'[i].number \in 1 .. sent'
             /\ i = Len(eventBuffer') => eventBuffer'[i].number = sent + 1
             /\ i < Len(eventBuffer') => /\ i + d \in Mine(eventBuffer) /\ eventBuffer'[i] = eventBuffer[i + d]
                                         /\ eventBuffer'[i].number \in 1 .. sent
  <2>1. i \in 1 .. Len(eventBuffer') /\ ShouldSend(eventBuffer'[i].event)
    BY <1>4, <1>7 DEF Mine, ShouldSend
  <2>2. CASE i = Len(eventBuffer')
    BY <1>1, <1>2, <1>4, <2>1, <2>2 DEF BroadcastEntry
  <2>3. CASE i < Len(eventBuffer')
    <3>1. i + d \in DOMAIN eventBuffer /\ eventBuffer'[i] = eventBuffer[i + d]
      BY <1>1, <1>3, <1>4, <2>1, <2>3
    <3>2. i + d \in Mine(eventBuffer)
      BY <2>1, <3>1 DEF Mine
    <3>3. eventBuffer[i + d].number \in 1 .. sent
      BY <3>2 DEF RingInv
    <3>4. eventBuffer'[i].number \in 1 .. sent
      BY <3>1, <3>3
    <3>5. eventBuffer'[i].number \in 1 .. sent'
      BY <1>1, <1>2, <3>4
    <3>. QED
      BY <2>3, <3>1, <3>2, <3>4, <3>5
  <2>. QED
    BY <2>1, <2>2, <2>3, <1>4
<1>8. ASSUME NEW i \in Mine(eventBuffer)', NEW j \in Mine(eventBuffer)', i < j
      PROVE  eventBuffer'[i].number < eventBuffer'[j].number
  <2>1. /\ i \in 1 .. Len(eventBuffer') /\ j \in 1 .. Len(eventBuffer')
        /\ i < Len(eventBuffer') /\ (j = Len(eventBuffer') \/ j < Len(eventBuffer'))
    BY <1>4, <1>8 DEF Mine
  <2>2. i + d \in Mine(eventBuffer) /\ eventBuffer'[i] = eventBuffer[i + d] /\ eventBuffer'[i].number \in 1 .. sent
    BY <1>7, <2>1
  <2>3. CASE j = Len(eventBuffer')
    BY <1>1, <1>7, <2>2, <2>3
  <2>4. CASE j < Len(eventBuffer')
    <3>1. j + d \in Mine(eventBuffer) /\ eventBuffer'[j] = eventBuffer[j + d]
      BY <1>7, <2>4
    <3>. QED
      BY <1>8, <2>1, <2>2, <3>1 DEF RingInv
  <2>. QED
    BY <2>1, <2>3, <2>4
<1>. QED
  BY <1>4, <1>5, <1>6, <1>7, <1>8 DEF RingInv

(* What was marked stays so, and the new event is. *)
LEMMA MarksKept ==
  ASSUME NEW E, StreamTypes(E), RingInv, NEW event \in E \cup {Elsewhere}, Broadcast(event)
  PROVE  /\ \A s, n : Mark(Hub, s, n) => Mark(Hub, s, n)'
         /\ ShouldSend(event) => \A s, n : s = nextSeq /\ n = sent + 1 => Mark(Hub, s, n)'
<1>1. /\ eventBuffer \in Seq(EntryOf(E)) /\ Len(eventBuffer) \in Nat /\ DOMAIN eventBuffer = 1 .. Len(eventBuffer)
      /\ nextSeq \in Nat \ {0} /\ sent \in Nat
  BY LenOfEmpty DEF StreamTypes
<1>2. nextSeq' = nextSeq + 1 /\ sent' = IF ShouldSend(event) THEN sent + 1 ELSE sent
  BY DEF Broadcast
<1>3. PICK d \in {0, 1} :
        /\ Len(eventBuffer') = Len(eventBuffer) + 1 - d
        /\ \A i \in 1 .. Len(eventBuffer') - 1 : eventBuffer'[i] = eventBuffer[i + d]
  BY RingMoves
<1>4. /\ Len(eventBuffer') \in Nat \ {0} /\ DOMAIN eventBuffer' = 1 .. Len(eventBuffer')
      /\ eventBuffer'[Len(eventBuffer')] = BroadcastEntry(event)
      /\ eventBuffer'[Len(eventBuffer')].seq = nextSeq
      /\ eventBuffer'[Len(eventBuffer')].event = event
      /\ ShouldSend(event) => eventBuffer'[Len(eventBuffer')].number = sent + 1
  BY RingMoves DEF BroadcastEntry
<1>5. RingInv'
  BY RingKept
<1>6. Len(eventBuffer') < nextSeq'
  BY <1>5 DEF RingInv
<1>7. \A i \in 1 .. Len(eventBuffer') - 1 : i \in Mine(eventBuffer)' <=> i + d \in Mine(eventBuffer)
  <2>. TAKE i \in 1 .. Len(eventBuffer') - 1
  <2>1. i \in DOMAIN eventBuffer' /\ i + d \in DOMAIN eventBuffer /\ eventBuffer'[i] = eventBuffer[i + d]
    BY <1>1, <1>3, <1>4
  <2>. QED
    BY <2>1 DEF Mine, ShouldSend
<1>8. Len(eventBuffer') \in Mine(eventBuffer)' <=> ShouldSend(event)
  BY <1>4 DEF Mine, ShouldSend
<1>9. ASSUME NEW s, NEW n, Mark(Hub, s, n)
      PROVE  Mark(Hub, s, n)'
  <2>1. s \in 1 .. nextSeq - 1 /\ n \in 0 .. sent
    BY <1>9 DEF Mark, Hub
  <2>2. s \in 1 .. nextSeq' - 1 /\ n \in 0 .. sent'
    BY <1>1, <1>2, <2>1
  <2>3. ASSUME NEW i \in Mine(eventBuffer)'
        PROVE  eventBuffer'[i].seq > s <=> eventBuffer'[i].number > n
    <3>1. i \in 1 .. Len(eventBuffer')
      BY <1>4 DEF Mine
    <3>2. CASE i = Len(eventBuffer')
      BY <1>1, <1>4, <1>8, <2>1, <2>3, <3>2
    <3>3. CASE i # Len(eventBuffer')
      <4>1. i + d \in Mine(eventBuffer) /\ eventBuffer'[i] = eventBuffer[i + d]
        BY <1>3, <1>4, <1>7, <2>3, <3>1, <3>3
      <4>. QED
        BY <1>9, <4>1 DEF Mark, Hub
    <3>. QED
      BY <3>2, <3>3
  <2>4. ASSUME nextSeq' - Len(eventBuffer') <= s + 1, NEW m \in n + 1 .. sent'
        PROVE  \E i \in Mine(eventBuffer)' : eventBuffer'[i].number = m
    <3>1. CASE m = sent + 1
      <4>1. ShouldSend(event)
        BY <1>1, <1>2, <2>1, <3>1
      <4>. QED
        BY <1>4, <1>8, <3>1, <4>1
    <3>2. CASE m # sent + 1
      <4>1. m \in n + 1 .. sent
        BY <1>1, <1>2, <2>1, <3>2
      <4>2. nextSeq - Len(eventBuffer) <= s + 1
        BY <1>1, <1>2, <1>3, <1>6, <2>1, <2>4
      <4>3. PICK i \in Mine(eventBuffer) : eventBuffer[i].number = m
        BY <1>9, <4>1, <4>2 DEF Mark, Hub
      <4>4. eventBuffer[i].seq > s
        BY <1>9, <2>1, <4>1, <4>3 DEF Mark, Hub
      <4>5. i \in 1 .. Len(eventBuffer) /\ eventBuffer[i].seq = nextSeq - Len(eventBuffer) + i - 1
        BY <1>1 DEF Mine, RingInv
      <4>6. i - d \in 1 .. Len(eventBuffer') - 1
        <5>1. i > s - nextSeq + Len(eventBuffer) + 1 /\ s \in Int /\ i \in Int
          BY <1>1, <2>1, <4>4, <4>5
        <5>2. s + 1 >= nextSeq + d - Len(eventBuffer)
          BY <1>1, <1>2, <1>3, <1>4, <2>1, <2>4
        <5>3. Len(eventBuffer') - 1 = Len(eventBuffer) - d
          BY <1>1, <1>3
        <5>4. i - d >= 1 /\ i - d <= Len(eventBuffer) - d
          BY <1>1, <1>3, <4>5, <5>1, <5>2
        <5>. QED
          BY <1>3, <5>1, <5>3, <5>4
      <4>7. i - d \in Mine(eventBuffer)' /\ eventBuffer'[i - d] = eventBuffer[i]
        BY <1>3, <1>7, <4>5, <4>6
      <4>. QED
        BY <4>3, <4>7
    <3>. QED
      BY <3>1, <3>2
  <2>. QED
    BY <2>2, <2>3, <2>4 DEF Mark, Hub
<1>10. ASSUME ShouldSend(event), NEW s, NEW n, s = nextSeq, n = sent + 1
       PROVE  Mark(Hub, s, n)'
  <2>1. s \in 1 .. nextSeq' - 1 /\ n \in 0 .. sent' /\ sent' = sent + 1
    BY <1>1, <1>2, <1>10
  <2>2. \A i \in Mine(eventBuffer)' : eventBuffer'[i].seq <= nextSeq /\ eventBuffer'[i].number <= sent + 1
    BY <1>1, <1>2, <1>4, <1>5, <2>1 DEF RingInv, Mine
  <2>3. \A i \in Mine(eventBuffer)' : eventBuffer'[i].seq \in Int /\ eventBuffer'[i].number \in Int
    BY <1>1, <1>2, <1>4, <1>5, <2>1 DEF RingInv, Mine
  <2>4. n + 1 .. sent' = {}
    BY <1>1, <1>10, <2>1
  <2>. QED
    BY <1>1, <1>10, <2>1, <2>2, <2>3, <2>4 DEF Mark, Hub
<1>. QED
  BY <1>9, <1>10

(* A cursor that can no longer be resumed from never can again. *)
LEMMA OldestGrows ==
  ASSUME NEW E, StreamTypes(E), RingInv, NEW event \in E \cup {Elsewhere}, Broadcast(event)
  PROVE  OldestBuffered <= OldestBuffered' /\ OldestBuffered \in Nat /\ OldestBuffered' \in Nat
<1>1. Len(eventBuffer) \in Nat /\ nextSeq \in Nat \ {0} /\ nextSeq' = nextSeq + 1
  BY LenOfEmpty DEF StreamTypes, Broadcast
<1>2. /\ Len(eventBuffer') \in Nat \ {0} /\ Len(eventBuffer') <= Len(eventBuffer) + 1
      /\ eventBuffer' \in Seq(EntryOf(E)) /\ DOMAIN eventBuffer' = 1 .. Len(eventBuffer')
  BY <1>1, RingMoves
<1>3. eventBuffer' # <<>> /\ Head(eventBuffer') = eventBuffer'[1]
  BY <1>2, TailAt, LenOfEmpty
<1>4. OldestBuffered' = nextSeq' - Len(eventBuffer') /\ Len(eventBuffer') < nextSeq'
  BY <1>1, <1>2, <1>3, RingKept DEF RingInv, OldestBuffered
<1>. QED
  BY <1>1, <1>2, <1>4, OldestIs

LEMMA CursorKept ==
  ASSUME NEW E, StreamInv(E), NEW event \in E \cup {Elsewhere}, Broadcast(event)
  PROVE  CursorInv' /\ (Resumable(cursor)' => Resumable(cursor))
<1>. USE DEF StreamInv
<1>1. UNCHANGED <<boot, cursor, position>> /\ nextSeq' = nextSeq + 1
  BY DEF Broadcast
<1>2. cursor.boot \in Nat /\ cursor.seq \in Nat /\ nextSeq \in Nat \ {0}
  BY DEF StreamTypes
<1>3. OldestBuffered <= OldestBuffered' /\ OldestBuffered \in Nat /\ OldestBuffered' \in Nat
  BY OldestGrows
<1>4. Resumable(cursor)' => Resumable(cursor)
  BY <1>1, <1>2, <1>3 DEF Resumable, CursorInv
<1>5. Mark(Hub, cursor.seq, position) => Mark(Hub, cursor.seq, position)'
  BY <1>1, MarksKept
<1>. QED
  BY <1>1, <1>2, <1>4, <1>5 DEF CursorInv

(* The three parts of the way stay numbered one after the other. *)
LEMMA NumbersKept ==
  ASSUME NEW hub, NEW next, \A s, n : Mark(hub, s, n) => Mark(next, s, n)
  PROVE  /\ \A entry, n : IsNumber(hub, entry, n) => IsNumber(next, entry, n)
         /\ \A entries, n : Consecutive(hub, entries, n) => Consecutive(next, entries, n)
         /\ \A frames, n : InOrder(hub, frames, n) => InOrder(next, frames, n)
BY DEF IsNumber, Consecutive, InOrder

LEMMA ConsecutiveAppend ==
  ASSUME NEW S, NEW entries \in Seq(S), NEW n \in Int, NEW hub, Consecutive(hub, entries, n),
         NEW entry \in S, IsNumber(hub, entry, n + Len(entries) + 1)
  PROVE  Consecutive(hub, Append(entries, entry), n)
<1>1. /\ DOMAIN Append(entries, entry) = 1 .. Len(entries) + 1 /\ DOMAIN entries = 1 .. Len(entries)
      /\ \A i \in DOMAIN entries : Append(entries, entry)[i] = entries[i]
      /\ Append(entries, entry)[Len(entries) + 1] = entry
  BY AppendAt
<1>2. Len(entries) \in Nat
  BY LenOfEmpty
<1>3. SUFFICES ASSUME NEW i \in DOMAIN Append(entries, entry)
               PROVE  IsNumber(hub, Append(entries, entry)[i], n + i)
  BY DEF Consecutive
<1>4. CASE i \in DOMAIN entries
  BY <1>1, <1>4 DEF Consecutive
<1>5. CASE i = Len(entries) + 1
  BY <1>1, <1>2, <1>5
<1>. QED
  BY <1>1, <1>2, <1>3, <1>4, <1>5

LEMMA ConsecutiveTail ==
  ASSUME NEW S, NEW entries \in Seq(S), entries # <<>>, NEW n \in Int, NEW hub, Consecutive(hub, entries, n)
  PROVE  IsNumber(hub, Head(entries), n + 1) /\ Consecutive(hub, Tail(entries), n + 1)
<1>1. /\ DOMAIN Tail(entries) = 1 .. Len(entries) - 1 /\ DOMAIN entries = 1 .. Len(entries)
      /\ Len(entries) \in Nat \ {0} /\ Head(entries) = entries[1]
      /\ \A i \in DOMAIN Tail(entries) : Tail(entries)[i] = entries[i + 1]
  BY TailAt
<1>2. \A i \in DOMAIN Tail(entries) : i + 1 \in DOMAIN entries /\ n + (i + 1) = n + 1 + i
  BY <1>1
<1>3. \A i \in DOMAIN Tail(entries) : IsNumber(hub, Tail(entries)[i], n + 1 + i)
  BY <1>1, <1>2 DEF Consecutive
<1>4. IsNumber(hub, Head(entries), n + 1)
  BY <1>1 DEF Consecutive
<1>. QED
  BY <1>3, <1>4 DEF Consecutive

LEMMA InOrderAppend ==
  ASSUME NEW S, NEW frames \in Seq(S), NEW n \in Int, NEW hub, InOrder(hub, frames, n),
         NEW frame \in S, frame.verdict = "none", IsNumber(hub, frame, n + Len(frames) + 1)
  PROVE  InOrder(hub, Append(frames, frame), n)
<1>1. /\ DOMAIN Append(frames, frame) = 1 .. Len(frames) + 1 /\ DOMAIN frames = 1 .. Len(frames)
      /\ \A i \in DOMAIN frames : Append(frames, frame)[i] = frames[i]
      /\ Append(frames, frame)[Len(frames) + 1] = frame
  BY AppendAt
<1>2. Len(frames) \in Nat
  BY LenOfEmpty
<1>3. ASSUME NEW i \in DOMAIN Append(frames, frame)
      PROVE  IF Append(frames, frame)[i].verdict = "none" THEN IsNumber(hub, Append(frames, frame)[i], n + i)
             ELSE i = 1 /\ Append(frames, frame)[i]
                             = Verdict(Append(frames, frame)[i].verdict, Append(frames, frame)[i].number)
  <2>1. CASE i \in DOMAIN frames
    BY <1>1, <2>1 DEF InOrder
  <2>2. CASE i = Len(frames) + 1
    BY <1>1, <1>2, <2>2
  <2>. QED
    BY <1>1, <1>2, <1>3, <2>1, <2>2
<1>. QED
  BY <1>3 DEF InOrder

LEMMA InOrderTail ==
  ASSUME NEW S, NEW frames \in Seq(S), frames # <<>>, NEW n \in Int, NEW hub, InOrder(hub, frames, n)
  PROVE  /\ Head(frames) = frames[1]
         /\ Head(frames).verdict = "none" => IsNumber(hub, Head(frames), n + 1)
         /\ InOrder(hub, Tail(frames), n + 1)
         /\ Tail(frames) # <<>> => Tail(frames)[1].verdict = "none"
<1>1. /\ DOMAIN Tail(frames) = 1 .. Len(frames) - 1 /\ DOMAIN frames = 1 .. Len(frames)
      /\ Len(frames) \in Nat \ {0} /\ Head(frames) = frames[1]
      /\ \A i \in DOMAIN Tail(frames) : Tail(frames)[i] = frames[i + 1]
      /\ Tail(frames) \in Seq(S) /\ Len(Tail(frames)) = Len(frames) - 1
  BY TailAt
<1>2. \A i \in DOMAIN Tail(frames) : i + 1 \in DOMAIN frames /\ n + (i + 1) = n + 1 + i /\ i + 1 # 1
  BY <1>1
<1>3. \A i \in DOMAIN Tail(frames) : Tail(frames)[i].verdict = "none" /\ IsNumber(hub, Tail(frames)[i], n + 1 + i)
  BY <1>1, <1>2 DEF InOrder
<1>4. Head(frames).verdict = "none" => IsNumber(hub, Head(frames), n + 1)
  BY <1>1 DEF InOrder
<1>5. Tail(frames) # <<>> => 1 \in DOMAIN Tail(frames)
  BY <1>1, LenOfEmpty
<1>. QED
  BY <1>1, <1>3, <1>4, <1>5 DEF InOrder

LEMMA EmptyWays == \A hub, n : Consecutive(hub, <<>>, n) /\ InOrder(hub, <<>>, n)
BY DEF Consecutive, InOrder

(* What FlowInv counts with. *)
LEMMA FlowTypes ==
  ASSUME NEW E, StreamTypes(E)
  PROVE  /\ connection.pending \in Seq(EntryOf(E)) /\ connection.replay \in Seq(EntryOf(E)) /\ wire \in Seq(FrameOf(E))
         /\ Len(connection.pending) \in Nat /\ Len(connection.replay) \in Nat /\ Len(wire) \in Nat
         /\ sent \in Nat /\ position \in Nat
         /\ BeforePending \in Int /\ BeforeReplay \in Int /\ BeforeWire \in Int
         /\ BeforePending + Len(connection.pending) = sent
         /\ BeforeReplay + Len(connection.replay) = BeforePending
         /\ BeforeWire + Len(wire) = BeforeReplay
<1>1. /\ connection.pending \in Seq(EntryOf(E)) /\ connection.replay \in Seq(EntryOf(E)) /\ wire \in Seq(FrameOf(E))
      /\ sent \in Nat /\ position \in Nat
  BY DEF StreamTypes
<1>2. Len(connection.pending) \in Nat /\ Len(connection.replay) \in Nat /\ Len(wire) \in Nat
  BY <1>1, LenOfEmpty
<1>. QED
  BY <1>1, <1>2 DEF BeforePending, BeforeReplay, BeforeWire

LEMMA FlowKept ==
  ASSUME NEW E, StreamInv(E), NEW event \in E \cup {Elsewhere}, Broadcast(event)
  PROVE  FlowInv'
<1>. USE DEF StreamInv
<1>. DEFINE entry == BroadcastEntry(event)
<1>1. /\ connection.pending \in Seq(EntryOf(E)) /\ connection.replay \in Seq(EntryOf(E)) /\ wire \in Seq(FrameOf(E))
      /\ Len(connection.pending) \in Nat /\ Len(connection.replay) \in Nat /\ Len(wire) \in Nat
      /\ sent \in Nat /\ position \in Nat
      /\ BeforePending \in Int /\ BeforeReplay \in Int /\ BeforeWire \in Int
      /\ BeforePending + Len(connection.pending) = sent
      /\ BeforeReplay + Len(connection.replay) = BeforePending
      /\ BeforeWire + Len(wire) = BeforeReplay
  BY FlowTypes
<1>2. /\ entry \in EntryOf(E) /\ Frame(entry) \in FrameOf(E) /\ Frame(entry).verdict = "none"
      /\ UNCHANGED <<boot, cursor, position>>
  BY RingMoves DEF Frame, FrameOf, EntryOf, Broadcast
<1>3. /\ \A n : Consecutive(Hub, connection.pending, n) => Consecutive(Hub', connection.pending, n)
      /\ \A n : Consecutive(Hub, connection.replay, n) => Consecutive(Hub', connection.replay, n)
      /\ \A n : InOrder(Hub, wire, n) => InOrder(Hub', wire, n)
  <2>. DEFINE hub == Hub
              next == Hub'
  <2>1. \A s, n : Mark(hub, s, n) => Mark(next, s, n)
    BY MarksKept
  <2>. HIDE DEF hub, next
  <2>2. /\ \A entries, n : Consecutive(hub, entries, n) => Consecutive(next, entries, n)
        /\ \A frames, n : InOrder(hub, frames, n) => InOrder(next, frames, n)
    BY <2>1, NumbersKept
  <2>. QED
    BY <2>2 DEF hub, next
<1>4. /\ Consecutive(Hub', connection.pending, BeforePending) /\ Consecutive(Hub', connection.replay, BeforeReplay)
      /\ InOrder(Hub', wire, BeforeWire)
  BY <1>3 DEF FlowInv
<1>5. Resumable(cursor)' => Resumable(cursor)
  BY CursorKept
<1>6. ShouldSend(event) => IsNumber(Hub', entry, sent + 1) /\ IsNumber(Hub', Frame(entry), sent + 1)
  BY MarksKept DEF IsNumber, Frame, BroadcastEntry
<1>. HIDE DEF entry
<1>7. CASE ~(ShouldSend(event) /\ connection.open)
  <2>1. UNCHANGED <<connection, wire>> /\ (connection.open => sent' = sent)
    BY <1>7 DEF Broadcast
  <2>2. CASE ~connection.open
    <3>1. connection' = Closed /\ wire' = <<>> /\ wire = <<>> /\ ~connection.queueing
      BY <2>1, <2>2 DEF FlowInv, Closed
    <3>. QED
      BY <3>1, EmptyWays DEF FlowInv, Closed
  <2>3. CASE connection.open
    <3>1. UNCHANGED <<BeforePending, BeforeReplay, BeforeWire>>
      BY <2>1, <2>3 DEF BeforePending, BeforeReplay, BeforeWire
    <3>. QED
      BY <1>2, <1>4, <1>5, <2>1, <2>3, <3>1 DEF FlowInv
  <2>. QED
    BY <2>2, <2>3
<1>8. CASE ShouldSend(event) /\ connection.open /\ connection.queueing
  <2>1. /\ connection' = [connection EXCEPT !.pending = Append(@, entry)] /\ wire' = wire /\ sent' = sent + 1
    BY <1>8 DEF Broadcast, BroadcastEntry, entry
  <2>2. /\ connection'.open = connection.open /\ connection'.queueing = connection.queueing
        /\ connection'.replay = connection.replay /\ connection'.pending = Append(connection.pending, entry)
    <3>1. connection \in [open : BOOLEAN, replay : Seq(EntryOf(E)), queueing : BOOLEAN, pending : Seq(EntryOf(E))]
      BY DEF StreamTypes
    <3>. QED
      BY <2>1, <3>1
  <2>3. Len(connection'.pending) = Len(connection.pending) + 1
    BY <1>1, <1>2, <2>2, AppendAt
  <2>4. UNCHANGED <<BeforePending, BeforeReplay, BeforeWire>>
    <3>1. BeforePending' = BeforePending
      <4>1. sent \in Nat /\ Len(connection.pending) \in Nat /\ sent' = sent + 1
        BY <1>1, <2>1
      <4>2. sent' - Len(connection'.pending) = sent - Len(connection.pending)
        BY <2>3, <4>1
      <4>. QED
        BY <4>2 DEF BeforePending
    <3>2. BeforeReplay' = BeforeReplay
      BY <2>2, <3>1 DEF BeforeReplay
    <3>3. BeforeWire' = BeforeWire
      BY <2>1, <3>2 DEF BeforeWire
    <3>. QED
      BY <3>1, <3>2, <3>3
  <2>5. Consecutive(Hub', Append(connection.pending, entry), BeforePending)
    <3>1. ASSUME NEW hub, hub = Hub', NEW entries, entries = connection.pending, NEW n, n = BeforePending
          PROVE  Consecutive(hub, Append(entries, entry), n)
      <4>1. Consecutive(hub, entries, n) /\ IsNumber(hub, entry, n + Len(entries) + 1)
        BY <1>1, <1>4, <1>6, <1>8, <3>1
      <4>2. entries \in Seq(EntryOf(E)) /\ n \in Int /\ entry \in EntryOf(E)
        BY <1>1, <1>2, <3>1
      <4>. QED
        BY <4>1, <4>2, ConsecutiveAppend
    <3>. QED
      BY <3>1
  <2>. QED
    BY <1>2, <1>4, <1>5, <1>8, <2>1, <2>2, <2>4, <2>5 DEF FlowInv
<1>9. CASE ShouldSend(event) /\ connection.open /\ ~connection.queueing
  <2>1. /\ connection' = connection /\ wire' = Append(wire, Frame(entry)) /\ sent' = sent + 1
    BY <1>9 DEF Broadcast, BroadcastEntry, entry
  <2>2. connection.pending = <<>> /\ connection.replay = <<>>
    BY <1>9 DEF FlowInv
  <2>3. /\ Len(wire') = Len(wire) + 1 /\ wire' # <<>>
        /\ wire # <<>> => wire'[1] = wire[1]
        /\ wire = <<>> => wire'[1] = Frame(entry)
    <3>1. wire \in Seq(FrameOf(E)) /\ Frame(entry) \in FrameOf(E) /\ wire' = Append(wire, Frame(entry))
      BY <1>1, <1>2, <2>1
    <3>2. /\ wire' \in Seq(FrameOf(E)) /\ Len(wire') = Len(wire) + 1 /\ DOMAIN wire = 1 .. Len(wire)
          /\ \A i \in DOMAIN wire : wire'[i] = wire[i]
          /\ wire'[Len(wire) + 1] = Frame(entry)
      BY <3>1, AppendAt
    <3>3. Len(wire) \in Nat /\ (wire = <<>> <=> Len(wire) = 0)
      BY <3>1, LenOfEmpty
    <3>4. wire # <<>> => 1 \in DOMAIN wire
      BY <3>2, <3>3
    <3>5. wire' # <<>>
      BY <3>2, <3>3, LenOfEmpty
    <3>6. wire = <<>> => wire'[1] = Frame(entry)
      BY <3>2, <3>3
    <3>. QED
      BY <3>2, <3>4, <3>5, <3>6
  <2>4. BeforeWire' = BeforeWire /\ BeforeWire + Len(wire) = sent
        /\ BeforePending' = sent' /\ BeforeReplay' = sent'
    BY <1>1, <2>1, <2>2, <2>3, LenOfEmpty DEF BeforePending, BeforeReplay, BeforeWire
  <2>5. Consecutive(Hub, connection.replay, BeforeReplay)' /\ Consecutive(Hub, connection.pending, BeforePending)'
    BY <2>1, <2>2, EmptyWays
  <2>6. InOrder(Hub', Append(wire, Frame(entry)), BeforeWire)
    <3>1. ASSUME NEW hub, hub = Hub', NEW frames, frames = wire, NEW n, n = BeforeWire
          PROVE  InOrder(hub, Append(frames, Frame(entry)), n)
      <4>1. InOrder(hub, frames, n) /\ IsNumber(hub, Frame(entry), n + Len(frames) + 1)
        BY <1>1, <1>4, <1>6, <1>9, <2>4, <3>1
      <4>2. frames \in Seq(FrameOf(E)) /\ n \in Int
        BY <1>1, <3>1
      <4>. QED
        BY <1>2, <4>1, <4>2, InOrderAppend
    <3>. QED
      BY <3>1
  <2>. QED
    BY <1>2, <1>5, <1>9, <2>1, <2>3, <2>4, <2>5, <2>6 DEF FlowInv
<1>. QED
  BY <1>7, <1>8, <1>9

LEMMA BroadcastKeeps ==
  ASSUME NEW E, StreamInv(E), NEW event \in E \cup {Elsewhere}, Broadcast(event)
  PROVE  StreamInv(E)'
<1>. USE DEF StreamInv
<1>1. RingInv' /\ FlowInv' /\ CursorInv'
  BY RingKept, FlowKept, CursorKept
<1>2. BroadcastEntry(event) \in EntryOf(E) /\ Frame(BroadcastEntry(event)) \in FrameOf(E) /\ eventBuffer' \in Seq(EntryOf(E))
  BY RingMoves DEF Frame, FrameOf, EntryOf
<1>3. connection' \in [open : BOOLEAN, replay : Seq(EntryOf(E)), queueing : BOOLEAN, pending : Seq(EntryOf(E))]
  <2>1. Append(connection.pending, BroadcastEntry(event)) \in Seq(EntryOf(E))
    BY <1>2, AppendAt DEF StreamTypes
  <2>. QED
    BY <2>1 DEF StreamTypes, Broadcast, BroadcastEntry
<1>4. wire' \in Seq(FrameOf(E))
  <2>1. Append(wire, Frame(BroadcastEntry(event))) \in Seq(FrameOf(E))
    BY <1>2, AppendAt DEF StreamTypes
  <2>. QED
    BY <2>1 DEF StreamTypes, Broadcast, BroadcastEntry
<1>5. nextSeq' \in Nat \ {0} /\ sent' \in Nat /\ position' \in 0 .. sent'
  BY DEF StreamTypes, Broadcast
<1>6. UNCHANGED <<boot, cursor, told>>
  BY DEF Broadcast
<1>. QED
  BY <1>1, <1>2, <1>3, <1>4, <1>5, <1>6 DEF StreamTypes, EntryOf, FrameOf

-----------------------------------------------------------------------------
(* A browser that connects with a cursor: the ring has all it missed or it is told of a gap. *)

LEMMA RingEntries ==
  ASSUME NEW E, StreamTypes(E), RingInv
  PROVE  /\ Len(eventBuffer) \in Nat /\ DOMAIN eventBuffer = 1 .. Len(eventBuffer)
         /\ \A i \in DOMAIN eventBuffer :
              eventBuffer[i] \in EntryOf(E) /\ eventBuffer[i].seq \in 1 .. nextSeq - 1
         /\ \A i, j \in DOMAIN eventBuffer : eventBuffer[j].seq > eventBuffer[i].seq <=> j > i
<1>1. /\ eventBuffer \in Seq(EntryOf(E)) /\ Len(eventBuffer) \in Nat /\ DOMAIN eventBuffer = 1 .. Len(eventBuffer)
      /\ nextSeq \in Nat \ {0} /\ Len(eventBuffer) < nextSeq
  BY LenOfEmpty DEF StreamTypes, RingInv
<1>2. \A i \in DOMAIN eventBuffer : eventBuffer[i] \in EntryOf(E)
  BY <1>1
<1>3. \A i \in DOMAIN eventBuffer : eventBuffer[i].seq = nextSeq - Len(eventBuffer) + i - 1
  BY DEF RingInv
<1>4. \A i \in DOMAIN eventBuffer : eventBuffer[i].seq \in 1 .. nextSeq - 1
  BY <1>1, <1>3
<1>5. \A i, j \in DOMAIN eventBuffer : eventBuffer[j].seq > eventBuffer[i].seq <=> j > i
  BY <1>1, <1>3
<1>. QED
  BY <1>1, <1>2, <1>4, <1>5

(* Sets that are counted by a numbering of their members. *)
LEMMA CountedBy ==
  ASSUME NEW S, NEW T, IsFiniteSet(S), NEW f \in [S -> T],
         \A x, y \in S : x # y => f[x] # f[y],
         \A t \in T : \E x \in S : f[x] = t
  PROVE  Cardinality(S) = Cardinality(T)
<1>1. f \in Injection(S, T)
  BY DEF Injection, IsInjective
<1>2. f \in Surjection(S, T)
  BY DEF Surjection
<1>3. ExistsBijection(S, T)
  BY <1>1, <1>2 DEF ExistsBijection, Bijection
<1>. QED
  BY <1>3, FS_Bijection

LEMMA IntervalSize ==
  ASSUME NEW a \in Nat, NEW b \in Nat, a <= b
  PROVE  IsFiniteSet(1 .. b) /\ Cardinality(a + 1 .. b) = b - a
<1>1. a + 1 \in Int /\ 1 \in Int /\ b \in Int
  OBVIOUS
<1>2. Cardinality(a + 1 .. b) = IF a + 1 > b THEN 0 ELSE b - (a + 1) + 1
  BY <1>1, FS_Interval
<1>3. IsFiniteSet(1 .. b)
  BY <1>1, FS_Interval
<1>. QED
  BY <1>2, <1>3

LEMMA MissedIsTheRest ==
  ASSUME NEW E, StreamTypes(E), RingInv, Resumable(cursor), Mark(Hub, cursor.seq, position)
  PROVE  /\ Missed(cursor) \in Seq(EntryOf(E)) /\ Len(Missed(cursor)) = sent - position
         /\ Consecutive(Hub, Missed(cursor), position)
         /\ \A n \in DOMAIN Missed(cursor) : \E i \in Mine(eventBuffer) : Missed(cursor)[n] = eventBuffer[i]
<1>. DEFINE number(i) == eventBuffer[i].number
            A == After(cursor)
            Place(i) == Cardinality({j \in A : j <= i})
<1>1. /\ Len(eventBuffer) \in Nat /\ DOMAIN eventBuffer = 1 .. Len(eventBuffer)
      /\ \A i \in DOMAIN eventBuffer :
           eventBuffer[i] \in EntryOf(E) /\ eventBuffer[i].seq \in 1 .. nextSeq - 1
      /\ \A i, j \in DOMAIN eventBuffer : eventBuffer[j].seq > eventBuffer[i].seq <=> j > i
  BY RingEntries
<1>2. sent \in Nat /\ position \in 0 .. sent /\ nextSeq \in Nat \ {0} /\ cursor.seq \in Nat
  BY DEF StreamTypes
<1>3. A \subseteq Mine(eventBuffer) /\ A \subseteq 1 .. Len(eventBuffer)
      /\ \A i \in Mine(eventBuffer) : i \in A <=> number(i) > position
  BY <1>1 DEF After, Mine, Mark, Hub
<1>4. \A i \in A : number(i) \in position + 1 .. sent
  BY <1>2, <1>3 DEF RingInv
<1>5. \A m \in position + 1 .. sent : \E i \in A : number(i) = m
  <2>1. nextSeq - Len(eventBuffer) <= cursor.seq + 1
    <3>1. OldestBuffered = nextSeq - Len(eventBuffer) /\ OldestBuffered \in 1 .. nextSeq
      BY OldestIs
    <3>. QED
      BY <1>1, <1>2, <3>1 DEF Resumable
  <2>. TAKE m \in position + 1 .. sent
  <2>2. PICK i \in Mine(eventBuffer) : number(i) = m
    BY <2>1 DEF Mark, Hub
  <2>. QED
    BY <1>2, <1>3, <2>2
<1>6. \A i, j \in A : i < j => number(i) < number(j)
  BY <1>3 DEF RingInv
<1>7. \A i, j \in A : i # j => number(i) # number(j)
  BY <1>3, <1>4, <1>6
<1>8. \A i, j \in A : j <= i <=> number(j) <= number(i)
  BY <1>3, <1>4, <1>6
<1>9. ASSUME NEW top \in position .. sent
      PROVE  Cardinality({j \in A : number(j) <= top}) = top - position
  <2>. DEFINE B == {j \in A : number(j) <= top}
              f == [j \in B |-> number(j)]
  <2>1. \A j \in B : number(j) \in position + 1 .. top
    BY <1>2, <1>4, <1>9
  <2>2. \A m \in position + 1 .. top : \E j \in B : number(j) = m
    BY <1>2, <1>5, <1>9
  <2>3. Cardinality(position + 1 .. top) = top - position
    BY <1>2, <1>9, IntervalSize
  <2>4. IsFiniteSet(A) /\ B \subseteq A
    <3>1. IsFiniteSet(1 .. Len(eventBuffer))
      <4>1. 1 \in Int /\ Len(eventBuffer) \in Int
        BY <1>1
      <4>. QED
        BY <4>1, FS_Interval
    <3>. HIDE DEF A
    <3>2. IsFiniteSet(A)
      BY <1>3, <3>1, FS_Subset
    <3>. QED
      BY <3>2
  <2>5. IsFiniteSet(B)
    BY <2>4, FS_Subset
  <2>6. f \in [B -> position + 1 .. top] /\ \A x, y \in B : x # y => f[x] # f[y]
    BY <1>7, <2>1
  <2>7. \A t \in position + 1 .. top : \E x \in B : f[x] = t
    BY <2>2
  <2>. HIDE DEF B, f
  <2>8. Cardinality(B) = Cardinality(position + 1 .. top)
    BY <2>5, <2>6, <2>7, CountedBy
  <2>. QED
    BY <2>3, <2>8 DEF B
<1>10. Cardinality(A) = sent - position
  <2>1. {j \in A : number(j) <= sent} = A
    BY <1>2, <1>4
  <2>. QED
    BY <1>2, <1>9, <2>1
<1>11. \A i \in A : Place(i) = number(i) - position
  <2>. TAKE i \in A
  <2>1. {j \in A : j <= i} = {j \in A : number(j) <= number(i)}
    BY <1>8
  <2>2. number(i) \in position .. sent
    BY <1>2, <1>4
  <2>. QED
    BY <1>9, <2>1, <2>2
<1>. DEFINE missed == [n \in 1 .. Cardinality(A) |-> eventBuffer[CHOOSE i \in A : Place(i) = n]]
<1>12. Missed(cursor) = missed
  BY DEF Missed
<1>. HIDE DEF A
<1>13. ASSUME NEW n \in 1 .. sent - position
       PROVE  \E i \in A : missed[n] = eventBuffer[i] /\ number(i) = position + n
  <2>1. PICK i \in A : number(i) = position + n
    BY <1>2, <1>5, <1>13
  <2>2. Place(i) = n
    BY <1>2, <1>11, <1>13, <2>1
  <2>. DEFINE c == CHOOSE k \in A : Place(k) = n
  <2>3. c \in A /\ Place(c) = n
    BY <2>2
  <2>4. missed[n] = eventBuffer[c]
    BY <1>10, <1>13
  <2>. HIDE DEF c, number, Place
  <2>5. Place(c) = number(c) - position /\ number(c) \in position + 1 .. sent
    BY <1>4, <1>11, <2>3
  <2>6. number(c) = position + n
    BY <1>2, <1>13, <2>3, <2>5
  <2>. QED
    BY <2>3, <2>4, <2>6 DEF number
<1>14. DOMAIN missed = 1 .. sent - position
  BY <1>10
<1>15. missed \in Seq(EntryOf(E)) /\ Len(missed) = sent - position
  <2>1. \A n \in 1 .. sent - position : missed[n] \in EntryOf(E)
    BY <1>1, <1>3, <1>13
  <2>2. missed = [n \in 1 .. sent - position |-> missed[n]]
    BY <1>10
  <2>. HIDE DEF missed
  <2>. QED
    BY <1>2, <2>1, <2>2
<1>16. \A i \in A : Mark(Hub, eventBuffer[i].seq, number(i))
  <2>. TAKE i \in A
  <2>1. i \in Mine(eventBuffer) /\ i \in DOMAIN eventBuffer /\ \A j \in Mine(eventBuffer) : j \in DOMAIN eventBuffer
    BY <1>1, <1>3 DEF Mine
  <2>2. eventBuffer[i].seq \in 1 .. nextSeq - 1 /\ number(i) \in position + 1 .. sent
    BY <1>1, <1>4, <2>1
  <2>3. \A j \in Mine(eventBuffer) : number(j) > number(i) <=> j > i
    BY <1>1, <2>1 DEF RingInv
  <2>4. \A j \in Mine(eventBuffer) : eventBuffer[j].seq > eventBuffer[i].seq <=> number(j) > number(i)
    BY <1>1, <2>1, <2>3
  <2>5. \A m \in number(i) + 1 .. sent : \E j \in Mine(eventBuffer) : number(j) = m
    BY <1>2, <1>3, <1>5, <2>2
  <2>6. number(i) \in 0 .. sent
    BY <1>2, <2>2
  <2>. QED
    BY <2>2, <2>4, <2>5, <2>6 DEF Mark, Hub
<1>17. Consecutive(Hub, missed, position)
  <2>1. \A i \in A : ShouldSend(eventBuffer[i].event)
    BY DEF A, After
  <2>2. \A n \in DOMAIN missed : IsNumber(Hub, missed[n], position + n)
    <3>. TAKE n \in DOMAIN missed
    <3>1. PICK i \in A : missed[n] = eventBuffer[i] /\ number(i) = position + n
      BY <1>13, <1>14
    <3>. HIDE DEF missed
    <3>. QED
      BY <1>16, <2>1, <3>1 DEF IsNumber
  <2>. HIDE DEF missed
  <2>. QED
    BY <2>2 DEF Consecutive
<1>18. \A n \in DOMAIN missed : \E i \in Mine(eventBuffer) : missed[n] = eventBuffer[i]
  <2>. TAKE n \in DOMAIN missed
  <2>1. PICK i \in A : missed[n] = eventBuffer[i]
    BY <1>13, <1>14
  <2>. HIDE DEF missed
  <2>. QED
    BY <1>3, <2>1
<1>. HIDE DEF missed
<1>. QED
  BY <1>12, <1>15, <1>17, <1>18

-----------------------------------------------------------------------------
(* The other steps *)

LEMMA HubSame ==
  ASSUME UNCHANGED <<nextSeq, eventBuffer, sent>>
  PROVE  Hub' = Hub /\ (RingInv => RingInv') /\ OldestBuffered' = OldestBuffered
BY DEF Hub, RingInv, OldestBuffered

LEMMA CursorSame ==
  ASSUME UNCHANGED <<boot, nextSeq, eventBuffer, sent, cursor>>
  PROVE  (Resumable(cursor)' <=> Resumable(cursor)) /\ (CursorInv /\ position' = position => CursorInv')
<1>1. Hub' = Hub /\ OldestBuffered' = OldestBuffered
  BY HubSame
<1>2. Resumable(cursor)' <=> Resumable(cursor)
  BY <1>1 DEF Resumable
<1>. QED
  BY <1>1, <1>2 DEF CursorInv

LEMMA ConnectionIs ==
  ASSUME NEW E, StreamTypes(E)
  PROVE  connection = [open |-> connection.open, replay |-> connection.replay, queueing |-> connection.queueing,
                       pending |-> connection.pending]
         /\ connection.open \in BOOLEAN /\ connection.queueing \in BOOLEAN
BY DEF StreamTypes

LEMMA SubscribeKeeps ==
  ASSUME NEW E, StreamInv(E), Subscribe
  PROVE  StreamInv(E)'
<1>. USE DEF StreamInv
<1>. DEFINE resume == IF Resumable(cursor) THEN "ok" ELSE "gap"
            replay == IF Resumable(cursor) THEN Missed(cursor) ELSE <<>>
<1>1. /\ connection' = [open |-> TRUE, replay |-> replay, queueing |-> replay # <<>>, pending |-> <<>>]
      /\ wire' = <<Verdict(resume, sent)>>
      /\ UNCHANGED <<boot, nextSeq, eventBuffer, cursor, sent, position, told>>
  BY DEF Subscribe, progress
<1>2. sent \in Nat /\ position \in 0 .. sent
  BY DEF StreamTypes
<1>3. /\ replay \in Seq(EntryOf(E))
      /\ Resumable(cursor) => Len(replay) = sent - position
      /\ ~Resumable(cursor) => replay = <<>>
      /\ Consecutive(Hub, replay, sent - Len(replay))
      /\ Len(replay) \in Nat
  <2>1. CASE Resumable(cursor)
    <3>1. replay = Missed(cursor) /\ Mark(Hub, cursor.seq, position)
      BY <2>1 DEF CursorInv
    <3>2. replay \in Seq(EntryOf(E)) /\ Len(replay) = sent - position /\ Consecutive(Hub, replay, position)
      BY <2>1, <3>1, MissedIsTheRest
    <3>3. sent - Len(replay) = position
      BY <1>2, <3>2
    <3>. QED
      BY <1>2, <2>1, <3>2, <3>3
  <2>2. CASE ~Resumable(cursor)
    BY <2>2, EmptyWays
  <2>. QED
    BY <2>1, <2>2
<1>4. Hub' = Hub /\ RingInv' /\ CursorInv' /\ (Resumable(cursor)' <=> Resumable(cursor))
  BY <1>1, HubSame, CursorSame
<1>5. /\ Len(wire') = 1 /\ wire' # <<>> /\ DOMAIN wire' = {1}
      /\ wire'[1] = [verdict |-> resume, event |-> Silence, seq |-> 0, number |-> sent]
  BY <1>1 DEF Verdict
<1>6. wire' \in Seq(FrameOf(E))
  <2>1. Verdict(resume, sent) \in FrameOf(E)
    BY <1>2 DEF Verdict, FrameOf
  <2>. QED
    BY <1>1, <2>1
<1>. HIDE DEF replay
<1>7. BeforePending' = sent /\ BeforeReplay' = sent - Len(replay) /\ BeforeWire' = sent - Len(replay) - 1
  BY <1>1, <1>2, <1>3, <1>5 DEF BeforePending, BeforeReplay, BeforeWire
<1>8. InOrder(Hub', wire', BeforeWire')
  <2>1. wire'[1].verdict # "none" /\ wire'[1] = Verdict(wire'[1].verdict, wire'[1].number)
    BY <1>5 DEF Verdict
  <2>. QED
    BY <1>5, <2>1 DEF InOrder
<1>9. Consecutive(Hub', connection'.replay, BeforeReplay') /\ Consecutive(Hub', connection'.pending, BeforePending')
  BY <1>1, <1>3, <1>4, <1>7, EmptyWays
<1>10. FlowInv'
  <2>1. connection'.open /\ (~connection'.queueing => connection'.replay = <<>>) /\ connection'.pending = <<>>
    BY <1>1
  <2>2. wire'[1].verdict = resume /\ wire'[1].number = sent
    BY <1>5
  <2>3. Resumable(cursor) => position' = BeforeWire' + 1
    BY <1>1, <1>2, <1>3, <1>7
  <2>4. ~Resumable(cursor) => sent = BeforeWire' + 1 /\ position' <= sent
    BY <1>1, <1>2, <1>3, <1>7
  <2>. QED
    BY <1>4, <1>5, <1>8, <1>9, <2>1, <2>2, <2>3, <2>4 DEF FlowInv
<1>. QED
  BY <1>1, <1>3, <1>4, <1>6, <1>10 DEF StreamTypes, EntryOf, FrameOf

LEMMA WriteReplayKeeps ==
  ASSUME NEW E, StreamInv(E), WriteReplay
  PROVE  StreamInv(E)'
<1>. USE DEF StreamInv
<1>. DEFINE frame == Frame(Head(connection.replay))
<1>1. /\ connection.replay # <<>> /\ wire' = Append(wire, frame)
      /\ connection' = [connection EXCEPT !.replay = Tail(@)]
      /\ UNCHANGED <<boot, nextSeq, eventBuffer, cursor, sent, position, told>>
  BY DEF WriteReplay, progress
<1>2. /\ connection.pending \in Seq(EntryOf(E)) /\ connection.replay \in Seq(EntryOf(E)) /\ wire \in Seq(FrameOf(E))
      /\ Len(connection.pending) \in Nat /\ Len(connection.replay) \in Nat /\ Len(wire) \in Nat
      /\ BeforePending \in Int /\ BeforeReplay \in Int /\ BeforeWire \in Int
      /\ BeforeReplay + Len(connection.replay) = BeforePending
      /\ BeforeWire + Len(wire) = BeforeReplay
  BY FlowTypes
<1>3. /\ connection'.open = connection.open /\ connection'.queueing = connection.queueing
      /\ connection'.pending = connection.pending /\ connection'.replay = Tail(connection.replay)
  BY <1>1, ConnectionIs
<1>4. Len(connection'.replay) = Len(connection.replay) - 1 /\ Tail(connection.replay) \in Seq(EntryOf(E))
      /\ Head(connection.replay) \in EntryOf(E)
  BY <1>1, <1>2, <1>3, TailAt
<1>5. Hub' = Hub /\ RingInv' /\ CursorInv' /\ (Resumable(cursor)' <=> Resumable(cursor))
  BY <1>1, HubSame, CursorSame
<1>6. frame \in FrameOf(E) /\ frame.verdict = "none"
  BY <1>4 DEF Frame, FrameOf, EntryOf
<1>7. /\ Consecutive(Hub, Tail(connection.replay), BeforeReplay + 1)
      /\ IsNumber(Hub, frame, BeforeReplay + 1)
  <2>1. ASSUME NEW entries, entries = connection.replay, NEW n, n = BeforeReplay, NEW hub, hub = Hub
        PROVE  IsNumber(hub, Head(entries), n + 1) /\ Consecutive(hub, Tail(entries), n + 1)
    <3>1. Consecutive(hub, entries, n) /\ n \in Int /\ entries \in Seq(EntryOf(E)) /\ entries # <<>>
      BY <1>1, <1>2, <2>1 DEF FlowInv
    <3>. QED
      BY <3>1, ConsecutiveTail
  <2>. QED
    BY <2>1 DEF IsNumber, Frame
<1>. HIDE DEF frame
<1>8. /\ Len(wire') = Len(wire) + 1 /\ wire' # <<>> /\ wire' \in Seq(FrameOf(E))
      /\ wire # <<>> => wire'[1] = wire[1]
      /\ wire = <<>> => wire'[1] = frame
  <2>1. /\ wire' \in Seq(FrameOf(E)) /\ Len(wire') = Len(wire) + 1 /\ DOMAIN wire = 1 .. Len(wire)
        /\ \A i \in DOMAIN wire : wire'[i] = wire[i]
        /\ wire'[Len(wire) + 1] = frame
    BY <1>1, <1>2, <1>6, AppendAt
  <2>. QED
    BY <1>2, <2>1, LenOfEmpty
<1>9. BeforePending' = BeforePending /\ BeforeReplay' = BeforeReplay + 1 /\ BeforeWire' = BeforeWire
  <2>1. BeforePending' = BeforePending
    BY <1>1, <1>3 DEF BeforePending
  <2>2. BeforeReplay' = BeforeReplay + 1
    BY <1>2, <1>4, <2>1 DEF BeforeReplay
  <2>3. BeforeWire' = BeforeWire
    BY <1>2, <1>8, <2>2 DEF BeforeWire
  <2>. QED
    BY <2>1, <2>2, <2>3
<1>10. InOrder(Hub, Append(wire, frame), BeforeWire)
  <2>1. ASSUME NEW hub, hub = Hub, NEW frames, frames = wire, NEW n, n = BeforeWire
        PROVE  InOrder(hub, Append(frames, frame), n)
    <3>1. InOrder(hub, frames, n) /\ IsNumber(hub, frame, n + Len(frames) + 1) /\ frames \in Seq(FrameOf(E)) /\ n \in Int
      BY <1>2, <1>7, <2>1 DEF FlowInv
    <3>. QED
      BY <1>6, <3>1, InOrderAppend
  <2>. QED
    BY <2>1
<1>11. connection.open /\ connection.queueing
  BY <1>1 DEF FlowInv, Closed
<1>12. FlowInv'
  <2>1. Consecutive(Hub', connection'.pending, BeforePending') /\ Consecutive(Hub', connection'.replay, BeforeReplay')
        /\ InOrder(Hub', wire', BeforeWire')
    BY <1>1, <1>3, <1>5, <1>7, <1>9, <1>10 DEF FlowInv
  <2>2. UNCHANGED position /\ BeforeWire' = BeforeWire /\ wire' # <<>> /\ connection'.open /\ connection'.queueing
        /\ (wire # <<>> => wire'[1] = wire[1]) /\ (wire = <<>> => wire'[1].verdict = "none")
    BY <1>1, <1>3, <1>6, <1>8, <1>9, <1>11
  <2>. QED
    BY <1>5, <1>11, <2>1, <2>2 DEF FlowInv
<1>13. connection' \in [open : BOOLEAN, replay : Seq(EntryOf(E)), queueing : BOOLEAN, pending : Seq(EntryOf(E))]
  BY <1>1, <1>2, <1>4, ConnectionIs
<1>. QED
  BY <1>1, <1>5, <1>8, <1>12, <1>13 DEF StreamTypes, EntryOf, FrameOf

LEMMA DrainPendingKeeps ==
  ASSUME NEW E, StreamInv(E), DrainPending
  PROVE  StreamInv(E)'
<1>. USE DEF StreamInv
<1>1. /\ connection.queueing /\ connection.replay = <<>>
      /\ UNCHANGED <<boot, nextSeq, eventBuffer, wire, cursor, sent, position, told>>
  BY DEF DrainPending, progress
<1>2. /\ connection.pending \in Seq(EntryOf(E)) /\ Len(connection.pending) \in Nat /\ sent \in Nat
      /\ BeforePending + Len(connection.pending) = sent /\ BeforePending \in Int
      /\ BeforeReplay + Len(connection.replay) = BeforePending /\ BeforeReplay \in Int
  BY FlowTypes
<1>3. Hub' = Hub /\ RingInv' /\ CursorInv' /\ (Resumable(cursor)' <=> Resumable(cursor))
  BY <1>1, HubSame, CursorSame
<1>4. /\ connection'.open = connection.open /\ connection'.open
      /\ connection'.replay = connection.pending /\ connection'.pending = <<>>
      /\ ~connection'.queueing => connection.pending = <<>>
      /\ connection' \in [open : BOOLEAN, replay : Seq(EntryOf(E)), queueing : BOOLEAN, pending : Seq(EntryOf(E))]
  <2>1. connection.open
    BY <1>1 DEF FlowInv, Closed
  <2>2. CASE connection.pending = <<>>
    <3>1. connection' = [connection EXCEPT !.queueing = FALSE]
      BY <2>2 DEF DrainPending
    <3>. QED
      BY <1>1, <1>2, <2>1, <2>2, <3>1, ConnectionIs
  <2>3. CASE connection.pending # <<>>
    <3>1. connection' = [connection EXCEPT !.replay = connection.pending, !.pending = <<>>]
      BY <2>3 DEF DrainPending
    <3>2. connection' = [open |-> connection.open, replay |-> connection.pending,
                         queueing |-> connection.queueing, pending |-> <<>>]
      BY <3>1, ConnectionIs
    <3>3. connection.open \in BOOLEAN /\ connection.queueing \in BOOLEAN /\ <<>> \in Seq(EntryOf(E))
      BY ConnectionIs
    <3>. QED
      BY <1>1, <1>2, <2>1, <3>2, <3>3
  <2>. QED
    BY <2>2, <2>3
<1>5. BeforePending' = sent /\ BeforeReplay' = BeforePending /\ BeforeWire' = BeforeWire
  <2>1. Len(connection.replay) = 0 /\ Len(connection'.pending) = 0
    BY <1>1, <1>4
  <2>2. BeforePending' = sent
    BY <1>1, <1>2, <2>1 DEF BeforePending
  <2>3. BeforeReplay' = BeforePending
    BY <1>2, <1>4, <2>2 DEF BeforeReplay
  <2>4. BeforeReplay = BeforePending
    BY <1>2, <2>1
  <2>5. BeforeWire' = BeforeWire
    BY <1>1, <2>3, <2>4 DEF BeforeWire
  <2>. QED
    BY <2>2, <2>3, <2>5
<1>6. FlowInv'
  <2>1. Consecutive(Hub', connection'.pending, BeforePending') /\ Consecutive(Hub', connection'.replay, BeforeReplay')
        /\ InOrder(Hub', wire', BeforeWire')
    BY <1>1, <1>3, <1>4, <1>5, EmptyWays DEF FlowInv
  <2>. QED
    BY <1>1, <1>3, <1>4, <1>5, <2>1 DEF FlowInv
<1>. QED
  BY <1>1, <1>3, <1>4, <1>6 DEF StreamTypes, EntryOf, FrameOf

LEMMA HandleFrameKeeps ==
  ASSUME NEW E, StreamInv(E), HandleFrame
  PROVE  /\ StreamInv(E)'
         /\ Head(wire).verdict = "none" => position' = position + 1 /\ position' \in 1 .. sent /\ UNCHANGED told
         /\ Head(wire).verdict = "gap" => position' \in position .. sent /\ told' = ~told
         /\ Head(wire).verdict = "ok" => UNCHANGED <<position, told>>
         /\ cursor' = cursor \/ (cursor'.seq \in 1 .. nextSeq - 1 /\ cursor'.boot = boot)
         /\ Head(wire) \in FrameOf(E)
         /\ Head(wire).verdict = "none" => IsNumber(Hub, Head(wire), position + 1)
<1>. USE DEF StreamInv
<1>1. /\ wire # <<>> /\ wire' = Tail(wire) /\ UNCHANGED <<boot, nextSeq, eventBuffer, connection, sent>>
      /\ Head(wire).verdict = "none" =>
           cursor' = [boot |-> boot, seq |-> Head(wire).seq] /\ position' = Head(wire).number /\ told' = told
      /\ Head(wire).verdict = "gap" =>
           told' = ~told /\ position' = Head(wire).number /\ cursor' = cursor
      /\ Head(wire).verdict = "ok" => UNCHANGED <<cursor, position, told>>
  BY DEF HandleFrame, Arrived
<1>2. /\ wire \in Seq(FrameOf(E)) /\ Len(wire) \in Nat /\ sent \in Nat /\ position \in Nat
      /\ Len(connection.pending) \in Nat /\ Len(connection.replay) \in Nat
      /\ BeforePending \in Int /\ BeforeReplay \in Int /\ BeforeWire \in Int
      /\ BeforePending + Len(connection.pending) = sent
      /\ BeforeReplay + Len(connection.replay) = BeforePending
      /\ BeforeWire + Len(wire) = BeforeReplay
  BY FlowTypes
<1>3. /\ Tail(wire) \in Seq(FrameOf(E)) /\ Len(Tail(wire)) = Len(wire) - 1 /\ Len(wire) \in Nat \ {0}
      /\ Head(wire) = wire[1] /\ Head(wire) \in FrameOf(E)
  BY <1>1, <1>2, TailAt
<1>4. connection.open
  BY <1>1 DEF FlowInv
<1>5. /\ Head(wire).verdict = "none" => IsNumber(Hub, Head(wire), BeforeWire + 1)
      /\ InOrder(Hub, Tail(wire), BeforeWire + 1)
      /\ Tail(wire) # <<>> => Tail(wire)[1].verdict = "none"
  <2>1. ASSUME NEW frames, frames = wire, NEW n, n = BeforeWire, NEW hub, hub = Hub
        PROVE  /\ Head(frames).verdict = "none" => IsNumber(hub, Head(frames), n + 1)
               /\ InOrder(hub, Tail(frames), n + 1)
               /\ Tail(frames) # <<>> => Tail(frames)[1].verdict = "none"
    <3>1. InOrder(hub, frames, n) /\ frames \in Seq(FrameOf(E)) /\ n \in Int /\ frames # <<>>
      BY <1>1, <1>2, <2>1 DEF FlowInv
    <3>. QED
      BY <3>1, InOrderTail
  <2>. QED
    BY <2>1
<1>6. Hub' = Hub /\ RingInv' /\ OldestBuffered' = OldestBuffered
  BY <1>1, HubSame
<1>7. BeforePending' = BeforePending /\ BeforeReplay' = BeforeReplay /\ BeforeWire' = BeforeWire + 1
  <2>1. BeforePending' = BeforePending /\ BeforeReplay' = BeforeReplay
    BY <1>1 DEF BeforePending, BeforeReplay
  <2>. QED
    BY <1>1, <1>2, <1>3, <2>1 DEF BeforeWire
<1>8. BeforeWire + 1 \in Int /\ BeforeWire + 1 <= sent
  BY <1>2, <1>3
<1>9. CASE Head(wire).verdict = "none"
  <2>1. /\ position = BeforeWire /\ Head(wire).number = BeforeWire + 1
        /\ Mark(Hub, Head(wire).seq, Head(wire).number) /\ Head(wire).seq \in 1 .. nextSeq - 1
    <3>1. IsNumber(Hub, Head(wire), BeforeWire + 1)
      BY <1>5, <1>9
    <3>2. position = BeforeWire
      BY <1>1, <1>3, <1>4, <1>9 DEF FlowInv
    <3>. QED
      BY <3>1, <3>2 DEF IsNumber, Mark, Hub
  <2>2. position' = position + 1 /\ position' \in 1 .. sent
    BY <1>1, <1>2, <1>8, <1>9, <2>1
  <2>3. cursor'.boot = boot /\ cursor'.seq = Head(wire).seq /\ cursor' \in [boot : Nat, seq : Nat]
    BY <1>1, <1>3, <1>9 DEF StreamTypes, FrameOf
  <2>4. CursorInv'
    <3>1. cursor'.boot <= boot' /\ boot' = boot /\ nextSeq' = nextSeq
      BY <1>1, <2>3 DEF StreamTypes
    <3>2. Mark(Hub', cursor'.seq, position')
      BY <1>1, <1>6, <1>9, <2>1, <2>3
    <3>. QED
      BY <2>1, <2>3, <3>1, <3>2 DEF CursorInv
  <2>5. FlowInv'
    <3>1. Consecutive(Hub', connection'.pending, BeforePending') /\ Consecutive(Hub', connection'.replay, BeforeReplay')
          /\ InOrder(Hub', wire', BeforeWire')
      BY <1>1, <1>5, <1>6, <1>7 DEF FlowInv
    <3>2. position' = BeforeWire' /\ (wire' # <<>> => wire'[1].verdict = "none")
      BY <1>1, <1>5, <1>7, <2>1, <2>2
    <3>. QED
      BY <1>1, <1>4, <3>1, <3>2 DEF FlowInv
  <2>6. StreamTypes(E)'
    BY <1>1, <1>2, <1>3, <1>9, <2>2, <2>3 DEF StreamTypes, EntryOf, FrameOf
  <2>. QED
    BY <1>1, <1>3, <1>5, <1>6, <1>9, <2>1, <2>2, <2>3, <2>4, <2>5, <2>6
<1>10. CASE Head(wire).verdict = "gap"
  <2>1. Head(wire).number = BeforeWire + 1 /\ position <= Head(wire).number /\ ~Resumable(cursor)
    BY <1>1, <1>3, <1>4, <1>10 DEF FlowInv
  <2>2. position' \in position .. sent /\ position' \in Nat /\ position' = BeforeWire'
    <3>1. position' = BeforeWire + 1 /\ position <= BeforeWire + 1
      BY <1>1, <1>10, <2>1
    <3>2. position \in Nat /\ sent \in Nat /\ position' = BeforeWire'
      BY <1>2, <1>7, <3>1
    <3>. QED
      BY <1>8, <3>1, <3>2
  <2>3. ~Resumable(cursor)'
    BY <1>1, <1>6, <1>10, <2>1 DEF Resumable
  <2>4. CursorInv'
    BY <1>1, <1>10, <2>3 DEF CursorInv
  <2>5. FlowInv'
    BY <1>1, <1>4, <1>5, <1>6, <1>7, <2>2 DEF FlowInv
  <2>6. StreamTypes(E)'
    <3>1. told' \in BOOLEAN
      BY <1>1, <1>10, Zenon
    <3>. QED
      BY <1>1, <1>2, <1>3, <1>10, <2>2, <3>1 DEF StreamTypes, EntryOf, FrameOf
  <2>7. told' = ~told /\ cursor' = cursor
    BY <1>1, <1>10
  <2>8. Head(wire).verdict # "none" /\ Head(wire).verdict # "ok"
    BY <1>10
  <2>9. StreamInv(E)'
    BY <1>6, <2>4, <2>5, <2>6
  <2>10. Head(wire) \in FrameOf(E) /\ position' \in position .. sent
    BY <1>3, <2>2
  <2>. QED
    BY <2>7, <2>8, <2>9, <2>10, Zenon
<1>11. CASE Head(wire).verdict = "ok"
  <2>1. position = BeforeWire + 1
    BY <1>1, <1>3, <1>4, <1>11 DEF FlowInv
  <2>2. position' = BeforeWire'
    BY <1>1, <1>7, <1>11, <2>1
  <2>3. CursorInv'
    BY <1>1, <1>11, CursorSame
  <2>5. FlowInv'
    BY <1>1, <1>4, <1>5, <1>6, <1>7, <2>2 DEF FlowInv
  <2>6. StreamTypes(E)'
    BY <1>1, <1>2, <1>3, <1>11 DEF StreamTypes, EntryOf, FrameOf
  <2>7. cursor' = cursor /\ position' = position /\ told' = told
    BY <1>1, <1>11
  <2>8. Head(wire).verdict # "none" /\ Head(wire).verdict # "gap"
    BY <1>11
  <2>9. StreamInv(E)'
    BY <1>6, <2>3, <2>5, <2>6
  <2>. QED
    BY <1>3, <2>7, <2>8, <2>9
<1>. QED
  BY <1>3, <1>9, <1>10, <1>11 DEF FrameOf

LEMMA ClosedFlow ==
  ASSUME connection' = Closed, wire' = <<>>
  PROVE  FlowInv'
BY EmptyWays DEF FlowInv, Closed

LEMMA DropKeeps ==
  ASSUME NEW E, StreamInv(E), Drop
  PROVE  StreamInv(E)'
<1>. USE DEF StreamInv
<1>1. /\ connection' = Closed /\ wire' = <<>>
      /\ UNCHANGED <<boot, nextSeq, eventBuffer, cursor, sent, position, told>>
  BY DEF Drop, progress
<1>2. RingInv' /\ CursorInv' /\ FlowInv'
  BY <1>1, HubSame, CursorSame, ClosedFlow
<1>. QED
  BY <1>1, <1>2 DEF StreamTypes, Closed, EntryOf, FrameOf

LEMMA HubRestartKeeps ==
  ASSUME NEW E, StreamInv(E), HubRestart
  PROVE  StreamInv(E)'
<1>. USE DEF StreamInv
<1>1. /\ connection' = Closed /\ wire' = <<>> /\ boot' = boot + 1 /\ nextSeq' = 1 /\ eventBuffer' = <<>>
      /\ UNCHANGED <<cursor, sent, position, told>>
  BY DEF HubRestart, progress
<1>2. FlowInv'
  BY <1>1, ClosedFlow
<1>3. RingInv'
  BY <1>1, CapacityAssumption DEF RingInv, Mine
<1>4. CursorInv'
  <2>1. cursor'.boot < boot' /\ cursor'.boot \in Nat /\ boot' \in Nat
    BY <1>1 DEF CursorInv, StreamTypes
  <2>. QED
    BY <2>1 DEF CursorInv, Resumable
<1>. QED
  BY <1>1, <1>2, <1>3, <1>4 DEF StreamTypes, Closed, EntryOf, FrameOf

LEMMA InitStream ==
  ASSUME NEW E, Init
  PROVE  StreamInv(E)
<1>. USE DEF Init
<1>1. StreamTypes(E)
  <2>1. <<>> \in Seq(EntryOf(E)) /\ <<>> \in Seq(FrameOf(E))
    OBVIOUS
  <2>2. position \in 0 .. sent /\ sent \in Nat /\ boot \in Nat \ {0} /\ nextSeq \in Nat \ {0}
    OBVIOUS
  <2>3. connection \in [open : BOOLEAN, replay : Seq(EntryOf(E)), queueing : BOOLEAN, pending : Seq(EntryOf(E))]
    BY <2>1 DEF Closed
  <2>4. cursor \in [boot : Nat, seq : Nat] /\ told \in BOOLEAN
    BY DEF NoCursor
  <2>. QED
    BY <2>1, <2>2, <2>3, <2>4 DEF StreamTypes
<1>2. RingInv
  BY CapacityAssumption DEF RingInv, Mine
<1>3. FlowInv
  BY EmptyWays DEF FlowInv, Closed
<1>4. CursorInv
  BY DEF CursorInv, Resumable, NoCursor
<1>. QED
  BY <1>1, <1>2, <1>3, <1>4 DEF StreamInv

-----------------------------------------------------------------------------
(* EventStream *)

Bounds == boot <= MaxBoots /\ nextSeq <= MaxEvents + 1 /\ cursor.seq <= MaxEvents

Inv == StreamInv(Events) /\ Bounds

(* A step that keeps the invariant keeps the feed's promise. *)
LEMMA BroadcastFeeds ==
  ASSUME NEW event, Broadcast(event)
  PROVE  [Feed!Next]_Feed!feed
<1>1. UNCHANGED <<position, told>> /\ (sent' = sent \/ sent' = sent + 1)
  BY DEF Broadcast
<1>. QED
  BY <1>1 DEF Feed!Next, Feed!Broadcast, Feed!feed

LEMMA HandleFeeds ==
  ASSUME NEW E, StreamInv(E), HandleFrame
  PROVE  [Feed!Next]_Feed!feed
<1>1. /\ sent' = sent /\ sent \in Nat /\ position \in 0 .. sent
      /\ Head(wire).verdict \in {"ok", "gap", "none"}
  BY HandleFrameKeeps DEF HandleFrame, StreamInv, StreamTypes, FrameOf
<1>2. CASE Head(wire).verdict = "none"
  <2>1. position' = position + 1 /\ position' \in 1 .. sent /\ told' = told
    BY <1>2, HandleFrameKeeps
  <2>2. position < sent
    BY <1>1, <2>1
  <2>. QED
    BY <1>1, <2>1, <2>2 DEF Feed!Next, Feed!HandleNext
<1>3. CASE Head(wire).verdict = "gap"
  <2>1. position' \in position .. sent
    BY <1>3, HandleFrameKeeps
  <2>2. told' = ~told
    BY <1>3, HandleFrameKeeps
  <2>3. Feed!TellGap
    BY <1>1, <2>1, <2>2 DEF Feed!TellGap
  <2>. QED
    BY <2>3 DEF Feed!Next
<1>4. CASE Head(wire).verdict = "ok"
  <2>1. UNCHANGED <<position, told>>
    BY <1>4, HandleFrameKeeps
  <2>. QED
    BY <1>1, <2>1 DEF Feed!feed
<1>. QED
  BY <1>1, <1>2, <1>3, <1>4

LEMMA InvInit == Init => Inv
<1>. SUFFICES ASSUME Init PROVE Inv
  OBVIOUS
<1>1. StreamInv(Events)
  BY InitStream
<1>. QED
  BY <1>1, BoundsAssumption DEF Inv, Bounds, Init, NoCursor

LEMMA InvNext ==
  ASSUME Inv, [Next]_vars
  PROVE  Inv' /\ [Feed!Next]_Feed!feed
<1>. USE DEF Inv, Bounds
<1>1. StreamTypes(Events)
  BY DEF StreamInv
<1>2. ASSUME NEW event \in Events \cup {Elsewhere}, Emit(event)
      PROVE  Inv' /\ [Feed!Next]_Feed!feed
  <2>1. Broadcast(event) /\ nextSeq <= MaxEvents
    BY <1>2 DEF Emit
  <2>2. StreamInv(Events)'
    BY <2>1, BroadcastKeeps
  <2>3. Bounds'
    BY <1>1, <2>1, BoundsAssumption DEF Broadcast, StreamTypes
  <2>. QED
    BY <2>1, <2>2, <2>3, BroadcastFeeds
<1>3. CASE Subscribe
  BY <1>3, SubscribeKeeps DEF Subscribe, progress, Feed!feed
<1>4. CASE WriteReplay
  BY <1>4, WriteReplayKeeps DEF WriteReplay, progress, Feed!feed
<1>5. CASE DrainPending
  BY <1>5, DrainPendingKeeps DEF DrainPending, progress, Feed!feed
<1>6. CASE HandleFrame
  <2>1. StreamInv(Events)' /\ (cursor' = cursor \/ cursor'.seq \in 1 .. nextSeq - 1)
    BY <1>6, HandleFrameKeeps
  <2>2. UNCHANGED <<boot, nextSeq>>
    BY <1>6 DEF HandleFrame
  <2>3. Bounds'
    BY <1>1, <2>1, <2>2, BoundsAssumption DEF StreamTypes
  <2>. QED
    BY <1>6, <2>1, <2>3, HandleFeeds
<1>7. CASE Drop
  BY <1>7, DropKeeps DEF Drop, progress, Feed!feed
<1>8. CASE Restart
  <2>1. HubRestart /\ boot < MaxBoots
    BY <1>8 DEF Restart
  <2>2. StreamInv(Events)'
    BY <2>1, HubRestartKeeps
  <2>3. Bounds'
    BY <1>1, <2>1, BoundsAssumption DEF HubRestart, StreamTypes
  <2>. QED
    BY <2>1, <2>2, <2>3 DEF HubRestart, progress, Feed!feed
<1>9. CASE UNCHANGED vars
  <2>1. UNCHANGED <<boot, nextSeq, eventBuffer, connection, wire, cursor, sent, position, told>>
    BY <1>9 DEF vars, stream, progress
  <2>2. Hub' = Hub /\ RingInv' /\ (Resumable(cursor)' <=> Resumable(cursor)) /\ CursorInv'
    BY <2>1, HubSame, CursorSame DEF StreamInv
  <2>3. UNCHANGED <<BeforePending, BeforeReplay, BeforeWire>>
    BY <2>1 DEF BeforePending, BeforeReplay, BeforeWire
  <2>4. FlowInv'
    BY <2>1, <2>2, <2>3 DEF StreamInv, FlowInv
  <2>. QED
    BY <2>1, <2>2, <2>4 DEF StreamInv, StreamTypes, EntryOf, FrameOf, Feed!feed
<1>. QED
  BY <1>2, <1>3, <1>4, <1>5, <1>6, <1>7, <1>8, <1>9 DEF Next

LEMMA SeqOf ==
  ASSUME NEW S, NEW T, NEW s \in Seq(S), \A i \in DOMAIN s : s[i] \in T
  PROVE  s \in Seq(T)
OBVIOUS

LEMMA InvTypes == Inv => TypeOK
<1>. SUFFICES ASSUME Inv PROVE TypeOK
  OBVIOUS
<1>. USE DEF Inv, Bounds, StreamInv
<1>1. boot \in 1 .. MaxBoots /\ nextSeq \in 1 .. (MaxEvents + 1) /\ sent \in Nat /\ position \in 0 .. sent /\ told \in BOOLEAN
  BY BoundsAssumption DEF StreamTypes
<1>2. \A entry \in EntryOf(Events) : entry.seq \in 1 .. nextSeq - 1 => entry \in Entry
  BY <1>1, BoundsAssumption DEF EntryOf, Entry
<1>3. eventBuffer \in Seq(Entry) /\ Len(eventBuffer) <= Capacity
  <2>1. \A i \in DOMAIN eventBuffer : eventBuffer[i] \in Entry
    BY <1>2, RingEntries
  <2>2. eventBuffer \in Seq(EntryOf(Events))
    BY DEF StreamTypes
  <2>. QED
    BY <2>1, <2>2, SeqOf DEF RingInv
<1>4. ASSUME NEW entries \in Seq(EntryOf(Events)), NEW n, Consecutive(Hub, entries, n)
      PROVE  entries \in Seq(Entry)
  <2>1. \A i \in DOMAIN entries : entries[i] \in EntryOf(Events)
    OBVIOUS
  <2>2. \A i \in DOMAIN entries : entries[i].seq \in 1 .. nextSeq - 1
    BY <1>4 DEF Consecutive, IsNumber, Mark, Hub
  <2>3. \A i \in DOMAIN entries : entries[i] \in Entry
    BY <1>2, <2>1, <2>2
  <2>. QED
    BY <2>3, SeqOf
<1>5. connection \in [open : BOOLEAN, replay : Seq(Entry), queueing : BOOLEAN, pending : Seq(Entry)]
  <2>1. connection.replay \in Seq(Entry) /\ connection.pending \in Seq(Entry)
    BY <1>4, FlowTypes DEF FlowInv
  <2>2. /\ connection = [open |-> connection.open, replay |-> connection.replay, queueing |-> connection.queueing,
                         pending |-> connection.pending]
        /\ connection.open \in BOOLEAN /\ connection.queueing \in BOOLEAN
    BY ConnectionIs
  <2>. QED
    BY <2>1, <2>2
<1>6. wire \in Seq([verdict : {"ok", "gap", "none"}, event : Events \cup {Silence},
                    seq : 0 .. MaxEvents, number : Nat])
  <2>. DEFINE F == [verdict : {"ok", "gap", "none"}, event : Events \cup {Silence}, seq : 0 .. MaxEvents, number : Nat]
  <2>1. ASSUME NEW i \in DOMAIN wire
        PROVE  wire[i] \in F
    <3>1. wire[i] \in FrameOf(Events) /\ InOrder(Hub, wire, BeforeWire)
      BY <2>1 DEF StreamTypes, FlowInv
    <3>2. CASE wire[i].verdict = "none"
      <4>1. IsNumber(Hub, wire[i], BeforeWire + i)
        BY <2>1, <3>1, <3>2 DEF InOrder
      <4>2. wire[i].seq \in 0 .. MaxEvents /\ wire[i].event # Elsewhere
        BY <1>1, <4>1, BoundsAssumption DEF IsNumber, Mark, Hub, ShouldSend
      <4>. QED
        BY <3>1, <4>2 DEF FrameOf
    <3>3. CASE wire[i].verdict # "none"
      <4>1. wire[i] = Verdict(wire[i].verdict, wire[i].number)
        BY <2>1, <3>1, <3>3 DEF InOrder
      <4>2. wire[i].event = Silence /\ wire[i].seq = 0
        BY <4>1 DEF Verdict
      <4>. QED
        BY <3>1, <4>2, BoundsAssumption DEF FrameOf
    <3>. QED
      BY <3>2, <3>3
  <2>2. wire \in Seq(FrameOf(Events))
    BY DEF StreamTypes
  <2>. HIDE DEF F
  <2>3. wire \in Seq(F)
    BY <2>1, <2>2, SeqOf
  <2>. QED
    BY <2>3 DEF F
<1>7. cursor \in [boot : 0 .. MaxBoots, seq : 0 .. MaxEvents]
  BY <1>1, BoundsAssumption DEF StreamTypes, CursorInv
<1>. QED
  BY <1>1, <1>3, <1>5, <1>6, <1>7 DEF TypeOK

(* The ring, the connection, the frames under way and the cursor are what the code *)
(* declares, whatever the ring's size and however often the connection breaks.     *)
THEOREM StreamTypesOK == Spec => []TypeOK
<1>1. Init => Inv
  BY InvInit
<1>2. Inv /\ [Next]_vars => Inv'
  BY InvNext
<1>3. Inv => TypeOK
  BY InvTypes
<1>. QED
  BY <1>1, <1>2, <1>3, PTL DEF Spec

(* The stream keeps the feed's promise: each event of the subscription is handled  *)
(* once and in order, and none is left out without a gap verdict.                  *)
THEOREM StreamIsAFeed == Spec => IsAFeed
<1>1. Init => Inv /\ Feed!Init
  BY InvInit DEF Init, Feed!Init
<1>2. Inv /\ [Next]_vars => Inv' /\ [Feed!Next]_Feed!feed
  BY InvNext
<1>. QED
  BY <1>1, <1>2, PTL DEF Spec, IsAFeed, Feed!Spec

-----------------------------------------------------------------------------
(* LiveView: rows *)

Body == [created : Nat, invoked : Nat, seq : Nat]

(* Rows as the database has them; only prompts wait to be consumed. *)
IsRows(f) ==
  /\ f = [r \in DOMAIN f |-> f[r]] /\ DOMAIN f \subseteq Rows
  /\ \A r \in DOMAIN f : f[r] \in Body /\ (Queued(f[r]) => r \in Prompts)

Part(f, g) == DOMAIN f \subseteq DOMAIN g /\ \A r \in DOMAIN f : f[r] = g[r]

(* g shows no row as queued that f shows as consumed. *)
Keeps(f, g) == \A r \in DOMAIN f \cap DOMAIN g : Queued(g[r]) => Queued(f[r])

LEMMA OnlyIs ==
  ASSUME NEW f, IsRows(f), NEW S
  PROVE  /\ IsRows(Only(f, S)) /\ DOMAIN Only(f, S) = DOMAIN f \cap S
         /\ \A r \in DOMAIN f \cap S : Only(f, S)[r] = f[r]
         /\ Part(Only(f, S), f)
BY DEF Only, IsRows, Part

LEMMA QueuedIs ==
  ASSUME NEW f, IsRows(f)
  PROVE  /\ DOMAIN Where(f, Queued) = {r \in DOMAIN f : Queued(f[r])}
         /\ IsRows(Where(f, Queued))
         /\ \A r \in DOMAIN Where(f, Queued) : Where(f, Queued)[r] = f[r]
         /\ Part(Where(f, Queued), f)
BY DEF Where, IsRows, Part

LEMMA PartOf ==
  ASSUME NEW f, NEW g, IsRows(g), Part(f, g), f = [r \in DOMAIN f |-> f[r]]
  PROVE  IsRows(f)
BY DEF Part, IsRows

LEMMA MergeIs ==
  ASSUME NEW a, NEW b, IsRows(a), IsRows(b)
  PROVE  /\ IsRows(Merge(a, b)) /\ DOMAIN Merge(a, b) = DOMAIN a \cup DOMAIN b
         /\ \A r \in DOMAIN a \cup DOMAIN b :
              Queued(Merge(a, b)[r]) <=> /\ r \in DOMAIN a => Queued(a[r])
                                         /\ r \in DOMAIN b => Queued(b[r])
<1>. DEFINE m == Merge(a, b)
<1>1. /\ DOMAIN m = DOMAIN a \cup DOMAIN b /\ m = [r \in DOMAIN m |-> m[r]]
      /\ \A r \in DOMAIN a \cup DOMAIN b :
           m[r] = IF r \notin DOMAIN b THEN a[r]
                  ELSE IF r \in DOMAIN a /\ ~Queued(a[r]) /\ Queued(b[r])
                       THEN [b[r] EXCEPT !.invoked = a[r].invoked]
                       ELSE b[r]
  BY DEF Merge
<1>. HIDE DEF m
<1>2. ASSUME NEW r \in DOMAIN a \cup DOMAIN b
      PROVE  /\ m[r] \in Body /\ r \in Rows
             /\ Queued(m[r]) <=> (r \in DOMAIN a => Queued(a[r])) /\ (r \in DOMAIN b => Queued(b[r]))
  <2>1. r \in Rows /\ (r \in DOMAIN a => a[r] \in Body) /\ (r \in DOMAIN b => b[r] \in Body)
    BY DEF IsRows
  <2>2. CASE r \notin DOMAIN b
    BY <1>1, <2>1, <2>2
  <2>3. CASE r \in DOMAIN b /\ r \in DOMAIN a /\ ~Queued(a[r]) /\ Queued(b[r])
    <3>1. m[r] = [b[r] EXCEPT !.invoked = a[r].invoked]
      BY <1>1, <2>3
    <3>2. m[r] \in Body /\ m[r].invoked = a[r].invoked
      BY <2>1, <2>3, <3>1 DEF Body
    <3>. QED
      BY <2>1, <2>3, <3>2 DEF Queued
  <2>4. CASE r \in DOMAIN b /\ ~(r \in DOMAIN a /\ ~Queued(a[r]) /\ Queued(b[r]))
    <3>1. m[r] = b[r]
      BY <1>1, <2>4
    <3>. QED
      BY <2>1, <2>4, <3>1
  <2>. QED
    BY <2>2, <2>3, <2>4
<1>. QED
  BY <1>1, <1>2 DEF IsRows, m

LEMMA TrimIs ==
  ASSUME NEW f, IsRows(f), NEW limit, NEW side
  PROVE  IsRows(Trim(f, limit, side)) /\ Part(Trim(f, limit, side), f)
BY OnlyIs DEF Trim

-----------------------------------------------------------------------------
(* The window *)

IsWindow(w) ==
  /\ w = [rows |-> w.rows, epoch |-> w.epoch, newest |-> w.newest, oldest |-> w.oldest,
          more |-> w.more, stale |-> w.stale, mode |-> w.mode]
  /\ IsRows(w.rows)

(* w shows rows of f, in whatever way its other fields came about. *)
Shows(w, f) == IsWindow(w) /\ Part(w.rows, f)

LEMMA MergeIntoWindowIs ==
  ASSUME NEW w, IsWindow(w), NEW incoming, IsRows(incoming), NEW side \in {"append", "prepend"}, NEW limit
  PROVE  Shows(MergeIntoWindow(w, incoming, side, limit), Merge(w.rows, incoming))
<1>. DEFINE merged == Merge(w.rows, incoming)
            kept == Trim(merged, limit, side)
            v == MergeIntoWindow(w, incoming, side, limit)
<1>1. IsRows(merged) /\ IsRows(kept) /\ Part(kept, merged)
  BY MergeIs, TrimIs DEF IsWindow
<1>2. Part(w.rows, merged) \/ DOMAIN incoming # {}
  BY DEF IsWindow, Part, Merge
<1>3. CASE DOMAIN incoming = {}
  <2>1. v = w
    BY <1>3 DEF MergeIntoWindow
  <2>. QED
    BY <1>2, <1>3, <2>1 DEF Shows
<1>4. CASE DOMAIN incoming # {} /\ DOMAIN kept = DOMAIN merged
  <2>1. v = [w EXCEPT !.rows = kept]
    BY <1>4 DEF MergeIntoWindow
  <2>. HIDE DEF kept, merged
  <2>2. v = [rows |-> kept, epoch |-> w.epoch, newest |-> w.newest, oldest |-> w.oldest,
             more |-> w.more, stale |-> w.stale, mode |-> w.mode]
    BY <2>1 DEF IsWindow
  <2>. HIDE DEF v
  <2>. QED
    BY <1>1, <2>2 DEF Shows, IsWindow, merged, v
<1>5. CASE DOMAIN incoming # {} /\ DOMAIN kept # DOMAIN merged /\ side = "append"
  <2>1. v = [w EXCEPT !.rows = kept, !.more = TRUE, !.oldest = Oldest(kept)]
    BY <1>5 DEF MergeIntoWindow, DropBelow
  <2>. HIDE DEF kept, merged
  <2>2. v = [rows |-> kept, epoch |-> w.epoch, newest |-> w.newest, oldest |-> Oldest(kept),
             more |-> TRUE, stale |-> w.stale, mode |-> w.mode]
    BY <2>1 DEF IsWindow
  <2>. HIDE DEF v
  <2>. QED
    BY <1>1, <2>2 DEF Shows, IsWindow, merged, v
<1>6. CASE DOMAIN incoming # {} /\ DOMAIN kept # DOMAIN merged /\ side = "prepend"
  <2>1. v = [w EXCEPT !.rows = kept, !.stale = TRUE, !.newest = Newest(kept)]
    BY <1>6 DEF MergeIntoWindow
  <2>. HIDE DEF kept, merged
  <2>2. v = [rows |-> kept, epoch |-> w.epoch, newest |-> Newest(kept), oldest |-> w.oldest,
             more |-> w.more, stale |-> TRUE, mode |-> w.mode]
    BY <2>1 DEF IsWindow
  <2>. HIDE DEF v
  <2>. QED
    BY <1>1, <2>2 DEF Shows, IsWindow, merged, v
<1>. QED
  BY <1>3, <1>4, <1>5, <1>6

LEMMA MergeHereIs ==
  ASSUME NEW w, IsWindow(w), NEW incoming, IsRows(incoming)
  PROVE  Shows(MergeHere(w, incoming), Merge(w.rows, incoming))
BY MergeIntoWindowIs DEF MergeHere

LEMMA IngestIs ==
  ASSUME NEW w, IsWindow(w), NEW incoming, IsRows(incoming)
  PROVE  Shows(Ingest(w, incoming), Merge(w.rows, incoming))
<1>. DEFINE merged == MergeHere(w, incoming)
<1>1. Shows(merged, Merge(w.rows, incoming))
  BY MergeHereIs
<1>2. Ingest(w, incoming) = merged \/ Ingest(w, incoming) = [merged EXCEPT !.newest = Max({@, Newest(incoming)})]
  BY DEF Ingest
<1>. HIDE DEF merged
<1>3. ASSUME NEW n PROVE Shows([merged EXCEPT !.newest = n], Merge(w.rows, incoming))
  BY <1>1 DEF Shows, IsWindow
<1>. QED
  BY <1>1, <1>2, <1>3

LEMMA ApplyForwardIs ==
  ASSUME NEW w, IsWindow(w), NEW page, IsRows(page.rows)
  PROVE  Shows(ApplyForward(w, page), Merge(w.rows, page.rows))
<1>. DEFINE merged == MergeHere(w, page.rows)
<1>1. Shows(merged, Merge(w.rows, page.rows))
  BY MergeHereIs
<1>2. \/ ApplyForward(w, page) = [merged EXCEPT !.epoch = page.epoch]
      \/ ApplyForward(w, page) = [merged EXCEPT !.epoch = page.epoch, !.newest = Max({@, page.after})]
  BY DEF ApplyForward
<1>. HIDE DEF merged
<1>3. ASSUME NEW e, NEW n, NEW v, v = [merged EXCEPT !.epoch = e] \/ v = [merged EXCEPT !.epoch = e, !.newest = n]
      PROVE  Shows(v, Merge(w.rows, page.rows))
  <2>1. \/ v = [rows |-> merged.rows, epoch |-> e, newest |-> merged.newest, oldest |-> merged.oldest,
               more |-> merged.more, stale |-> merged.stale, mode |-> merged.mode]
        \/ v = [rows |-> merged.rows, epoch |-> e, newest |-> n, oldest |-> merged.oldest,
               more |-> merged.more, stale |-> merged.stale, mode |-> merged.mode]
    BY <1>1, <1>3 DEF Shows, IsWindow
  <2>. QED
    BY <1>1, <2>1 DEF Shows, IsWindow
<1>. QED
  BY <1>2, <1>3

LEMMA EnterTailIs ==
  ASSUME NEW w, IsWindow(w)
  PROVE  Shows(EnterTail(w), w.rows)
<1>. DEFINE kept == Trim(w.rows, TailLimit, "append")
            trimmed == IF DOMAIN kept # DOMAIN w.rows THEN DropBelow(w, kept) ELSE w
<1>1. IsRows(kept) /\ Part(kept, w.rows) /\ IsRows(w.rows)
  BY TrimIs DEF IsWindow
<1>2. Shows(trimmed, w.rows)
  <2>. HIDE DEF kept
  <2>1. CASE trimmed = w
    BY <1>1, <2>1 DEF Shows, Part
  <2>2. CASE trimmed = DropBelow(w, kept)
    <3>1. trimmed = [w EXCEPT !.rows = kept, !.more = TRUE, !.oldest = Oldest(kept)]
      BY <2>2 DEF DropBelow
    <3>. HIDE DEF trimmed
    <3>2. trimmed = [rows |-> kept, epoch |-> w.epoch, newest |-> w.newest, oldest |-> Oldest(kept),
                     more |-> TRUE, stale |-> w.stale, mode |-> w.mode]
      BY <3>1 DEF IsWindow
    <3>. QED
      BY <1>1, <3>2 DEF Shows, IsWindow
  <2>. QED
    BY <2>1, <2>2
<1>3. EnterTail(w) = [trimmed EXCEPT !.mode = "tail", !.epoch = IF w.stale THEN NoEpoch ELSE @,
                                     !.newest = IF w.stale THEN 0 ELSE @]
  BY DEF EnterTail
<1>. HIDE DEF trimmed
<1>. QED
  BY <1>2, <1>3 DEF Shows, IsWindow

LEMMA MarkConsumedIs ==
  ASSUME NEW w, IsWindow(w), NEW r, NEW at \in Nat \ {0}
  PROVE  /\ IsWindow(MarkConsumed(w, r, at)) /\ DOMAIN MarkConsumed(w, r, at).rows = DOMAIN w.rows
         /\ \A q \in DOMAIN w.rows :
              Queued(MarkConsumed(w, r, at).rows[q]) <=> Queued(w.rows[q]) /\ q # r
<1>. DEFINE v == MarkConsumed(w, r, at)
<1>1. CASE r \in DOMAIN w.rows /\ Queued(w.rows[r])
  <2>1. v = [w EXCEPT !.rows[r].invoked = at]
    BY <1>1 DEF MarkConsumed
  <2>2. v = [rows |-> [w.rows EXCEPT ![r].invoked = at], epoch |-> w.epoch, newest |-> w.newest, oldest |-> w.oldest,
             more |-> w.more, stale |-> w.stale, mode |-> w.mode]
    BY <2>1 DEF IsWindow
  <2>. DEFINE f == [w.rows EXCEPT ![r].invoked = at]
  <2>3. /\ DOMAIN f = DOMAIN w.rows /\ f = [q \in DOMAIN f |-> f[q]]
        /\ \A q \in DOMAIN w.rows : f[q] = IF q = r THEN [w.rows[r] EXCEPT !.invoked = at] ELSE w.rows[q]
    BY <1>1 DEF IsWindow, IsRows
  <2>. HIDE DEF f
  <2>4. \A q \in DOMAIN w.rows : f[q] \in Body /\ (Queued(f[q]) <=> Queued(w.rows[q]) /\ q # r)
    BY <1>1, <2>3 DEF IsWindow, IsRows, Body, Queued
  <2>5. IsRows(f)
    BY <2>3, <2>4 DEF IsWindow, IsRows
  <2>6. v = [rows |-> f, epoch |-> w.epoch, newest |-> w.newest, oldest |-> w.oldest,
             more |-> w.more, stale |-> w.stale, mode |-> w.mode]
    BY <2>2 DEF f
  <2>. HIDE DEF v
  <2>7. IsWindow(v) /\ v.rows = f
    BY <2>5, <2>6 DEF IsWindow
  <2>. QED
    BY <2>3, <2>4, <2>7 DEF v
<1>2. CASE ~(r \in DOMAIN w.rows /\ Queued(w.rows[r]))
  BY <1>2 DEF MarkConsumed
<1>. QED
  BY <1>1, <1>2

LEMMA DiscardIs ==
  ASSUME NEW w, IsWindow(w), NEW ids
  PROVE  Shows(Discard(w, ids), w.rows) /\ DOMAIN Discard(w, ids).rows = DOMAIN w.rows \ ids
<1>. DEFINE f == Only(w.rows, DOMAIN w.rows \ ids)
<1>1. IsRows(f) /\ Part(f, w.rows) /\ DOMAIN f = DOMAIN w.rows \ ids
  BY OnlyIs DEF IsWindow
<1>2. Discard(w, ids) = [w EXCEPT !.rows = f]
  BY DEF Discard
<1>. HIDE DEF f
<1>3. Discard(w, ids) = [rows |-> f, epoch |-> w.epoch, newest |-> w.newest, oldest |-> w.oldest,
                         more |-> w.more, stale |-> w.stale, mode |-> w.mode]
  BY <1>2 DEF IsWindow
<1>. QED
  BY <1>1, <1>3 DEF Shows, IsWindow

(* The rows that a page of the newest rows leaves: those that changed since it was asked win. *)
Applied(w, page, replace, untouched) ==
  LET concurrent == Only(w.rows, DOMAIN w.rows \ untouched)
  IN  Merge(Merge(IF replace THEN concurrent ELSE w.rows, page.rows), concurrent)

LEMMA ApplyLatestIs ==
  ASSUME NEW w, IsWindow(w), NEW page, IsRows(page.rows), NEW replace, NEW untouched
  PROVE  Shows(ApplyLatest(w, page, replace, untouched), Applied(w, page, replace, untouched))
<1>. DEFINE concurrent == Only(w.rows, DOMAIN w.rows \ untouched)
            merged == Merge(Merge(IF replace THEN concurrent ELSE w.rows, page.rows), concurrent)
            kept == Trim(merged, TailLimit, "append")
            head == IF page.head # 0 THEN page.head ELSE Newest(page.rows)
            paged == [w EXCEPT !.rows = kept, !.more = page.more \/ (~replace /\ @),
                               !.oldest = IF replace \/ page.before # 0 THEN page.before ELSE @]
            shown == IF DOMAIN kept # DOMAIN merged THEN DropBelow(w, kept) ELSE paged
<1>1. IsRows(merged)
  <2>1. IsRows(concurrent) /\ IsRows(w.rows)
    BY OnlyIs DEF IsWindow
  <2>. HIDE DEF concurrent
  <2>2. IsRows(Merge(IF replace THEN concurrent ELSE w.rows, page.rows))
    BY <2>1, MergeIs
  <2>. QED
    BY <2>1, <2>2, MergeIs
<1>2. merged = Applied(w, page, replace, untouched)
  BY DEF Applied
<1>. HIDE DEF merged
<1>3. IsRows(kept) /\ Part(kept, merged)
  BY <1>1, TrimIs
<1>4. ApplyLatest(w, page, replace, untouched)
        = [shown EXCEPT !.epoch = page.epoch, !.newest = Max({head, Newest(kept)}), !.stale = FALSE]
  BY DEF ApplyLatest, merged
<1>. HIDE DEF kept, head
<1>5. Shows(shown, merged)
  <2>1. CASE DOMAIN kept # DOMAIN merged
    <3>1. shown = [rows |-> kept, epoch |-> w.epoch, newest |-> w.newest, oldest |-> Oldest(kept),
                   more |-> TRUE, stale |-> w.stale, mode |-> w.mode]
      BY <2>1 DEF DropBelow, IsWindow
    <3>. HIDE DEF shown
    <3>. QED
      BY <1>3, <3>1 DEF Shows, IsWindow
  <2>2. CASE DOMAIN kept = DOMAIN merged
    <3>1. shown = [w EXCEPT !.rows = kept, !.more = page.more \/ (~replace /\ @),
                            !.oldest = IF replace \/ page.before # 0 THEN page.before ELSE @]
      BY <2>2
    <3>2. shown = [rows |-> kept, epoch |-> w.epoch, newest |-> w.newest,
                   oldest |-> IF replace \/ page.before # 0 THEN page.before ELSE w.oldest,
                   more |-> page.more \/ (~replace /\ w.more), stale |-> w.stale, mode |-> w.mode]
      BY <3>1 DEF IsWindow
    <3>. HIDE DEF shown
    <3>. QED
      BY <1>3, <3>2 DEF Shows, IsWindow
  <2>. QED
    BY <2>1, <2>2
<1>. HIDE DEF shown
<1>. DEFINE n == Max({head, Newest(kept)})
<1>6. ApplyLatest(w, page, replace, untouched) = [shown EXCEPT !.epoch = page.epoch, !.newest = n, !.stale = FALSE]
  BY <1>4
<1>. HIDE DEF n
<1>7. Shows(ApplyLatest(w, page, replace, untouched), merged)
  BY <1>5, <1>6 DEF Shows, IsWindow
<1>. QED
  BY <1>2, <1>7

(* A page shows rows as the hub has them. *)
LEMMA PageIs ==
  ASSUME NEW ask, IsRows(row)
  PROVE  IsRows(Page(ask).rows) /\ Part(Page(ask).rows, row)
<1>1. ASSUME NEW before, NEW p, p = PageBack(before)
      PROVE  IsRows(p.rows) /\ Part(p.rows, row) /\ IsRows([p EXCEPT !.reset = TRUE].rows)
             /\ Part([p EXCEPT !.reset = TRUE].rows, row)
  <2>. DEFINE some == Where(row, LAMBDA b : before = 0 \/ Pos(b) < before)
              rows == LastRows(some, PageSize)
              oldest == Oldest(rows)
              more == oldest # 0 /\ \E r \in DOMAIN row : Pos(row[r]) < oldest
              shown == IF before = 0 THEN [r \in DOMAIN rows \cup DOMAIN Where(row, Queued) |-> row[r]] ELSE rows
  <2>1. IsRows(some) /\ Part(some, row)
    BY DEF Where, IsRows, Part
  <2>. HIDE DEF some
  <2>2. IsRows(rows) /\ Part(rows, some)
    BY <2>1, OnlyIs DEF LastRows
  <2>3. p = [rows |-> shown, latest |-> before = 0, reset |-> FALSE, epoch |-> epoch,
             before |-> oldest, after |-> 0, head |-> NewestRow, more |-> more]
    BY <1>1 DEF PageBack, some
  <2>. HIDE DEF rows
  <2>4. DOMAIN Where(row, Queued) \subseteq DOMAIN row
    BY QueuedIs
  <2>5. IsRows(shown) /\ Part(shown, row)
    BY <2>1, <2>2, <2>4 DEF IsRows, Part
  <2>. HIDE DEF shown, oldest, more
  <2>. QED
    BY <2>3, <2>5
<1>2. ASSUME NEW after, NEW until
      PROVE  IsRows(PageForward(after, until).rows) /\ Part(PageForward(after, until).rows, row)
  <2>. DEFINE head == IF until # 0 /\ NewestRow # 0 THEN Min({until, NewestRow}) ELSE Max({until, NewestRow})
              some == Where(row, LAMBDA b : Pos(b) > after /\ Pos(b) <= head)
              rows == FirstRows(some, PageSize)
  <2>1. IsRows(some) /\ Part(some, row)
    BY DEF Where, IsRows, Part
  <2>. HIDE DEF some
  <2>2. IsRows(rows) /\ Part(rows, some)
    BY <2>1, OnlyIs DEF FirstRows
  <2>3. PageForward(after, until).rows = rows
    BY DEF PageForward, some
  <2>. HIDE DEF rows
  <2>. QED
    BY <2>1, <2>2, <2>3 DEF Part
<1>. QED
  BY <1>1, <1>2 DEF Page

-----------------------------------------------------------------------------
(* The greatest of finitely many numbers *)

LEMMA MaxOf ==
  ASSUME NEW S, IsFiniteSet(S), S # {}, S \subseteq Int
  PROVE  Max(S) \in S /\ \A y \in S : y <= Max(S)
<1>. DEFINE Above == [x \in S |-> {y \in S : y > x}]
            T == {Above[x] : x \in S}
<1>1. T \subseteq FiniteSubsetsOf(S) /\ T # {}
  <2>1. \A x \in S : Above[x] \subseteq S /\ IsFiniteSet(Above[x])
    BY FS_Subset
  <2>. QED
    BY <2>1 DEF FiniteSubsetsOf
<1>. HIDE DEF T
<1>2. PICK B \in T : \A C \in T : <<C, B>> \notin StrictSubsetOrdering(S)
  BY <1>1, FS_StrictSubsetOrderingWellFounded, WFMin
<1>3. PICK x \in S : B = Above[x]
  BY <1>2 DEF T
<1>4. ASSUME NEW y \in S, y > x PROVE FALSE
  <2>1. Above[y] \subseteq Above[x]
    <3>1. SUFFICES ASSUME NEW z \in Above[y] PROVE z \in Above[x]
      OBVIOUS
    <3>2. z \in S /\ z > y /\ z \in Int /\ y \in Int /\ x \in Int
      OBVIOUS
    <3>. QED
      BY <3>2, <1>4
  <2>2. y \in Above[x] /\ y \notin Above[y]
    BY <1>4
  <2>3. <<Above[y], Above[x]>> \in StrictSubsetOrdering(S)
    BY <2>1, <2>2 DEF StrictSubsetOrdering
  <2>4. Above[y] \in T
    BY DEF T
  <2>. QED
    BY <1>2, <1>3, <2>3, <2>4
<1>5. \A y \in S : x >= y
  BY <1>4
<1>6. Max(S) \in S /\ \A y \in S : Max(S) >= y
  BY <1>5 DEF Max
<1>. QED
  BY <1>6

-----------------------------------------------------------------------------
(* What is true of the rows for good *)

(* Rows that will never be queued prompts again. *)
Past == {r \in used : ~(r \in DOMAIN row /\ Queued(row[r]))}

TrueIn(f, given, past) ==
  IsRows(f) /\ DOMAIN f \subseteq given /\ \A r \in DOMAIN f : ~Queued(f[r]) => r \in past

Changes(given, past) ==
  {e \in [kind : {"received"}, rows : UNION {[S -> Body] : S \in SUBSET Rows}] : TrueIn(e.rows, given, past)}
    \cup [kind : {"consumed"}, row : past, at : Nat \ {0}]
    \cup [kind : {"cancelled"}, row : past]
    \cup [kind : {"invalidated"}]

RowsInv ==
  IsRows(row) /\ DOMAIN row \subseteq used /\ used \subseteq Rows /\ IsFiniteSet(used) /\ clock \in Nat

WindowInv == IsWindow(win) /\ TrueIn(win.rows, used, Past)

IsRequest(q, given, past) ==
  /\ q = [at |-> q.at, ask |-> q.ask, page |-> q.page, replace |-> q.replace, covers |-> q.covers]
  /\ q.at \in {"idle", "asked", "answered"}
  /\ q.at = "answered" => TrueIn(q.page.rows, given, past)

RequestInv ==
  /\ IsRequest(sync, used, Past) /\ IsRequest(older, used, Past)
  /\ sync.at # "idle" => older.at = "idle"

(* A row that is as it was when the run asked is not consumed while the page shows it queued. *)
BaseInv ==
  sync.at = "answered" => Keeps(Only(win.rows, base), sync.page.rows)

IsTask(task, given, past) ==
  /\ task = [at |-> task.at, ids |-> task.ids, queued |-> task.queued, invoked |-> task.invoked]
  /\ task.at \in {"draining", "free", "asked", "answered"}
  /\ task.ids \subseteq given
  /\ task.at = "answered" =>
       /\ IsRows(task.invoked) /\ \A r \in DOMAIN task.invoked : ~Queued(task.invoked[r])
       /\ task.ids \ task.queued \subseteq past /\ DOMAIN task.invoked \subseteq task.ids \ task.queued

TaskInv == \A task \in recons : IsTask(task, used, Past)

BrowserInv == WindowInv /\ RequestInv /\ BaseInv /\ TaskInv

StreamTrue == \E E : E = Changes(used, Past) /\ StreamInv(E)

ViewInv == RowsInv /\ StreamTrue /\ BrowserInv

LEMMA TruthGrows ==
  ASSUME NEW given, NEW more, given \subseteq more, NEW past, NEW later, past \subseteq later
  PROVE  /\ \A f : TrueIn(f, given, past) => TrueIn(f, more, later)
         /\ \A q : IsRequest(q, given, past) => IsRequest(q, more, later)
         /\ \A task : IsTask(task, given, past) => IsTask(task, more, later)
         /\ Changes(given, past) \subseteq Changes(more, later)
<1>1. \A f : TrueIn(f, given, past) => TrueIn(f, more, later)
  BY DEF TrueIn
<1>2. \A q : IsRequest(q, given, past) => IsRequest(q, more, later)
  BY <1>1 DEF IsRequest
<1>3. \A task : IsTask(task, given, past) => IsTask(task, more, later)
  BY DEF IsTask
<1>4. Changes(given, past) \subseteq Changes(more, later)
  BY <1>1 DEF Changes
<1>. QED
  BY <1>1, <1>2, <1>3, <1>4

LEMMA WiderStream ==
  ASSUME NEW E, NEW F, E \subseteq F, StreamInv(E)
  PROVE  StreamInv(F)
<1>1. EntryOf(E) \subseteq EntryOf(F) /\ FrameOf(E) \subseteq FrameOf(F)
  BY DEF EntryOf, FrameOf
<1>2. Seq(EntryOf(E)) \subseteq Seq(EntryOf(F)) /\ Seq(FrameOf(E)) \subseteq Seq(FrameOf(F))
  <2>. DEFINE A == EntryOf(E)
              B == EntryOf(F)
              C == FrameOf(E)
              D == FrameOf(F)
  <2>. HIDE DEF A, B, C, D
  <2>1. A \subseteq B => Seq(A) \subseteq Seq(B)
    BY SeqOf
  <2>2. C \subseteq D => Seq(C) \subseteq Seq(D)
    BY SeqOf
  <2>. QED
    BY <1>1, <2>1, <2>2 DEF A, B, C, D
<1>3. StreamTypes(E) => StreamTypes(F)
  BY <1>2 DEF StreamTypes
<1>. QED
  BY <1>3 DEF StreamInv

-----------------------------------------------------------------------------
(* Steps of the hub *)

(* What the browser has stays true. *)
LEMMA BrowserSame ==
  ASSUME BrowserInv, UNCHANGED window, used \subseteq used', Past \subseteq Past'
  PROVE  BrowserInv'
<1>1. UNCHANGED <<win, sync, base, older, recons>>
  BY DEF window
<1>. DEFINE given == used
            past == Past
            more == used'
            later == Past'
<1>2. /\ TrueIn(win.rows, more, later) /\ IsRequest(sync, more, later) /\ IsRequest(older, more, later)
      /\ \A task \in recons : IsTask(task, more, later)
  <2>1. /\ TrueIn(win.rows, given, past) /\ IsRequest(sync, given, past) /\ IsRequest(older, given, past)
        /\ \A task \in recons : IsTask(task, given, past)
        /\ given \subseteq more /\ past \subseteq later
    BY DEF BrowserInv, WindowInv, RequestInv, TaskInv
  <2>. HIDE DEF given, past, more, later
  <2>. QED
    BY <2>1, TruthGrows
<1>3. WindowInv'
  BY <1>1, <1>2 DEF BrowserInv, WindowInv
<1>4. RequestInv'
  BY <1>1, <1>2 DEF BrowserInv, RequestInv
<1>5. BaseInv'
  BY <1>1 DEF BrowserInv, BaseInv
<1>6. TaskInv'
  BY <1>1, <1>2 DEF TaskInv
<1>. QED
  BY <1>3, <1>4, <1>5, <1>6 DEF BrowserInv

LEMMA HubStep ==
  ASSUME ViewInv, RowsInv', UNCHANGED window, used \subseteq used', Past \subseteq Past',
         NEW event \in Changes(used', Past'), Broadcast(event)
  PROVE  ViewInv' /\ Keeps(win.rows, win'.rows)
<1>1. BrowserInv'
  BY BrowserSame DEF ViewInv
<1>2. ASSUME NEW F, F = Changes(used', Past')
      PROVE  StreamInv(F)'
  <2>1. PICK E : E = Changes(used, Past) /\ StreamInv(E)
    BY DEF ViewInv, StreamTrue
  <2>2. E \subseteq F
    <3>. DEFINE given == used
                past == Past
                more == used'
                later == Past'
    <3>1. given \subseteq more /\ past \subseteq later /\ E = Changes(given, past) /\ F = Changes(more, later)
      BY <1>2, <2>1
    <3>. HIDE DEF given, past, more, later
    <3>. QED
      BY <3>1, TruthGrows
  <2>3. StreamInv(F)
    BY <2>1, <2>2, WiderStream
  <2>4. event \in F \cup {Elsewhere}
    BY <1>2
  <2>. QED
    BY <2>3, <2>4, BroadcastKeeps
<1>3. StreamTrue'
  BY <1>2 DEF StreamTrue
<1>4. win' = win
  BY DEF window
<1>. QED
  BY <1>1, <1>3, <1>4 DEF ViewInv, Keeps

LEMMA RowSeqs == ASSUME RowsInv PROVE NextRowSeq \in Nat
<1>. DEFINE f == [r \in DOMAIN row |-> row[r].seq]
            S == {row[r].seq : r \in DOMAIN row}
<1>1. IsFiniteSet(DOMAIN row) /\ \A r \in DOMAIN row : row[r].seq \in Nat
  BY FS_Subset DEF RowsInv, IsRows, Body
<1>2. f \in Surjection(DOMAIN row, S)
  BY DEF Surjection
<1>3. IsFiniteSet(S) /\ S \subseteq Nat
  <2>1. S \subseteq Nat
    BY <1>1
  <2>. HIDE DEF f, S
  <2>. QED
    BY <1>1, <1>2, <2>1, FS_Surjection
<1>. HIDE DEF S
<1>4. IsFiniteSet({0} \cup S) /\ {0} \cup S # {} /\ {0} \cup S \subseteq Nat
  <2>1. {0} \cup S = S \cup {0}
    OBVIOUS
  <2>. QED
    BY <1>3, <2>1, FS_AddElement
<1>5. Max({0} \cup S) \in {0} \cup S
  BY <1>4, MaxOf
<1>. QED
  BY <1>4, <1>5 DEF NextRowSeq, S

LEMMA AddRowStep ==
  ASSUME ViewInv, NEW r \in Rows, r \notin used, NEW at \in Nat, NEW invoked \in Nat, invoked = 0 => r \in Prompts,
         AddRow(r, at, invoked), clock' \in Nat, UNCHANGED window
  PROVE  ViewInv' /\ Keeps(win.rows, win'.rows)
<1>. DEFINE body == [created |-> at, invoked |-> invoked, seq |-> NextRowSeq]
            event == Received(r, body)
<1>1. RowsInv
  BY DEF ViewInv
<1>2. /\ body \in Body /\ (Queued(body) => r \in Prompts) /\ row' = With(r, body) /\ used' = used \cup {r} /\ Broadcast(event)
  BY <1>1, RowSeqs DEF AddRow, Emit, Body, Queued
<1>. HIDE DEF body
<1>3. /\ DOMAIN row' = DOMAIN row \cup {r} /\ row'[r] = body /\ \A q \in DOMAIN row : row'[q] = row[q]
      /\ row' = [q \in DOMAIN row' |-> row'[q]]
  BY <1>1, <1>2 DEF With, RowsInv
<1>4. RowsInv'
  <2>1. IsRows(row')
    BY <1>1, <1>2, <1>3 DEF RowsInv, IsRows
  <2>2. IsFiniteSet(used')
    BY <1>1, <1>2, FS_AddElement DEF RowsInv
  <2>. QED
    BY <1>1, <1>2, <1>3, <2>1, <2>2 DEF RowsInv
<1>5. used \subseteq used' /\ Past \subseteq Past'
  BY <1>1, <1>2, <1>3 DEF Past, RowsInv
<1>6. event \in Changes(used', Past')
  <2>. DEFINE rows == [q \in {r} |-> body]
  <2>1. DOMAIN rows = {r} /\ rows[r] = body /\ rows = [q \in {r} |-> body]
    OBVIOUS
  <2>2. rows \in [{r} -> Body]
    BY <1>2, <2>1
  <2>3. IsRows(rows)
    BY <1>2, <2>1 DEF IsRows
  <2>4. r \in used' /\ (~Queued(body) => r \in Past')
    BY <1>2, <1>3 DEF Past
  <2>. HIDE DEF rows
  <2>5. TrueIn(rows, used', Past')
    BY <2>1, <2>3, <2>4 DEF TrueIn
  <2>6. rows \in UNION {[S -> Body] : S \in SUBSET Rows}
    <3>1. {r} \in SUBSET Rows
      OBVIOUS
    <3>. QED
      BY <2>2, <3>1
  <2>7. event = [kind |-> "received", rows |-> rows]
    BY DEF Received, rows
  <2>. HIDE DEF event
  <2>. QED
    BY <2>5, <2>6, <2>7 DEF Changes
<1>. QED
  BY <1>2, <1>4, <1>5, <1>6, HubStep

LEMMA PostStep ==
  ASSUME ViewInv, NEW p \in Prompts, Post(p)
  PROVE  ViewInv' /\ Keeps(win.rows, win'.rows)
<1>1. clock \in Nat /\ clock' = clock + 1
  BY DEF Post, ViewInv, RowsInv
<1>2. p \in Rows /\ p \notin used /\ AddRow(p, clock', 0) /\ UNCHANGED window
  BY DEF Rows, Post
<1>3. clock' \in Nat
  BY <1>1
<1>. QED
  BY <1>2, <1>3, AddRowStep

LEMMA OutputStep ==
  ASSUME ViewInv, NEW o \in Outputs, Output(o)
  PROVE  ViewInv' /\ Keeps(win.rows, win'.rows)
<1>1. clock \in Nat /\ clock' = clock + 1
  BY DEF Output, ViewInv, RowsInv
<1>2. o \in Rows /\ o \notin used /\ UNCHANGED window
  BY DEF Rows, Output
<1>3. PICK at \in {clock', clock - 1} : at > 0 /\ AddRow(o, at, at)
  BY DEF Output
<1>4. at \in Nat \ {0} /\ clock' \in Nat
  BY <1>1, <1>3
<1>. QED
  BY <1>2, <1>3, <1>4, AddRowStep

LEMMA ConsumeStep ==
  ASSUME ViewInv, NEW p \in Prompts, Consume(p)
  PROVE  ViewInv' /\ Keeps(win.rows, win'.rows)
<1>. DEFINE event == [kind |-> "consumed", row |-> p, at |-> clock']
<1>1. RowsInv
  BY DEF ViewInv
<1>2. /\ p \in DOMAIN row /\ Queued(row[p]) /\ clock' = clock + 1 /\ used' = used
      /\ row' = [row EXCEPT ![p].invoked = clock'] /\ Broadcast(event) /\ UNCHANGED window
      /\ clock \in Nat
  BY <1>1 DEF Consume, Emit, RowsInv
<1>3. /\ DOMAIN row' = DOMAIN row /\ row' = [q \in DOMAIN row' |-> row'[q]]
      /\ \A q \in DOMAIN row : row'[q] = IF q = p THEN [row[p] EXCEPT !.invoked = clock'] ELSE row[q]
  BY <1>1, <1>2 DEF RowsInv, IsRows
<1>4. row'[p] \in Body /\ ~Queued(row'[p])
  BY <1>1, <1>2, <1>3 DEF RowsInv, IsRows, Body, Queued
<1>5. IsRows(row')
  BY <1>1, <1>3, <1>4 DEF RowsInv, IsRows
<1>6. RowsInv'
  BY <1>1, <1>2, <1>3, <1>5 DEF RowsInv
<1>7. used \subseteq used' /\ Past \subseteq Past' /\ p \in Past'
  BY <1>1, <1>2, <1>3, <1>4 DEF Past, RowsInv
<1>8. event \in Changes(used', Past')
  BY <1>2, <1>7 DEF Changes
<1>. QED
  BY <1>2, <1>6, <1>7, <1>8, HubStep

(* A step that takes rows away. *)
LEMMA FewerRows ==
  ASSUME RowsInv, IsRows(row'), Part(row', row), used' = used, clock' \in Nat
  PROVE  RowsInv' /\ Past \subseteq Past' /\ \A r \in DOMAIN row \ DOMAIN row' : r \in Past'
BY DEF RowsInv, Part, Past

LEMMA CancelStep ==
  ASSUME ViewInv, NEW p \in Prompts, Cancel(p)
  PROVE  ViewInv' /\ Keeps(win.rows, win'.rows)
<1>. DEFINE event == [kind |-> "cancelled", row |-> p]
<1>1. RowsInv
  BY DEF ViewInv
<1>2. /\ p \in DOMAIN row /\ used' = used /\ row' = Only(row, DOMAIN row \ {p})
      /\ Broadcast(event) /\ UNCHANGED window /\ clock' = clock + 2
  BY DEF Cancel, Emit
<1>3. IsRows(row') /\ Part(row', row) /\ DOMAIN row' = DOMAIN row \ {p} /\ clock' \in Nat
  BY <1>1, <1>2, OnlyIs DEF RowsInv
<1>4. RowsInv' /\ Past \subseteq Past' /\ p \in Past'
  BY <1>1, <1>2, <1>3, FewerRows
<1>5. event \in Changes(used', Past')
  BY <1>4 DEF Changes
<1>. QED
  BY <1>2, <1>4, <1>5, HubStep

LEMMA RewindStep ==
  ASSUME ViewInv, NEW p \in Prompts, Rewind(p)
  PROVE  ViewInv' /\ Keeps(win.rows, win'.rows)
<1>. DEFINE event == [kind |-> "invalidated"]
<1>1. RowsInv
  BY DEF ViewInv
<1>2. /\ used' = used /\ row' = Where(row, LAMBDA b : Pos(b) < Pos(row[p]))
      /\ Broadcast(event) /\ UNCHANGED window /\ clock' = clock + 2
  BY DEF Rewind, Emit
<1>3. IsRows(row') /\ Part(row', row) /\ clock' \in Nat
  BY <1>1, <1>2 DEF RowsInv, IsRows, Part, Where
<1>4. RowsInv' /\ Past \subseteq Past'
  BY <1>1, <1>2, <1>3, FewerRows
<1>5. event \in Changes(used', Past')
  BY DEF Changes
<1>. QED
  BY <1>2, <1>4, <1>5, HubStep

-----------------------------------------------------------------------------
(* Steps of the transport *)

LEMMA StreamSame ==
  ASSUME NEW E, StreamInv(E), UNCHANGED vars
  PROVE  StreamInv(E)'
<1>1. UNCHANGED <<boot, nextSeq, eventBuffer, connection, wire, cursor, sent, position, told>>
  BY DEF vars, stream, progress
<1>2. Hub' = Hub /\ RingInv' /\ (Resumable(cursor)' <=> Resumable(cursor)) /\ CursorInv'
  BY <1>1, HubSame, CursorSame DEF StreamInv
<1>3. UNCHANGED <<BeforePending, BeforeReplay, BeforeWire>>
  BY <1>1 DEF BeforePending, BeforeReplay, BeforeWire
<1>4. FlowInv'
  BY <1>1, <1>2, <1>3 DEF StreamInv, FlowInv
<1>. QED
  BY <1>1, <1>2, <1>4 DEF StreamInv, StreamTypes, EntryOf, FrameOf

LEMMA RowsSame ==
  ASSUME UNCHANGED hubRows
  PROVE  used' = used /\ row' = row /\ Past' = Past /\ (RowsInv => RowsInv')
BY DEF hubRows, Past, RowsInv

(* What is true of the rows stays so while the stream moves on. *)
LEMMA StreamMoves ==
  ASSUME ViewInv, UNCHANGED hubRows, \A E : StreamInv(E) => StreamInv(E)'
  PROVE  RowsInv' /\ StreamTrue'
<1>1. PICK E : E = Changes(used, Past) /\ StreamInv(E)
  BY DEF ViewInv, StreamTrue
<1>2. E = Changes(used', Past') /\ StreamInv(E)'
  BY <1>1, RowsSame
<1>3. StreamTrue'
  BY <1>2 DEF StreamTrue
<1>. QED
  BY <1>3, RowsSame DEF ViewInv

LEMMA TransportStep ==
  ASSUME ViewInv, UNCHANGED hubRows, UNCHANGED window, \A E : StreamInv(E) => StreamInv(E)'
  PROVE  ViewInv' /\ Keeps(win.rows, win'.rows)
<1>1. RowsInv' /\ StreamTrue'
  BY StreamMoves
<1>2. used \subseteq used' /\ Past \subseteq Past'
  BY RowsSame
<1>3. BrowserInv'
  BY <1>2, BrowserSame DEF ViewInv
<1>4. win' = win
  BY DEF window
<1>. QED
  BY <1>1, <1>3, <1>4 DEF ViewInv, Keeps

-----------------------------------------------------------------------------
(* Steps of the browser: hub and stream stay as they are *)

LEMMA HubStays ==
  ASSUME ViewInv, UNCHANGED vars, UNCHANGED hubRows
  PROVE  RowsInv' /\ StreamTrue'
<1>1. \A E : StreamInv(E) => StreamInv(E)'
  BY StreamSame
<1>. QED
  BY <1>1, StreamMoves

(* A page says nothing of the rows that is not so. *)
LEMMA PageIsTrue ==
  ASSUME NEW ask, RowsInv
  PROVE  /\ TrueIn(Page(ask).rows, used, Past)
         /\ \A r \in DOMAIN Page(ask).rows : Queued(Page(ask).rows[r]) => r \notin Past
<1>1. IsRows(Page(ask).rows) /\ Part(Page(ask).rows, row)
  BY PageIs DEF RowsInv
<1>. QED
  BY <1>1 DEF Part, TrueIn, RowsInv, Past

LEMMA AnsweredIs ==
  ASSUME NEW q, NEW given, NEW past, IsRequest(q, given, past), NEW page, TrueIn(page.rows, given, past)
  PROVE  /\ IsRequest([q EXCEPT !.at = "answered", !.page = page], given, past)
         /\ [q EXCEPT !.at = "answered", !.page = page].page = page
<1>. DEFINE v == [q EXCEPT !.at = "answered", !.page = page]
<1>. HIDE DEF v
<1>1. v = [at |-> "answered", ask |-> q.ask, page |-> page, replace |-> q.replace, covers |-> q.covers]
  <2>1. q = [at |-> q.at, ask |-> q.ask, page |-> q.page, replace |-> q.replace, covers |-> q.covers]
    BY DEF IsRequest
  <2>2. v = [q EXCEPT !.at = "answered", !.page = page]
    BY DEF v
  <2>. QED
    BY <2>1, <2>2
<1>2. IsRequest(v, given, past) /\ v.page = page
  BY <1>1 DEF IsRequest
<1>. QED
  BY <1>2 DEF v

(* What a page shows as queued is queued, so the window does not show it as consumed. *)
LEMMA KeepsPage ==
  ASSUME NEW f, NEW g, NEW given, NEW past, TrueIn(f, given, past), NEW S,
         \A r \in DOMAIN g : Queued(g[r]) => r \notin past
  PROVE  Keeps(Only(f, S), g)
<1>1. /\ DOMAIN Only(f, S) = DOMAIN f \cap S
      /\ \A r \in DOMAIN f \cap S : Only(f, S)[r] = f[r]
  BY OnlyIs DEF TrueIn
<1>. HIDE DEF Only
<1>. QED
  BY <1>1 DEF Keeps, TrueIn

LEMMA SyncServeStep ==
  ASSUME ViewInv, SyncServe
  PROVE  ViewInv' /\ Keeps(win.rows, win'.rows)
<1>. USE DEF ViewInv, BrowserInv
<1>1. /\ UNCHANGED vars /\ UNCHANGED hubRows /\ UNCHANGED <<win, base, older, recons>>
      /\ sync.at = "asked" /\ sync' = [sync EXCEPT !.at = "answered", !.page = Page(sync.ask)]
  BY DEF SyncServe
<1>2. RowsInv' /\ StreamTrue' /\ used' = used /\ Past' = Past
  BY <1>1, HubStays, RowsSame
<1>. DEFINE page == Page(sync.ask)
<1>3. /\ TrueIn(page.rows, used, Past)
      /\ \A r \in DOMAIN page.rows : Queued(page.rows[r]) => r \notin Past
  BY PageIsTrue
<1>4. sync' = [sync EXCEPT !.at = "answered", !.page = page]
  BY <1>1
<1>. HIDE DEF page
<1>5. IsRequest(sync', used, Past) /\ sync'.page = page
  <2>1. IsRequest(sync, used, Past) /\ TrueIn(page.rows, used, Past)
    BY <1>3 DEF RequestInv
  <2>2. /\ IsRequest([sync EXCEPT !.at = "answered", !.page = page], used, Past)
        /\ [sync EXCEPT !.at = "answered", !.page = page].page = page
    BY <2>1, AnsweredIs
  <2>. QED
    BY <1>4, <2>2
<1>6. WindowInv' /\ TaskInv'
  BY <1>1, <1>2 DEF WindowInv, TaskInv
<1>7. RequestInv'
  BY <1>1, <1>2, <1>5 DEF RequestInv
<1>8. BaseInv'
  <2>1. Keeps(Only(win.rows, base), page.rows)
    BY <1>3, KeepsPage DEF WindowInv
  <2>. QED
    BY <1>1, <1>5, <2>1 DEF BaseInv
<1>9. Keeps(win.rows, win'.rows)
  BY <1>1 DEF Keeps
<1>. QED
  BY <1>2, <1>6, <1>7, <1>8, <1>9

(* A run begins; what it finds is untouched. *)
LEMMA StartSyncStep ==
  ASSUME NEW w, IsWindow(w), TrueIn(w.rows, used', Past'), StartSync(w)
  PROVE  WindowInv' /\ RequestInv' /\ BaseInv' /\ win' = w
<1>1. /\ win' = w /\ older' = Idle
      /\ sync' = [at |-> "asked", ask |-> Ask(w), page |-> <<>>, replace |-> w.stale, covers |-> TRUE]
  BY DEF StartSync
<1>. DEFINE ask == Ask(w)
<1>2. sync' = [at |-> "asked", ask |-> ask, page |-> <<>>, replace |-> w.stale, covers |-> TRUE]
  BY <1>1
<1>. HIDE DEF ask
<1>3. RequestInv'
  BY <1>1, <1>2 DEF RequestInv, IsRequest, Idle
<1>. QED
  BY <1>1, <1>2, <1>3 DEF WindowInv, BaseInv

LEMMA EndSyncStep ==
  ASSUME ViewInv, NEW w, IsWindow(w), TrueIn(w.rows, used, Past), NEW succeeded, EndSync(w, succeeded),
         used' = used, Past' = Past
  PROVE  WindowInv' /\ RequestInv' /\ BaseInv' /\ win' = w
<1>1. CASE trailing
  <2>1. StartSync(w) /\ TrueIn(w.rows, used', Past')
    BY <1>1 DEF EndSync
  <2>. QED
    BY <2>1, StartSyncStep
<1>2. CASE ~trailing
  <2>1. win' = w /\ sync' = Idle /\ older' = older
    BY <1>2 DEF EndSync
  <2>2. IsRequest(older, used, Past)
    BY DEF ViewInv, BrowserInv, RequestInv
  <2>3. RequestInv'
    BY <2>1, <2>2 DEF RequestInv, IsRequest, Idle
  <2>. QED
    BY <2>1, <2>3 DEF WindowInv, BaseInv, Idle
<1>. QED
  BY <1>1, <1>2

(* What an answer merged into the window says is true, too. *)
LEMMA MergeIsTrue ==
  ASSUME NEW f, NEW g, NEW given, NEW past, TrueIn(f, given, past), TrueIn(g, given, past)
  PROVE  TrueIn(Merge(f, g), given, past) /\ Keeps(f, Merge(f, g)) /\ Keeps(g, Merge(f, g))
<1>. DEFINE m == Merge(f, g)
<1>1. /\ IsRows(m) /\ DOMAIN m = DOMAIN f \cup DOMAIN g
      /\ \A r \in DOMAIN f \cup DOMAIN g :
           Queued(m[r]) <=> (r \in DOMAIN f => Queued(f[r])) /\ (r \in DOMAIN g => Queued(g[r]))
  BY MergeIs DEF TrueIn
<1>. HIDE DEF m
<1>2. TrueIn(m, given, past)
  BY <1>1 DEF TrueIn
<1>3. Keeps(f, m) /\ Keeps(g, m)
  BY <1>1 DEF Keeps
<1>. QED
  BY <1>2, <1>3 DEF m

LEMMA PartIsTrue ==
  ASSUME NEW f, NEW g, NEW given, NEW past, TrueIn(g, given, past), IsRows(f), Part(f, g)
  PROVE  TrueIn(f, given, past) /\ \A h : Keeps(h, g) => Keeps(h, f)
BY DEF TrueIn, Part, Keeps

LEMMA SyncLatestStep ==
  ASSUME ViewInv, SyncLatest
  PROVE  ViewInv' /\ Keeps(win.rows, win'.rows)
<1>. USE DEF ViewInv, BrowserInv
<1>. DEFINE page == sync.page
            replace == sync.replace \/ page.reset
            w == ApplyLatest(win, page, replace, base)
            concurrent == Only(win.rows, DOMAIN win.rows \ base)
            first == IF replace THEN concurrent ELSE win.rows
            m == Merge(Merge(first, page.rows), concurrent)
<1>1. /\ UNCHANGED vars /\ UNCHANGED hubRows /\ recons' = recons
      /\ sync.at = "answered" /\ EndSync(w, TRUE)
  BY DEF SyncLatest
<1>2. RowsInv' /\ StreamTrue' /\ used' = used /\ Past' = Past
  BY <1>1, HubStays, RowsSame
<1>3. IsWindow(win) /\ TrueIn(win.rows, used, Past) /\ TrueIn(page.rows, used, Past)
      /\ Keeps(Only(win.rows, base), page.rows)
  BY <1>1 DEF WindowInv, RequestInv, IsRequest, BaseInv
<1>4. Shows(w, m)
  BY <1>3, ApplyLatestIs DEF TrueIn, Applied
<1>. HIDE DEF w, page, replace
<1>5. /\ IsRows(concurrent) /\ Part(concurrent, win.rows) /\ DOMAIN concurrent = DOMAIN win.rows \ base
      /\ \A r \in DOMAIN concurrent : concurrent[r] = win.rows[r]
      /\ DOMAIN Only(win.rows, base) = DOMAIN win.rows \cap base
      /\ \A r \in DOMAIN win.rows \cap base : Only(win.rows, base)[r] = win.rows[r]
  <2>1. IsRows(win.rows)
    BY <1>3 DEF IsWindow
  <2>2. /\ IsRows(concurrent) /\ DOMAIN concurrent = DOMAIN win.rows \cap (DOMAIN win.rows \ base)
        /\ \A r \in DOMAIN win.rows \cap (DOMAIN win.rows \ base) : concurrent[r] = win.rows[r]
        /\ Part(concurrent, win.rows)
    BY <2>1, OnlyIs
  <2>3. /\ DOMAIN Only(win.rows, base) = DOMAIN win.rows \cap base
        /\ \A r \in DOMAIN win.rows \cap base : Only(win.rows, base)[r] = win.rows[r]
    BY <2>1, OnlyIs
  <2>. HIDE DEF concurrent
  <2>. QED
    BY <2>2, <2>3
<1>. HIDE DEF concurrent
<1>6. TrueIn(concurrent, used, Past)
  BY <1>3, <1>5, PartIsTrue
<1>7. TrueIn(first, used, Past) /\ (first = concurrent \/ first = win.rows)
  BY <1>3, <1>6
<1>. HIDE DEF first
<1>. DEFINE k == Merge(first, page.rows)
<1>8. /\ IsRows(k) /\ DOMAIN k = DOMAIN first \cup DOMAIN page.rows
      /\ \A r \in DOMAIN first \cup DOMAIN page.rows :
           Queued(k[r]) <=> (r \in DOMAIN first => Queued(first[r])) /\ (r \in DOMAIN page.rows => Queued(page.rows[r]))
      /\ TrueIn(k, used, Past)
  BY <1>3, <1>7, MergeIs, MergeIsTrue DEF TrueIn
<1>9. m = Merge(k, concurrent)
  OBVIOUS
<1>. HIDE DEF k, m
<1>10. /\ IsRows(m) /\ DOMAIN m = DOMAIN k \cup DOMAIN concurrent
       /\ \A r \in DOMAIN k \cup DOMAIN concurrent :
            Queued(m[r]) <=> (r \in DOMAIN k => Queued(k[r])) /\ (r \in DOMAIN concurrent => Queued(concurrent[r]))
       /\ TrueIn(m, used, Past)
  BY <1>6, <1>8, <1>9, MergeIs, MergeIsTrue DEF TrueIn
<1>11. Keeps(win.rows, m)
  <2>1. SUFFICES ASSUME NEW r \in DOMAIN win.rows \cap DOMAIN m, Queued(m[r])
                 PROVE  Queued(win.rows[r])
    BY DEF Keeps
  <2>2. CASE r \notin base
    BY <1>5, <1>10, <2>1, <2>2
  <2>3. CASE r \in base
    <3>1. r \in DOMAIN k /\ Queued(k[r])
      BY <1>5, <1>10, <2>1, <2>3
    <3>2. CASE r \in DOMAIN first
      BY <1>5, <1>7, <1>8, <3>1, <3>2
    <3>3. CASE r \notin DOMAIN first
      <4>1. r \in DOMAIN page.rows /\ Queued(page.rows[r])
        BY <1>8, <3>1, <3>3
      <4>. QED
        BY <1>3, <1>5, <2>1, <2>3, <4>1 DEF Keeps
    <3>. QED
      BY <3>2, <3>3
  <2>. QED
    BY <2>2, <2>3
<1>12. IsWindow(w) /\ TrueIn(w.rows, used, Past) /\ Keeps(win.rows, w.rows)
  BY <1>4, <1>10, <1>11, PartIsTrue DEF Shows, IsWindow
<1>13. WindowInv' /\ RequestInv' /\ BaseInv' /\ win' = w
  BY <1>1, <1>2, <1>12, EndSyncStep
<1>14. TaskInv'
  BY <1>1, <1>2 DEF TaskInv
<1>. QED
  BY <1>2, <1>12, <1>13, <1>14

LEMMA SyncForwardStep ==
  ASSUME ViewInv, SyncForward
  PROVE  ViewInv' /\ Keeps(win.rows, win'.rows)
<1>. USE DEF ViewInv, BrowserInv
<1>. DEFINE page == sync.page
            w == ApplyForward(win, page)
<1>1. UNCHANGED vars /\ UNCHANGED hubRows /\ recons' = recons /\ sync.at = "answered"
  BY DEF SyncForward
<1>2. RowsInv' /\ StreamTrue' /\ used' = used /\ Past' = Past
  BY <1>1, HubStays, RowsSame
<1>3. IsWindow(win) /\ TrueIn(win.rows, used, Past) /\ TrueIn(page.rows, used, Past)
  BY <1>1 DEF WindowInv, RequestInv, IsRequest
<1>4. Shows(w, Merge(win.rows, page.rows))
  BY <1>3, ApplyForwardIs DEF TrueIn
<1>5. \/ EndSync(w, TRUE)
      \/ /\ win' = w /\ older' = older
         /\ sync' = [sync EXCEPT !.at = "asked", !.page = <<>>, !.ask.after = page.after,
                       !.ask.until = IF @ = 0 THEN page.head ELSE @]
  BY DEF SyncForward
<1>. HIDE DEF w
<1>6. IsWindow(w) /\ TrueIn(w.rows, used, Past) /\ Keeps(win.rows, w.rows)
  <2>. DEFINE m == Merge(win.rows, page.rows)
  <2>1. TrueIn(m, used, Past) /\ Keeps(win.rows, m)
    BY <1>3, MergeIsTrue
  <2>2. IsWindow(w) /\ IsRows(w.rows) /\ Part(w.rows, m)
    BY <1>4 DEF Shows, IsWindow
  <2>. HIDE DEF m
  <2>. QED
    BY <2>1, <2>2, PartIsTrue
<1>7. WindowInv' /\ RequestInv' /\ BaseInv' /\ win' = w
  <2>1. CASE EndSync(w, TRUE)
    BY <1>2, <1>6, <2>1, EndSyncStep
  <2>2. CASE /\ win' = w /\ older' = older
             /\ sync' = [sync EXCEPT !.at = "asked", !.page = <<>>, !.ask.after = page.after,
                           !.ask.until = IF @ = 0 THEN page.head ELSE @]
    <3>. DEFINE ask == sync'.ask
    <3>1. sync' = [at |-> "asked", ask |-> ask, page |-> <<>>, replace |-> sync.replace, covers |-> sync.covers]
      BY <2>2 DEF RequestInv, IsRequest
    <3>. HIDE DEF ask
    <3>2. RequestInv'
      BY <1>1, <1>2, <2>2, <3>1 DEF RequestInv, IsRequest
    <3>3. BaseInv'
      BY <3>1 DEF BaseInv
    <3>. QED
      BY <1>2, <1>6, <2>2, <3>2, <3>3 DEF WindowInv
  <2>. QED
    BY <1>5, <2>1, <2>2
<1>8. TaskInv'
  BY <1>1, <1>2 DEF TaskInv
<1>. QED
  BY <1>2, <1>6, <1>7, <1>8

LEMMA SyncFailsStep ==
  ASSUME ViewInv, SyncFails
  PROVE  ViewInv' /\ Keeps(win.rows, win'.rows)
<1>. USE DEF ViewInv, BrowserInv
<1>1. UNCHANGED vars /\ UNCHANGED hubRows /\ recons' = recons /\ EndSync(win, FALSE)
  BY DEF SyncFails
<1>2. RowsInv' /\ StreamTrue' /\ used' = used /\ Past' = Past
  BY <1>1, HubStays, RowsSame
<1>3. WindowInv' /\ RequestInv' /\ BaseInv' /\ win' = win
  BY <1>1, <1>2, EndSyncStep DEF WindowInv
<1>4. TaskInv'
  BY <1>1, <1>2 DEF TaskInv
<1>. QED
  BY <1>2, <1>3, <1>4 DEF Keeps

-----------------------------------------------------------------------------
(* Rows shown that were untouched since the run asked are fewer, or consumed, now. *)
LEMMA BaseShrinks ==
  ASSUME BaseInv, IsRows(win.rows), IsRows(win'.rows), sync'.at = sync.at, sync'.page = sync.page, base' \subseteq base,
         \A r \in DOMAIN win'.rows \cap base' :
            r \in DOMAIN win.rows /\ (~Queued(win'.rows[r]) => ~Queued(win.rows[r]))
  PROVE  BaseInv'
<1>. SUFFICES ASSUME sync.at = "answered" PROVE Keeps(Only(win'.rows, base'), sync.page.rows)
  BY DEF BaseInv
<1>1. Keeps(Only(win.rows, base), sync.page.rows)
  BY DEF BaseInv
<1>2. /\ DOMAIN Only(win.rows, base) = DOMAIN win.rows \cap base
      /\ \A r \in DOMAIN win.rows \cap base : Only(win.rows, base)[r] = win.rows[r]
  BY OnlyIs
<1>3. /\ DOMAIN Only(win'.rows, base') = DOMAIN win'.rows \cap base'
      /\ \A r \in DOMAIN win'.rows \cap base' : Only(win'.rows, base')[r] = win'.rows[r]
  BY OnlyIs
<1>. QED
  BY <1>1, <1>2, <1>3 DEF Keeps

LEMMA ReconcileAskStep ==
  ASSUME ViewInv, NEW task \in recons, ReconcileAsk(task)
  PROVE  ViewInv' /\ Keeps(win.rows, win'.rows)
<1>. USE DEF ViewInv, BrowserInv
<1>. DEFINE ids == DOMAIN Where(win.rows, Queued)
            asked == [task EXCEPT !.at = "asked", !.ids = ids]
<1>1. /\ UNCHANGED vars /\ UNCHANGED hubRows /\ UNCHANGED <<win, sync, base, older>>
      /\ recons' = (recons \ {task}) \cup (IF ids = {} THEN {} ELSE {asked})
  BY DEF ReconcileAsk
<1>2. RowsInv' /\ StreamTrue' /\ used' = used /\ Past' = Past
  BY <1>1, HubStays, RowsSame
<1>3. ids \subseteq used
  <2>1. TrueIn(win.rows, used, Past) /\ IsRows(win.rows)
    BY DEF WindowInv, IsWindow
  <2>2. ids \subseteq DOMAIN win.rows
    BY <2>1, QueuedIs
  <2>. QED
    BY <2>1, <2>2 DEF TrueIn
<1>. HIDE DEF ids
<1>4. IsTask(asked, used, Past)
  <2>1. task = [at |-> task.at, ids |-> task.ids, queued |-> task.queued, invoked |-> task.invoked]
    BY DEF TaskInv, IsTask
  <2>0. asked = [task EXCEPT !.at = "asked", !.ids = ids]
    OBVIOUS
  <2>. HIDE DEF asked
  <2>2. asked = [at |-> "asked", ids |-> ids, queued |-> task.queued, invoked |-> task.invoked]
    BY <2>0, <2>1
  <2>. QED
    BY <1>3, <2>2 DEF IsTask
<1>. HIDE DEF asked
<1>5. TaskInv'
  BY <1>1, <1>2, <1>4 DEF TaskInv
<1>6. WindowInv' /\ RequestInv' /\ BaseInv'
  BY <1>1, <1>2 DEF WindowInv, RequestInv, BaseInv
<1>. QED
  BY <1>1, <1>2, <1>5, <1>6 DEF Keeps

LEMMA ReconcileServeStep ==
  ASSUME ViewInv, NEW task \in recons, ReconcileServe(task)
  PROVE  ViewInv' /\ Keeps(win.rows, win'.rows)
<1>. USE DEF ViewInv, BrowserInv
<1>. DEFINE known == Only(row, task.ids)
            queued == DOMAIN Where(known, Queued)
            invoked == Where(known, LAMBDA b : ~Queued(b))
            answer == [task EXCEPT !.at = "answered", !.queued = queued, !.invoked = invoked]
<1>1. /\ UNCHANGED vars /\ UNCHANGED hubRows /\ UNCHANGED <<win, sync, base, older>>
      /\ recons' = (recons \ {task}) \cup {answer}
  BY DEF ReconcileServe
<1>2. RowsInv' /\ StreamTrue' /\ used' = used /\ Past' = Past
  BY <1>1, HubStays, RowsSame
<1>3. /\ task = [at |-> task.at, ids |-> task.ids, queued |-> task.queued, invoked |-> task.invoked]
      /\ task.ids \subseteq used
  BY DEF TaskInv, IsTask
<1>4. /\ IsRows(known) /\ DOMAIN known = DOMAIN row \cap task.ids
      /\ \A r \in DOMAIN row \cap task.ids : known[r] = row[r]
  BY OnlyIs DEF RowsInv
<1>. HIDE DEF known
<1>5. queued = {r \in DOMAIN known : Queued(known[r])}
  BY <1>4, QueuedIs
<1>6. /\ DOMAIN invoked = {r \in DOMAIN known : ~Queued(known[r])} /\ IsRows(invoked)
      /\ \A r \in DOMAIN invoked : invoked[r] = known[r]
  BY <1>4 DEF Where, IsRows
<1>. HIDE DEF queued, invoked
<1>7. task.ids \ queued \subseteq Past
  BY <1>3, <1>4, <1>5 DEF Past
<1>8. IsTask(answer, used, Past)
  <2>0. answer = [task EXCEPT !.at = "answered", !.queued = queued, !.invoked = invoked]
    OBVIOUS
  <2>. HIDE DEF answer
  <2>1. answer = [at |-> "answered", ids |-> task.ids, queued |-> queued, invoked |-> invoked]
    BY <1>3, <2>0
  <2>. QED
    BY <1>3, <1>4, <1>5, <1>6, <1>7, <2>1 DEF IsTask
<1>. HIDE DEF answer
<1>9. TaskInv'
  BY <1>1, <1>2, <1>8 DEF TaskInv
<1>10. WindowInv' /\ RequestInv' /\ BaseInv'
  BY <1>1, <1>2 DEF WindowInv, RequestInv, BaseInv
<1>. QED
  BY <1>1, <1>2, <1>9, <1>10 DEF Keeps

LEMMA ReconcileApplyStep ==
  ASSUME ViewInv, NEW task \in recons, ReconcileApply(task)
  PROVE  ViewInv' /\ Keeps(win.rows, win'.rows)
<1>. USE DEF ViewInv, BrowserInv
<1>. DEFINE changed == DOMAIN task.invoked \cap DOMAIN Where(win.rows, Queued)
            now == [r \in DOMAIN win.rows |->
                      IF r \in changed THEN [win.rows[r] EXCEPT !.invoked = task.invoked[r].invoked] ELSE win.rows[r]]
            gone == {r \in task.ids \ task.queued : r \in DOMAIN now /\ Queued(now[r])}
            f == Only(now, DOMAIN now \ gone)
<1>1. /\ UNCHANGED vars /\ UNCHANGED hubRows /\ UNCHANGED <<sync, older>> /\ task.at = "answered"
      /\ recons' = recons \ {task} /\ win' = [win EXCEPT !.rows = f] /\ base' = base \ (changed \cup gone)
  BY DEF ReconcileApply
<1>2. RowsInv' /\ StreamTrue' /\ used' = used /\ Past' = Past
  BY <1>1, HubStays, RowsSame
<1>3. IsWindow(win) /\ IsRows(win.rows) /\ TrueIn(win.rows, used, Past)
  BY DEF WindowInv, IsWindow
<1>4. /\ IsRows(task.invoked) /\ \A r \in DOMAIN task.invoked : ~Queued(task.invoked[r]) /\ r \in Past
  BY <1>1 DEF TaskInv, IsTask
<1>5. changed \subseteq DOMAIN task.invoked /\ changed \subseteq DOMAIN win.rows
  BY <1>3, QueuedIs
<1>. HIDE DEF changed
<1>6. /\ DOMAIN now = DOMAIN win.rows /\ now = [r \in DOMAIN now |-> now[r]]
      /\ \A r \in DOMAIN win.rows :
           now[r] = IF r \in changed THEN [win.rows[r] EXCEPT !.invoked = task.invoked[r].invoked] ELSE win.rows[r]
  OBVIOUS
<1>. HIDE DEF now
<1>7. ASSUME NEW r \in DOMAIN now
      PROVE  /\ now[r] \in Body /\ r \in Rows
             /\ r \in changed => ~Queued(now[r]) /\ r \in Past
             /\ r \notin changed => now[r] = win.rows[r]
  <2>1. r \in Rows /\ win.rows[r] \in Body
    BY <1>3, <1>6 DEF IsRows
  <2>2. CASE r \in changed
    <3>1. task.invoked[r] \in Body /\ ~Queued(task.invoked[r]) /\ r \in Past
      BY <1>4, <1>5, <2>2 DEF IsRows
    <3>2. now[r] = [win.rows[r] EXCEPT !.invoked = task.invoked[r].invoked]
      BY <1>6, <2>2
    <3>3. now[r] \in Body /\ now[r].invoked = task.invoked[r].invoked
      BY <2>1, <3>1, <3>2 DEF Body
    <3>. QED
      BY <2>1, <2>2, <3>1, <3>3 DEF Queued
  <2>3. CASE r \notin changed
    BY <1>6, <2>1, <2>3
  <2>. QED
    BY <2>2, <2>3
<1>8. IsRows(now)
  BY <1>3, <1>6, <1>7 DEF IsRows
<1>9. /\ IsRows(f) /\ DOMAIN f = DOMAIN now \ gone /\ Part(f, now)
      /\ \A r \in DOMAIN f : f[r] = now[r]
  <2>. DEFINE S == DOMAIN now \ gone
  <2>. HIDE DEF S
  <2>1. /\ IsRows(Only(now, S)) /\ DOMAIN Only(now, S) = DOMAIN now \cap S /\ Part(Only(now, S), now)
        /\ \A r \in DOMAIN now \cap S : Only(now, S)[r] = now[r]
    BY <1>8, OnlyIs
  <2>2. DOMAIN now \cap S = DOMAIN now \ gone
    BY DEF S
  <2>. QED
    BY <2>1, <2>2 DEF S
<1>. HIDE DEF f
<1>10. win' = [rows |-> f, epoch |-> win.epoch, newest |-> win.newest, oldest |-> win.oldest,
               more |-> win.more, stale |-> win.stale, mode |-> win.mode]
  BY <1>1, <1>3 DEF IsWindow
<1>11. IsWindow(win') /\ win'.rows = f
  BY <1>9, <1>10 DEF IsWindow
<1>12. TrueIn(f, used, Past)
  BY <1>3, <1>6, <1>7, <1>9 DEF TrueIn
<1>13. WindowInv'
  BY <1>2, <1>11, <1>12 DEF WindowInv
<1>14. RequestInv' /\ TaskInv'
  BY <1>1, <1>2 DEF RequestInv, TaskInv
<1>15. BaseInv'
  <2>1. \A r \in DOMAIN win'.rows \cap base' :
          r \in DOMAIN win.rows /\ (~Queued(win'.rows[r]) => ~Queued(win.rows[r]))
    BY <1>1, <1>6, <1>7, <1>9, <1>11
  <2>2. IsRows(win'.rows) /\ base' \subseteq base /\ sync' = sync
    BY <1>1, <1>9, <1>11
  <2>. QED
    BY <1>3, <2>1, <2>2, BaseShrinks
<1>16. Keeps(win.rows, win'.rows)
  BY <1>6, <1>7, <1>9, <1>11 DEF Keeps
<1>. QED
  BY <1>2, <1>13, <1>14, <1>15, <1>16

LEMMA ReconcileFailsStep ==
  ASSUME ViewInv, NEW task \in recons, ReconcileFails(task)
  PROVE  ViewInv' /\ Keeps(win.rows, win'.rows)
<1>. USE DEF ViewInv, BrowserInv
<1>1. /\ UNCHANGED vars /\ UNCHANGED hubRows /\ UNCHANGED <<win, sync, base, older>>
      /\ recons' = recons \ {task}
  BY DEF ReconcileFails
<1>2. RowsInv' /\ StreamTrue' /\ used' = used /\ Past' = Past
  BY <1>1, HubStays, RowsSame
<1>3. TaskInv' /\ WindowInv' /\ RequestInv' /\ BaseInv'
  BY <1>1, <1>2 DEF WindowInv, RequestInv, BaseInv, TaskInv
<1>. QED
  BY <1>1, <1>2, <1>3 DEF Keeps

-----------------------------------------------------------------------------
(* Steps of the reader *)

LEMMA ScrollBackStep ==
  ASSUME ViewInv, ScrollBack
  PROVE  ViewInv' /\ Keeps(win.rows, win'.rows)
<1>. USE DEF ViewInv, BrowserInv
<1>1. /\ UNCHANGED vars /\ UNCHANGED hubRows /\ UNCHANGED <<recons, sync, base, older>>
      /\ win' = [win EXCEPT !.mode = "history"]
  BY DEF ScrollBack
<1>2. RowsInv' /\ StreamTrue' /\ used' = used /\ Past' = Past
  BY <1>1, HubStays, RowsSame
<1>3. IsWindow(win') /\ win'.rows = win.rows
  BY <1>1 DEF WindowInv, IsWindow
<1>4. TaskInv' /\ WindowInv' /\ RequestInv' /\ BaseInv'
  BY <1>1, <1>2, <1>3 DEF WindowInv, RequestInv, BaseInv, TaskInv
<1>. QED
  BY <1>2, <1>3, <1>4 DEF Keeps

LEMMA EnsureSyncStep ==
  ASSUME ViewInv, NEW w, IsWindow(w), Part(w.rows, win.rows), EnsureSync(w),
         UNCHANGED vars, UNCHANGED hubRows, recons' = recons
  PROVE  ViewInv' /\ Keeps(win.rows, win'.rows)
<1>. USE DEF ViewInv, BrowserInv
<1>1. RowsInv' /\ StreamTrue' /\ used' = used /\ Past' = Past
  BY HubStays, RowsSame
<1>2. TrueIn(w.rows, used, Past) /\ IsRows(w.rows) /\ IsRows(win.rows) /\ Keeps(win.rows, w.rows)
  BY DEF IsWindow, WindowInv, TrueIn, Part, Keeps
<1>3. CASE sync.at = "idle"
  <2>1. StartSync(w) /\ TrueIn(w.rows, used', Past')
    BY <1>1, <1>2, <1>3 DEF EnsureSync
  <2>2. WindowInv' /\ RequestInv' /\ BaseInv' /\ win' = w
    BY <2>1, StartSyncStep
  <2>3. TaskInv'
    BY <1>1 DEF TaskInv
  <2>. QED
    BY <1>1, <1>2, <2>2, <2>3
<1>4. CASE sync.at # "idle"
  <2>1. win' = w /\ UNCHANGED <<sync, base, older>>
    BY <1>4 DEF EnsureSync
  <2>2. WindowInv' /\ RequestInv' /\ TaskInv'
    BY <1>1, <1>2, <2>1 DEF WindowInv, RequestInv, TaskInv
  <2>3. BaseInv'
    <3>1. \A r \in DOMAIN win'.rows \cap base' :
            r \in DOMAIN win.rows /\ (~Queued(win'.rows[r]) => ~Queued(win.rows[r]))
      BY <2>1 DEF Part
    <3>. QED
      BY <1>2, <2>1, <3>1, BaseShrinks
  <2>. QED
    BY <1>1, <1>2, <2>1, <2>2, <2>3
<1>. QED
  BY <1>3, <1>4

LEMMA ReturnToTailStep ==
  ASSUME ViewInv, ReturnToTail
  PROVE  ViewInv' /\ Keeps(win.rows, win'.rows)
<1>. DEFINE w == EnterTail(win)
<1>1. UNCHANGED vars /\ UNCHANGED hubRows /\ recons' = recons /\ EnsureSync(w)
  BY DEF ReturnToTail
<1>2. IsWindow(w) /\ Part(w.rows, win.rows)
  BY EnterTailIs DEF ViewInv, BrowserInv, WindowInv, Shows
<1>. HIDE DEF w
<1>. QED
  BY <1>1, <1>2, EnsureSyncStep

LEMMA LoadOlderStep ==
  ASSUME ViewInv, LoadOlder
  PROVE  ViewInv' /\ Keeps(win.rows, win'.rows)
<1>. USE DEF ViewInv, BrowserInv
<1>1. /\ UNCHANGED vars /\ UNCHANGED hubRows /\ UNCHANGED <<recons, win, sync, base>> /\ sync.at = "idle"
      /\ older' = [at |-> "asked", page |-> <<>>, replace |-> FALSE, covers |-> FALSE,
                   ask |-> [after |-> 0, until |-> 0, epoch |-> win.epoch, before |-> win.oldest]]
  BY DEF LoadOlder
<1>2. RowsInv' /\ StreamTrue' /\ used' = used /\ Past' = Past
  BY <1>1, HubStays, RowsSame
<1>3. RequestInv'
  <2>1. IsRequest(older', used, Past)
    BY <1>1 DEF IsRequest
  <2>. QED
    BY <1>1, <1>2, <2>1 DEF RequestInv
<1>4. TaskInv' /\ WindowInv' /\ BaseInv'
  BY <1>1, <1>2 DEF WindowInv, BaseInv, TaskInv
<1>. QED
  BY <1>1, <1>2, <1>3, <1>4 DEF Keeps

LEMMA OlderServeStep ==
  ASSUME ViewInv, OlderServe
  PROVE  ViewInv' /\ Keeps(win.rows, win'.rows)
<1>. USE DEF ViewInv, BrowserInv
<1>. DEFINE page == Page(older.ask)
<1>1. /\ UNCHANGED vars /\ UNCHANGED hubRows /\ UNCHANGED <<recons, win, sync, base>> /\ older.at = "asked"
      /\ older' = [older EXCEPT !.at = "answered", !.page = page]
  BY DEF OlderServe
<1>2. RowsInv' /\ StreamTrue' /\ used' = used /\ Past' = Past
  BY <1>1, HubStays, RowsSame
<1>3. TrueIn(page.rows, used, Past)
  BY PageIsTrue
<1>. HIDE DEF page
<1>4. IsRequest([older EXCEPT !.at = "answered", !.page = page], used, Past)
  <2>1. IsRequest(older, used, Past)
    BY DEF RequestInv
  <2>. QED
    BY <1>3, <2>1, AnsweredIs
<1>5. RequestInv'
  BY <1>1, <1>2, <1>4 DEF RequestInv
<1>6. TaskInv' /\ WindowInv' /\ BaseInv'
  BY <1>1, <1>2 DEF WindowInv, BaseInv, TaskInv
<1>. QED
  BY <1>1, <1>2, <1>5, <1>6 DEF Keeps

LEMMA OlderApplyStep ==
  ASSUME ViewInv, OlderApply
  PROVE  ViewInv' /\ Keeps(win.rows, win'.rows)
<1>. USE DEF ViewInv, BrowserInv
<1>. DEFINE page == older.page
            merged == MergeIntoWindow(win, page.rows, "prepend", OlderLimit)
            m == Merge(win.rows, page.rows)
<1>1. UNCHANGED vars /\ UNCHANGED hubRows /\ recons' = recons /\ older.at = "answered"
  BY DEF OlderApply
<1>2. RowsInv' /\ StreamTrue' /\ used' = used /\ Past' = Past
  BY <1>1, HubStays, RowsSame
<1>3. IsWindow(win) /\ IsRows(win.rows) /\ TrueIn(win.rows, used, Past) /\ TrueIn(page.rows, used, Past)
  BY <1>1 DEF WindowInv, IsWindow, RequestInv, IsRequest
<1>4. CASE older.ask.epoch # NoEpoch /\ page.epoch # older.ask.epoch
  <2>. DEFINE w == [win EXCEPT !.epoch = NoEpoch, !.newest = 0, !.stale = TRUE]
  <2>1. EnsureSync(w)
    BY <1>4 DEF OlderApply
  <2>2. w = [win EXCEPT !.epoch = NoEpoch, !.newest = 0, !.stale = TRUE]
    OBVIOUS
  <2>. HIDE DEF w
  <2>3. w = [rows |-> win.rows, epoch |-> NoEpoch, newest |-> 0, oldest |-> win.oldest,
             more |-> win.more, stale |-> TRUE, mode |-> win.mode]
    BY <1>3, <2>2 DEF IsWindow
  <2>4. IsWindow(w) /\ Part(w.rows, win.rows)
    BY <1>3, <2>3 DEF IsWindow, Part
  <2>. QED
    BY <1>1, <2>1, <2>4, EnsureSyncStep
<1>5. CASE ~(older.ask.epoch # NoEpoch /\ page.epoch # older.ask.epoch)
  <2>1. /\ win' = [merged EXCEPT !.more = page.more, !.epoch = page.epoch, !.oldest = page.before]
        /\ older' = Idle /\ base' = base \ DOMAIN page.rows /\ sync' = sync
    BY <1>5 DEF OlderApply
  <2>2. Shows(merged, m) /\ TrueIn(m, used, Past) /\ Keeps(win.rows, m)
    BY <1>3, MergeIntoWindowIs, MergeIsTrue DEF TrueIn
  <2>3. \A r \in DOMAIN win.rows \ DOMAIN page.rows : m[r] = win.rows[r]
    BY DEF Merge
  <2>4. DOMAIN m = DOMAIN win.rows \cup DOMAIN page.rows
    BY DEF Merge
  <2>. HIDE DEF merged, m
  <2>5. win' = [rows |-> merged.rows, epoch |-> page.epoch, newest |-> merged.newest, oldest |-> page.before,
                more |-> page.more, stale |-> merged.stale, mode |-> merged.mode]
    BY <2>1, <2>2 DEF Shows, IsWindow
  <2>6. IsWindow(win') /\ win'.rows = merged.rows /\ Part(win'.rows, m) /\ IsRows(win'.rows)
    BY <2>2, <2>5 DEF Shows, IsWindow
  <2>7. TrueIn(win'.rows, used, Past) /\ Keeps(win.rows, win'.rows)
    BY <2>2, <2>6, PartIsTrue
  <2>8. WindowInv' /\ TaskInv'
    BY <1>1, <1>2, <2>6, <2>7 DEF WindowInv, TaskInv
  <2>9. RequestInv'
    <3>1. IsRequest(older', used, Past) /\ older'.at = "idle"
      BY <2>1 DEF IsRequest, Idle
    <3>. QED
      BY <1>2, <2>1, <3>1 DEF RequestInv
  <2>10. BaseInv'
    <3>1. \A r \in DOMAIN win'.rows \cap base' :
            r \in DOMAIN win.rows /\ (~Queued(win'.rows[r]) => ~Queued(win.rows[r]))
      BY <2>1, <2>3, <2>4, <2>6 DEF Part
    <3>. QED
      BY <1>3, <2>1, <2>6, <3>1, BaseShrinks
  <2>. QED
    BY <1>2, <2>7, <2>8, <2>9, <2>10
<1>. QED
  BY <1>4, <1>5

LEMMA OlderFailsStep ==
  ASSUME ViewInv, OlderFails
  PROVE  ViewInv' /\ Keeps(win.rows, win'.rows)
<1>. USE DEF ViewInv, BrowserInv
<1>1. /\ UNCHANGED vars /\ UNCHANGED hubRows /\ UNCHANGED <<recons, win, sync, base>> /\ older' = Idle
  BY DEF OlderFails
<1>2. RowsInv' /\ StreamTrue' /\ used' = used /\ Past' = Past
  BY <1>1, HubStays, RowsSame
<1>3. RequestInv'
  <2>1. IsRequest(older', used, Past) /\ older'.at = "idle"
    BY <1>1 DEF IsRequest, Idle
  <2>. QED
    BY <1>1, <1>2, <2>1 DEF RequestInv
<1>4. TaskInv' /\ WindowInv' /\ BaseInv'
  BY <1>1, <1>2 DEF WindowInv, BaseInv, TaskInv
<1>. QED
  BY <1>1, <1>2, <1>3, <1>4 DEF Keeps

-----------------------------------------------------------------------------
(* The browser handles a frame *)

LEMMA ChangeIs ==
  ASSUME NEW given, NEW past, NEW event \in Changes(given, past)
  PROVE  /\ event.kind \in {"received", "consumed", "cancelled", "invalidated"}
         /\ event.kind = "received" => TrueIn(event.rows, given, past)
         /\ event.kind = "consumed" => event.row \in past /\ event.at \in Nat \ {0}
         /\ event.kind = "cancelled" => event.row \in past
BY DEF Changes

LEMMA CoversOnly ==
  ASSUME NEW q, NEW given, NEW past, IsRequest(q, given, past), NEW covers
  PROVE  /\ IsRequest([q EXCEPT !.covers = covers], given, past)
         /\ [q EXCEPT !.covers = covers].at = q.at /\ [q EXCEPT !.covers = covers].page = q.page
<1>. DEFINE v == [q EXCEPT !.covers = covers]
<1>1. v = [q EXCEPT !.covers = covers]
  OBVIOUS
<1>2. q = [at |-> q.at, ask |-> q.ask, page |-> q.page, replace |-> q.replace, covers |-> q.covers]
  BY DEF IsRequest
<1>. HIDE DEF v
<1>3. v = [at |-> q.at, ask |-> q.ask, page |-> q.page, replace |-> q.replace, covers |-> covers]
  BY <1>1, <1>2
<1>4. IsRequest(v, given, past) /\ v.at = q.at /\ v.page = q.page
  BY <1>3 DEF IsRequest
<1>. QED
  BY <1>4 DEF v

LEMMA ReceivedShown ==
  ASSUME BrowserInv, used' = used, Past' = Past, NEW event, event.kind = "received",
         TrueIn(event.rows, used, Past), Show(event)
  PROVE  BrowserInv' /\ Keeps(win.rows, win'.rows)
<1>. USE DEF BrowserInv
<1>. DEFINE w == Ingest(win, event.rows)
            m == Merge(win.rows, event.rows)
            lost == sync.at # "idle" /\ ~((DOMAIN win.rows \ base) \cup DOMAIN event.rows \subseteq DOMAIN win'.rows)
            covers == sync.covers /\ ~lost
<1>1. /\ win' = w /\ base' = base \ DOMAIN event.rows /\ older' = older /\ recons' = recons
      /\ sync' = [sync EXCEPT !.covers = covers]
  BY DEF Show
<1>2. IsWindow(win) /\ IsRows(win.rows) /\ TrueIn(win.rows, used, Past) /\ IsRows(event.rows)
  BY DEF WindowInv, IsWindow, TrueIn
<1>3. Shows(w, m) /\ TrueIn(m, used, Past) /\ Keeps(win.rows, m)
  BY <1>2, IngestIs, MergeIsTrue
<1>4. /\ DOMAIN m = DOMAIN win.rows \cup DOMAIN event.rows
      /\ \A r \in DOMAIN win.rows \ DOMAIN event.rows : m[r] = win.rows[r]
  BY DEF Merge
<1>. HIDE DEF w, m, lost, covers
<1>5. IsWindow(w) /\ IsRows(w.rows) /\ Part(w.rows, m) /\ TrueIn(w.rows, used, Past) /\ Keeps(win.rows, w.rows)
  <2>1. IsWindow(w) /\ IsRows(w.rows) /\ Part(w.rows, m)
    BY <1>3 DEF Shows, IsWindow
  <2>. QED
    BY <1>3, <2>1, PartIsTrue
<1>6. WindowInv' /\ TaskInv'
  BY <1>1, <1>5 DEF WindowInv, TaskInv
<1>7. IsRequest(sync', used, Past) /\ sync'.at = sync.at /\ sync'.page = sync.page
  <2>1. IsRequest(sync, used, Past)
    BY DEF RequestInv
  <2>2. /\ IsRequest([sync EXCEPT !.covers = covers], used, Past)
        /\ [sync EXCEPT !.covers = covers].at = sync.at /\ [sync EXCEPT !.covers = covers].page = sync.page
    BY <2>1, CoversOnly
  <2>. QED
    BY <1>1, <2>2
<1>8. RequestInv'
  BY <1>1, <1>7 DEF RequestInv
<1>9. BaseInv'
  <2>1. \A r \in DOMAIN win'.rows \cap base' :
          r \in DOMAIN win.rows /\ (~Queued(win'.rows[r]) => ~Queued(win.rows[r]))
    BY <1>1, <1>4, <1>5 DEF Part
  <2>2. IsRows(win'.rows) /\ base' \subseteq base
    BY <1>1, <1>5
  <2>. QED
    BY <1>2, <1>7, <2>1, <2>2, BaseShrinks
<1>. QED
  BY <1>1, <1>5, <1>6, <1>8, <1>9

LEMMA ConsumedShown ==
  ASSUME BrowserInv, used' = used, Past' = Past, NEW event, event.kind = "consumed",
         event.row \in Past, event.at \in Nat \ {0}, Show(event)
  PROVE  BrowserInv' /\ Keeps(win.rows, win'.rows)
<1>. USE DEF BrowserInv
<1>. DEFINE w == MarkConsumed(win, event.row, event.at)
<1>1. win' = w /\ base' = base \ {event.row} /\ UNCHANGED <<sync, older, recons>>
  BY DEF Show
<1>2. IsWindow(win) /\ IsRows(win.rows) /\ TrueIn(win.rows, used, Past)
  BY DEF WindowInv, IsWindow
<1>3. /\ IsWindow(w) /\ DOMAIN w.rows = DOMAIN win.rows
      /\ \A q \in DOMAIN win.rows : Queued(w.rows[q]) <=> Queued(win.rows[q]) /\ q # event.row
  BY <1>2, MarkConsumedIs
<1>. HIDE DEF w
<1>4. TrueIn(w.rows, used, Past)
  BY <1>2, <1>3 DEF TrueIn, IsWindow
<1>5. WindowInv' /\ TaskInv' /\ RequestInv'
  BY <1>1, <1>3, <1>4 DEF WindowInv, TaskInv, RequestInv
<1>6. BaseInv'
  <2>1. \A r \in DOMAIN win'.rows \cap base' :
          r \in DOMAIN win.rows /\ (~Queued(win'.rows[r]) => ~Queued(win.rows[r]))
    BY <1>1, <1>3
  <2>2. IsRows(win'.rows) /\ base' \subseteq base
    BY <1>1, <1>3 DEF IsWindow
  <2>. QED
    BY <1>1, <1>2, <2>1, <2>2, BaseShrinks
<1>7. Keeps(win.rows, win'.rows)
  BY <1>1, <1>3 DEF Keeps
<1>. QED
  BY <1>5, <1>6, <1>7

LEMMA CancelledShown ==
  ASSUME BrowserInv, used' = used, Past' = Past, NEW event, event.kind = "cancelled", Show(event)
  PROVE  BrowserInv' /\ Keeps(win.rows, win'.rows)
<1>. USE DEF BrowserInv
<1>. DEFINE w == Discard(win, {event.row})
<1>1. win' = w /\ UNCHANGED <<sync, base, older, recons>>
  BY DEF Show
<1>2. IsWindow(win) /\ IsRows(win.rows) /\ TrueIn(win.rows, used, Past)
  BY DEF WindowInv, IsWindow
<1>3. IsWindow(w) /\ IsRows(w.rows) /\ Part(w.rows, win.rows)
  BY <1>2, DiscardIs DEF Shows, IsWindow
<1>. HIDE DEF w
<1>4. TrueIn(w.rows, used, Past)
  BY <1>2, <1>3, PartIsTrue
<1>5. WindowInv' /\ TaskInv' /\ RequestInv'
  BY <1>1, <1>3, <1>4 DEF WindowInv, TaskInv, RequestInv
<1>6. BaseInv'
  <2>1. \A r \in DOMAIN win'.rows \cap base' :
          r \in DOMAIN win.rows /\ (~Queued(win'.rows[r]) => ~Queued(win.rows[r]))
    BY <1>1, <1>3 DEF Part
  <2>. QED
    BY <1>1, <1>2, <1>3, <2>1, BaseShrinks
<1>7. Keeps(win.rows, win'.rows)
  BY <1>1, <1>3 DEF Keeps, Part
<1>. QED
  BY <1>5, <1>6, <1>7

LEMMA FreedIs ==
  ASSUME NEW task, NEW given, NEW past, IsTask(task, given, past)
  PROVE  IsTask([task EXCEPT !.at = "free"], given, past)
<1>. DEFINE v == [task EXCEPT !.at = "free"]
<1>1. v = [task EXCEPT !.at = "free"]
  OBVIOUS
<1>2. task = [at |-> task.at, ids |-> task.ids, queued |-> task.queued, invoked |-> task.invoked]
  BY DEF IsTask
<1>. HIDE DEF v
<1>3. v = [at |-> "free", ids |-> task.ids, queued |-> task.queued, invoked |-> task.invoked]
  BY <1>1, <1>2
<1>4. IsTask(v, given, past)
  BY <1>3 DEF IsTask
<1>. QED
  BY <1>4 DEF v

LEMMA InvalidatedShown ==
  ASSUME BrowserInv, used' = used, Past' = Past, NEW event, event.kind = "invalidated", Show(event)
  PROVE  BrowserInv' /\ Keeps(win.rows, win'.rows)
<1>. USE DEF BrowserInv
<1>1. /\ StartSync(EmptyWindow)
      /\ recons' = {IF task.at = "draining" THEN [task EXCEPT !.at = "free"] ELSE task : task \in recons}
  BY DEF Show, Invalidate
<1>2. /\ IsWindow(EmptyWindow) /\ TrueIn(EmptyWindow.rows, used, Past) /\ DOMAIN EmptyWindow.rows = {}
  BY DEF EmptyWindow, Nothing, IsWindow, IsRows, TrueIn
<1>3. WindowInv' /\ RequestInv' /\ BaseInv' /\ win' = EmptyWindow
  <2>1. TrueIn(EmptyWindow.rows, used', Past')
    BY <1>2
  <2>. DEFINE w == EmptyWindow
  <2>2. StartSync(w) /\ IsWindow(w) /\ TrueIn(w.rows, used', Past')
    BY <1>1, <1>2, <2>1
  <2>. HIDE DEF w
  <2>3. WindowInv' /\ RequestInv' /\ BaseInv' /\ win' = w
    BY <2>2, StartSyncStep
  <2>. QED
    BY <2>3 DEF w
<1>4. TaskInv'
  <2>1. SUFFICES ASSUME NEW task \in recons'
                 PROVE  IsTask(task, used, Past)
    BY DEF TaskInv
  <2>2. PICK old \in recons : task = IF old.at = "draining" THEN [old EXCEPT !.at = "free"] ELSE old
    BY <1>1
  <2>3. IsTask(old, used, Past)
    BY DEF TaskInv
  <2>. QED
    BY <2>2, <2>3, FreedIs
<1>5. Keeps(win.rows, win'.rows)
  BY <1>2, <1>3 DEF Keeps
<1>. QED
  BY <1>3, <1>4, <1>5

LEMMA GapShown ==
  ASSUME BrowserInv, used' = used, Past' = Past, GapTold
  PROVE  BrowserInv' /\ Keeps(win.rows, win'.rows)
<1>. USE DEF BrowserInv
<1>1. IsWindow(win) /\ TrueIn(win.rows, used, Past)
  BY DEF WindowInv
<1>2. TaskInv'
  <2>1. recons' = recons \cup {Draining}
    BY DEF GapTold
  <2>2. IsTask(Draining, used, Past)
    BY DEF IsTask, Draining
  <2>. QED
    BY <2>1, <2>2 DEF TaskInv
<1>3. CASE sync.at = "idle"
  <2>1. StartSync(win) /\ TrueIn(win.rows, used', Past')
    BY <1>1, <1>3 DEF GapTold
  <2>2. WindowInv' /\ RequestInv' /\ BaseInv' /\ win' = win
    BY <1>1, <2>1, StartSyncStep
  <2>. QED
    BY <1>2, <2>2 DEF Keeps
<1>4. CASE sync.at # "idle"
  <2>1. UNCHANGED <<win, base, older>> /\ sync' = [sync EXCEPT !.covers = FALSE]
    BY <1>4 DEF GapTold
  <2>2. IsRequest(sync', used, Past) /\ sync'.at = sync.at /\ sync'.page = sync.page
    <3>1. IsRequest(sync, used, Past)
      BY DEF RequestInv
    <3>2. /\ IsRequest([sync EXCEPT !.covers = FALSE], used, Past)
          /\ [sync EXCEPT !.covers = FALSE].at = sync.at /\ [sync EXCEPT !.covers = FALSE].page = sync.page
      BY <3>1, CoversOnly
    <3>. QED
      BY <2>1, <3>2
  <2>3. WindowInv' /\ RequestInv' /\ BaseInv'
    BY <2>1, <2>2 DEF WindowInv, RequestInv, BaseInv
  <2>. QED
    BY <1>2, <2>1, <2>3 DEF Keeps
<1>. QED
  BY <1>3, <1>4

LEMMA HandleStep ==
  ASSUME ViewInv, Handle
  PROVE  ViewInv' /\ Keeps(win.rows, win'.rows) /\ [Feed!Next]_Feed!feed
<1>1. HandleFrame /\ UNCHANGED hubRows
  BY DEF Handle
<1>2. PICK E : E = Changes(used, Past) /\ StreamInv(E)
  BY DEF ViewInv, StreamTrue
<1>3. /\ StreamInv(E)' /\ Head(wire) \in FrameOf(E)
      /\ Head(wire).verdict = "none" => IsNumber(Hub, Head(wire), position + 1)
      /\ [Feed!Next]_Feed!feed
  BY <1>1, <1>2, HandleFrameKeeps, HandleFeeds
<1>4. used' = used /\ Past' = Past /\ RowsInv'
  BY <1>1, RowsSame DEF ViewInv
<1>5. StreamTrue'
  BY <1>2, <1>3, <1>4 DEF StreamTrue
<1>6. BrowserInv
  BY DEF ViewInv
<1>. DEFINE frame == Head(wire)
<1>7. CASE frame.verdict = "none"
  <2>1. Show(frame.event)
    BY <1>7 DEF Handle
  <2>2. frame.event \in Changes(used, Past)
    BY <1>2, <1>3, <1>7 DEF FrameOf, IsNumber, ShouldSend
  <2>. HIDE DEF frame
  <2>. DEFINE event == frame.event
  <2>3. Show(event) /\ event \in Changes(used, Past)
    BY <2>1, <2>2
  <2>. HIDE DEF event
  <2>4. BrowserInv' /\ Keeps(win.rows, win'.rows)
    BY <1>4, <1>6, <2>3, ChangeIs, ReceivedShown, ConsumedShown, CancelledShown, InvalidatedShown
  <2>. QED
    BY <1>3, <1>4, <1>5, <2>4 DEF ViewInv
<1>8. CASE frame.verdict = "gap"
  <2>1. GapTold
    BY <1>8 DEF Handle
  <2>2. BrowserInv' /\ Keeps(win.rows, win'.rows)
    BY <1>4, <1>6, <2>1, GapShown
  <2>. QED
    BY <1>3, <1>4, <1>5, <2>2 DEF ViewInv
<1>9. CASE frame.verdict = "ok"
  <2>1. UNCHANGED window
    BY <1>9 DEF Handle
  <2>2. BrowserInv'
    BY <1>4, <1>6, <2>1, BrowserSame
  <2>3. win' = win
    BY <2>1 DEF window
  <2>. QED
    BY <1>3, <1>4, <1>5, <2>2, <2>3 DEF ViewInv, Keeps
<1>. QED
  BY <1>3, <1>7, <1>8, <1>9 DEF FrameOf

-----------------------------------------------------------------------------
(* LiveView *)

LEMMA ViewInit_ == ViewInit => ViewInv
<1>. SUFFICES ASSUME ViewInit PROVE ViewInv
  OBVIOUS
<1>. USE DEF ViewInit
<1>1. RowsInv
  BY FS_EmptySet DEF RowsInv, IsRows, Nothing
<1>2. StreamTrue
  <2>1. StreamInv(Changes(used, Past))
    BY InitStream
  <2>. QED
    BY <2>1 DEF StreamTrue
<1>3. WindowInv
  BY DEF WindowInv, EmptyWindow, Nothing, IsWindow, IsRows, TrueIn
<1>4. RequestInv /\ BaseInv
  <2>. DEFINE ask == Ask(EmptyWindow)
  <2>1. sync = [at |-> "asked", ask |-> ask, page |-> <<>>, replace |-> FALSE, covers |-> TRUE]
    OBVIOUS
  <2>. HIDE DEF ask
  <2>. QED
    BY <2>1 DEF RequestInv, BaseInv, IsRequest, Idle
<1>5. TaskInv
  BY DEF TaskInv
<1>. QED
  BY <1>1, <1>2, <1>3, <1>4, <1>5 DEF ViewInv, BrowserInv

LEMMA ViewStep ==
  ASSUME ViewInv, [ViewNext]_viewVars
  PROVE  ViewInv' /\ Keeps(win.rows, win'.rows) /\ [Feed!Next]_Feed!feed
<1>. DEFINE Good == ViewInv' /\ Keeps(win.rows, win'.rows) /\ [Feed!Next]_Feed!feed
<1>1. ASSUME UNCHANGED vars PROVE [Feed!Next]_Feed!feed
  BY <1>1 DEF vars, progress, Feed!feed
<1>2. ASSUME NEW p \in Prompts, Post(p) \/ Consume(p) \/ Cancel(p) \/ Rewind(p) PROVE Good
  <2>1. ViewInv' /\ Keeps(win.rows, win'.rows)
    BY <1>2, PostStep, ConsumeStep, CancelStep, RewindStep
  <2>2. \E event : Broadcast(event)
    BY <1>2 DEF Post, AddRow, Consume, Cancel, Rewind, Emit
  <2>. QED
    BY <2>1, <2>2, BroadcastFeeds
<1>3. ASSUME NEW o \in Outputs, Output(o) PROVE Good
  <2>1. ViewInv' /\ Keeps(win.rows, win'.rows)
    BY <1>3, OutputStep
  <2>2. \E event : Broadcast(event)
    BY <1>3 DEF Output, AddRow, Emit
  <2>. QED
    BY <2>1, <2>2, BroadcastFeeds
<1>4. CASE Transport(Subscribe)
  BY <1>4, TransportStep, SubscribeKeeps DEF Transport, Subscribe, progress, Feed!feed
<1>5. CASE Transport(WriteReplay)
  BY <1>5, TransportStep, WriteReplayKeeps DEF Transport, WriteReplay, progress, Feed!feed
<1>6. CASE Transport(DrainPending)
  BY <1>6, TransportStep, DrainPendingKeeps DEF Transport, DrainPending, progress, Feed!feed
<1>7. CASE Break
  <2>1. UNCHANGED hubRows /\ UNCHANGED window /\ (Drop \/ HubRestart)
    BY <1>7 DEF Break, Restart
  <2>2. \A E : StreamInv(E) => StreamInv(E)'
    BY <2>1, DropKeeps, HubRestartKeeps
  <2>3. UNCHANGED <<sent, position, told>>
    BY <2>1 DEF Drop, HubRestart, progress
  <2>. QED
    BY <2>1, <2>2, <2>3, TransportStep DEF Feed!feed
<1>8. CASE Handle
  BY <1>8, HandleStep
<1>9. CASE SyncServe \/ SyncLatest \/ SyncForward \/ SyncFails
  <2>1. ViewInv' /\ Keeps(win.rows, win'.rows)
    BY <1>9, SyncServeStep, SyncLatestStep, SyncForwardStep, SyncFailsStep
  <2>2. UNCHANGED vars
    BY <1>9, Zenon DEF SyncServe, SyncLatest, SyncForward, SyncFails
  <2>. QED
    BY <1>1, <2>1, <2>2
<1>10. ASSUME NEW task \in recons,
              ReconcileAsk(task) \/ ReconcileServe(task) \/ ReconcileApply(task) \/ ReconcileFails(task)
       PROVE  Good
  <2>1. ASSUME ReconcileAsk(task) PROVE ViewInv' /\ Keeps(win.rows, win'.rows)
    BY <2>1, ReconcileAskStep, Zenon
  <2>2. ASSUME ReconcileServe(task) PROVE ViewInv' /\ Keeps(win.rows, win'.rows)
    BY <2>2, ReconcileServeStep, Zenon
  <2>3. ASSUME ReconcileApply(task) PROVE ViewInv' /\ Keeps(win.rows, win'.rows)
    BY <2>3, ReconcileApplyStep, Zenon
  <2>4. ASSUME ReconcileFails(task) PROVE ViewInv' /\ Keeps(win.rows, win'.rows)
    BY <2>4, ReconcileFailsStep
  <2>5. UNCHANGED vars
    BY <1>10 DEF ReconcileAsk, ReconcileServe, ReconcileApply, ReconcileFails
  <2>6. ViewInv' /\ Keeps(win.rows, win'.rows)
    BY <1>10, <2>1, <2>2, <2>3, <2>4, Zenon
  <2>7. [Feed!Next]_Feed!feed
    BY <1>1, <2>5
  <2>. QED
    BY <2>6, <2>7, Zenon
<1>11. CASE ScrollBack \/ ReturnToTail \/ LoadOlder \/ OlderServe \/ OlderApply \/ OlderFails
  <2>1. ViewInv' /\ Keeps(win.rows, win'.rows)
    BY <1>11, ScrollBackStep, ReturnToTailStep, LoadOlderStep, OlderServeStep, OlderApplyStep, OlderFailsStep
  <2>2. UNCHANGED vars
    BY <1>11 DEF ScrollBack, ReturnToTail, LoadOlder, OlderServe, OlderApply, OlderFails
  <2>. QED
    BY <1>1, <2>1, <2>2
<1>12. CASE UNCHANGED viewVars
  <2>1. UNCHANGED vars /\ UNCHANGED hubRows /\ UNCHANGED window
    BY <1>12 DEF viewVars
  <2>2. \A E : StreamInv(E) => StreamInv(E)'
    BY <2>1, StreamSame
  <2>. QED
    BY <1>1, <2>1, <2>2, TransportStep
<1>. QED
  BY <1>2, <1>3, <1>4, <1>5, <1>6, <1>7, <1>8, <1>9, <1>10, <1>11, <1>12 DEF ViewNext

(* A prompt that a browser shows as consumed never turns queued again while it is  *)
(* shown: not by a page that was read before it was consumed and arrives after it, *)
(* not by a replayed event, not by a reconciliation, whatever the limits are.      *)
THEOREM ConsumedNeverQueued == ViewSpec => ConsumedStays
<1>1. ViewInit => ViewInv
  BY ViewInit_
<1>2. ViewInv /\ [ViewNext]_viewVars
        => ViewInv' /\ [\A r \in DOMAIN win.rows \cap DOMAIN win'.rows :
                          Queued(win'.rows[r]) => Queued(win.rows[r])]_viewVars
  BY ViewStep DEF Keeps
<1>. QED
  BY <1>1, <1>2, PTL DEF ViewSpec, ConsumedStays

(* With what the view adds to it, the stream still keeps the feed's promise. *)
THEOREM ViewIsAFeed == ViewSpec => IsAFeed
<1>1. ViewInit => ViewInv /\ Feed!Init
  BY ViewInit_ DEF ViewInit, Init, Feed!Init
<1>2. ViewInv /\ [ViewNext]_viewVars => ViewInv' /\ [Feed!Next]_Feed!feed
  BY ViewStep
<1>. QED
  BY <1>1, <1>2, PTL DEF ViewSpec, IsAFeed, Feed!Spec

-----------------------------------------------------------------------------
(* Prompts shown as queued that are not (NoGhost): the event that says so is on   *)
(* its way, or a gap is, or a reconciliation has asked.                           *)

(* Prompts that are not queued any more. *)
Gone == Past \cap Prompts

Fixes(event, p) == (event.kind \in {"consumed", "cancelled"} /\ event.row = p) \/ event.kind = "invalidated"
ShowsQueued(event, p) == event.kind = "received" /\ p \in DOMAIN event.rows /\ Queued(event.rows[p])

(* The events of the subscription with their numbers: in the ring and on their way. *)
Passed(entries) == {[number |-> entries[i].number, event |-> entries[i].event] : i \in DOMAIN entries}
OnWire(frames) ==
  {[number |-> frames[i].number, event |-> frames[i].event] : i \in {j \in DOMAIN frames : frames[j].verdict = "none"}}
InRing(ring) == {[number |-> ring[i].number, event |-> ring[i].event] : i \in Mine(ring)}
Flowing == OnWire(wire) \cup Passed(connection.replay) \cup Passed(connection.pending)

Fixed(S, past) ==
  \A p \in past, x \in S :
    ShowsQueued(x.event, p) => \E y \in S : y.number > x.number /\ Fixes(y.event, p)
Agree(S, T) == \A x \in S, y \in T : x.number = y.number => x.event = y.event

GapAhead == wire # <<>> /\ wire[1].verdict = "gap"
OnTheWay(p) ==
  IF connection.open THEN GapAhead \/ \E x \in Flowing : Fixes(x.event, p)
  ELSE ~Resumable(cursor) \/ \E x \in InRing(eventBuffer) : x.number > position /\ Fixes(x.event, p)

FixInv ==
  Fixed(Flowing, Gone) /\ Fixed(InRing(eventBuffer), Gone) /\ Agree(Flowing, InRing(eventBuffer))

-----------------------------------------------------------------------------
(* Where the numbers are *)

LEMMA RingNumbers ==
  ASSUME NEW E, StreamInv(E)
  PROVE  /\ \A x \in InRing(eventBuffer) : x.number \in 1 .. sent
         /\ Agree(InRing(eventBuffer), InRing(eventBuffer))
<1>1. \A i \in Mine(eventBuffer) : eventBuffer[i].number \in 1 .. sent
  BY DEF StreamInv, RingInv
<1>2. \A i, j \in Mine(eventBuffer) : i # j => eventBuffer[i].number # eventBuffer[j].number
  <2>1. \A i \in Mine(eventBuffer) : i \in Nat
    BY RingEntries DEF StreamInv, Mine
  <2>2. \A i, j \in Mine(eventBuffer) : i < j => eventBuffer[i].number < eventBuffer[j].number
    BY DEF StreamInv, RingInv
  <2>3. sent \in Nat
    BY DEF StreamInv, StreamTypes
  <2>. QED
    BY <1>1, <2>1, <2>2, <2>3
<1>. QED
  BY <1>1, <1>2 DEF InRing, Agree

LEMMA UpTo ==
  ASSUME NEW high \in Nat, NEW start \in Int, NEW n \in Nat, NEW i \in 1 .. n, start + n <= high
  PROVE  start + i <= high /\ start + i \in Int
OBVIOUS

LEMMA Within ==
  ASSUME NEW low \in Nat, NEW high \in Nat, NEW start \in Int, NEW n \in Nat, NEW i \in 1 .. n, low <= start, start + n <= high
  PROVE  start + i \in low + 1 .. high
OBVIOUS

LEMMA FlowNumbers ==
  ASSUME NEW E, StreamInv(E)
  PROVE  /\ \A x \in Flowing : x.number \in position + 1 .. sent
         /\ ~connection.open => Flowing = {}
<1>. USE DEF StreamInv
<1>1. /\ connection.pending \in Seq(EntryOf(E)) /\ connection.replay \in Seq(EntryOf(E)) /\ wire \in Seq(FrameOf(E))
      /\ Len(connection.pending) \in Nat /\ Len(connection.replay) \in Nat /\ Len(wire) \in Nat
      /\ sent \in Nat /\ position \in Nat
      /\ BeforePending \in Int /\ BeforeReplay \in Int /\ BeforeWire \in Int
      /\ BeforePending + Len(connection.pending) = sent
      /\ BeforeReplay + Len(connection.replay) = BeforePending
      /\ BeforeWire + Len(wire) = BeforeReplay
  BY FlowTypes
<1>2. /\ DOMAIN connection.pending = 1 .. Len(connection.pending)
      /\ DOMAIN connection.replay = 1 .. Len(connection.replay)
      /\ DOMAIN wire = 1 .. Len(wire) /\ (wire = <<>> <=> Len(wire) = 0)
  BY <1>1, LenOfEmpty
<1>3. CASE ~connection.open
  <2>1. wire = <<>> /\ connection.replay = <<>> /\ connection.pending = <<>>
    BY <1>3 DEF FlowInv, Closed
  <2>2. DOMAIN wire = {} /\ DOMAIN connection.replay = {} /\ DOMAIN connection.pending = {}
    BY <2>1
  <2>3. Flowing = {}
    BY <2>2 DEF Flowing, OnWire, Passed
  <2>. QED
    BY <2>3
<1>4. CASE connection.open
  <2>1. ASSUME NEW i \in DOMAIN connection.pending
        PROVE  connection.pending[i].number = BeforePending + i
    BY DEF FlowInv, Consecutive, IsNumber
  <2>2. ASSUME NEW i \in DOMAIN connection.replay
        PROVE  connection.replay[i].number = BeforeReplay + i
    BY DEF FlowInv, Consecutive, IsNumber
  <2>3. ASSUME NEW i \in DOMAIN wire, wire[i].verdict = "none"
        PROVE  wire[i].number = BeforeWire + i
    BY <2>3 DEF FlowInv, InOrder, IsNumber
  <2>4. /\ position <= BeforeReplay
        /\ \A i \in DOMAIN wire : wire[i].verdict = "none" => position < BeforeWire + i
    <3>1. CASE wire = <<>>
      BY <1>1, <1>2, <1>4, <3>1 DEF FlowInv
    <3>2. CASE wire # <<>> /\ wire[1].verdict = "none"
      BY <1>1, <1>2, <1>4, <3>2 DEF FlowInv
    <3>3. CASE wire # <<>> /\ wire[1].verdict # "none"
      <4>1. wire[1] \in FrameOf(E)
        BY <1>1, <1>2, <3>3
      <4>2. wire[1].verdict \in {"ok", "gap"}
        BY <3>3, <4>1 DEF FrameOf
      <4>3. position <= BeforeWire + 1
        BY <1>1, <1>4, <3>3, <4>2 DEF FlowInv
      <4>4. \A i \in DOMAIN wire : wire[i].verdict = "none" => i \in Nat /\ i > 1
        BY <1>1, <1>2, <3>3
      <4>5. Len(wire) >= 1
        BY <1>1, <1>2, <3>3
      <4>6. position <= BeforeReplay
        BY <1>1, <4>3, <4>5
      <4>7. \A i \in DOMAIN wire : wire[i].verdict = "none" => position < BeforeWire + i
        BY <1>1, <4>3, <4>4
      <4>. QED
        BY <4>6, <4>7
    <3>. QED
      BY <3>1, <3>2, <3>3
  <2>5. ASSUME NEW x \in Flowing
        PROVE  x.number \in position + 1 .. sent
    <3>1. CASE x \in OnWire(wire)
      <4>1. PICK i \in DOMAIN wire : wire[i].verdict = "none" /\ x.number = wire[i].number
        BY <3>1 DEF OnWire
      <4>2. x.number = BeforeWire + i /\ position < BeforeWire + i /\ i \in 1 .. Len(wire)
        BY <1>2, <2>3, <2>4, <4>1
      <4>3. BeforeWire + Len(wire) <= sent
        BY <1>1
      <4>4. BeforeWire + i <= sent /\ BeforeWire + i \in Int
        BY <1>1, <4>2, <4>3, UpTo
      <4>. QED
        BY <1>1, <4>2, <4>4
    <3>2. CASE x \in Passed(connection.replay)
      <4>1. PICK i \in DOMAIN connection.replay : x.number = connection.replay[i].number
        BY <3>2 DEF Passed
      <4>2. x.number = BeforeReplay + i /\ i \in 1 .. Len(connection.replay)
        BY <1>2, <2>2, <4>1
      <4>3. position <= BeforeReplay /\ BeforeReplay + Len(connection.replay) <= sent
        BY <1>1, <2>4
      <4>4. BeforeReplay + i \in position + 1 .. sent
        BY <1>1, <4>2, <4>3, Within
      <4>. QED
        BY <4>2, <4>4
    <3>3. CASE x \in Passed(connection.pending)
      <4>1. PICK i \in DOMAIN connection.pending : x.number = connection.pending[i].number
        BY <3>3 DEF Passed
      <4>2. x.number = BeforePending + i /\ i \in 1 .. Len(connection.pending)
        BY <1>2, <2>1, <4>1
      <4>3. position <= BeforePending /\ BeforePending + Len(connection.pending) <= sent
        BY <1>1, <2>4
      <4>4. BeforePending + i \in position + 1 .. sent
        BY <1>1, <4>2, <4>3, Within
      <4>. QED
        BY <4>2, <4>4
    <3>. QED
      BY <3>1, <3>2, <3>3 DEF Flowing
  <2>. QED
    BY <1>4, <2>5
<1>. QED
  BY <1>3, <1>4

(* From a cursor that can be resumed from, the ring has everything. *)
LEMMA RingHasRest ==
  ASSUME NEW E, StreamInv(E), Resumable(cursor), NEW n \in position + 1 .. sent
  PROVE  \E x \in InRing(eventBuffer) : x.number = n
<1>1. Mark(Hub, cursor.seq, position)
  BY DEF StreamInv, CursorInv
<1>2. nextSeq - Len(eventBuffer) <= cursor.seq + 1
  <2>1. OldestBuffered = nextSeq - Len(eventBuffer) /\ OldestBuffered \in 1 .. nextSeq
    BY OldestIs DEF StreamInv
  <2>2. Len(eventBuffer) \in Nat /\ nextSeq \in Nat /\ cursor.seq \in Nat
    BY LenOfEmpty DEF StreamInv, StreamTypes
  <2>. QED
    BY <2>1, <2>2 DEF Resumable
<1>3. PICK i \in Mine(eventBuffer) : eventBuffer[i].number = n
  BY <1>1, <1>2 DEF Mark, Hub
<1>. DEFINE x == [number |-> eventBuffer[i].number, event |-> eventBuffer[i].event]
<1>4. x \in InRing(eventBuffer) /\ x.number = n
  BY <1>3 DEF InRing
<1>. QED
  BY <1>4

-----------------------------------------------------------------------------
(* A broadcast *)

News(event) == [number |-> sent + 1, event |-> event]

LEMMA RingAfterBroadcast ==
  ASSUME NEW E, StreamInv(E), NEW event \in E \cup {Elsewhere}, Broadcast(event)
  PROVE  /\ \A x \in InRing(eventBuffer') : x \in InRing(eventBuffer) \/ (ShouldSend(event) /\ x = News(event))
         /\ ShouldSend(event) => News(event) \in InRing(eventBuffer')
         /\ \A x \in InRing(eventBuffer) \cap InRing(eventBuffer'), y \in InRing(eventBuffer) :
              y.number > x.number => y \in InRing(eventBuffer')
<1>. USE DEF StreamInv
<1>1. /\ Len(eventBuffer) \in Nat /\ DOMAIN eventBuffer = 1 .. Len(eventBuffer) /\ sent \in Nat
  BY LenOfEmpty DEF StreamTypes
<1>2. PICK d \in {0, 1} :
        /\ Len(eventBuffer') = Len(eventBuffer) + 1 - d
        /\ \A i \in 1 .. Len(eventBuffer') - 1 : eventBuffer'[i] = eventBuffer[i + d]
  BY RingMoves
<1>3. /\ Len(eventBuffer') \in Nat \ {0} /\ DOMAIN eventBuffer' = 1 .. Len(eventBuffer')
      /\ eventBuffer'[Len(eventBuffer')] = BroadcastEntry(event)
      /\ eventBuffer'[Len(eventBuffer')].event = event
      /\ ShouldSend(event) => eventBuffer'[Len(eventBuffer')].number = sent + 1
  BY RingMoves DEF BroadcastEntry
<1>4. \A i \in 1 .. Len(eventBuffer') - 1 : i \in Mine(eventBuffer') <=> i + d \in Mine(eventBuffer)
  <2>. TAKE i \in 1 .. Len(eventBuffer') - 1
  <2>1. i \in DOMAIN eventBuffer' /\ i + d \in DOMAIN eventBuffer /\ eventBuffer'[i] = eventBuffer[i + d]
    BY <1>1, <1>2, <1>3
  <2>. QED
    BY <2>1 DEF Mine
<1>5. Len(eventBuffer') \in Mine(eventBuffer') <=> ShouldSend(event)
  BY <1>3 DEF Mine
<1>6. ASSUME NEW i \in Mine(eventBuffer')
      PROVE  i \in 1 .. Len(eventBuffer') - 1 \/ (i = Len(eventBuffer') /\ ShouldSend(event))
  BY <1>3, <1>5 DEF Mine
<1>7. ASSUME NEW x \in InRing(eventBuffer')
      PROVE  x \in InRing(eventBuffer) \/ (ShouldSend(event) /\ x = News(event))
  <2>1. PICK i \in Mine(eventBuffer') : x = [number |-> eventBuffer'[i].number, event |-> eventBuffer'[i].event]
    BY <1>7 DEF InRing
  <2>2. CASE i \in 1 .. Len(eventBuffer') - 1
    <3>1. i + d \in Mine(eventBuffer) /\ eventBuffer'[i] = eventBuffer[i + d]
      BY <1>2, <1>4, <2>1, <2>2
    <3>. QED
      BY <2>1, <3>1 DEF InRing
  <2>3. CASE i = Len(eventBuffer') /\ ShouldSend(event)
    BY <1>3, <2>1, <2>3 DEF News
  <2>. QED
    BY <1>6, <2>2, <2>3
<1>8. ASSUME ShouldSend(event) PROVE News(event) \in InRing(eventBuffer')
  BY <1>3, <1>5, <1>8 DEF InRing, News
<1>9. ASSUME NEW x \in InRing(eventBuffer) \cap InRing(eventBuffer'), NEW y \in InRing(eventBuffer), y.number > x.number
      PROVE  y \in InRing(eventBuffer')
  <2>1. PICK j \in Mine(eventBuffer) : y = [number |-> eventBuffer[j].number, event |-> eventBuffer[j].event]
    BY <1>9 DEF InRing
  <2>2. PICK i \in Mine(eventBuffer') : x = [number |-> eventBuffer'[i].number, event |-> eventBuffer'[i].event]
    BY <1>9 DEF InRing
  <2>3. x.number \in 1 .. sent /\ y.number \in 1 .. sent
    BY <1>9, RingNumbers
  <2>4. i \in 1 .. Len(eventBuffer') - 1
    <3>1. i # Len(eventBuffer') \/ ~ShouldSend(event)
      BY <1>1, <1>3, <2>2, <2>3
    <3>. QED
      BY <1>6, <3>1
  <2>5. i + d \in Mine(eventBuffer) /\ x.number = eventBuffer[i + d].number
    BY <1>2, <1>4, <2>2, <2>4
  <2>6. j \in 1 .. Len(eventBuffer) /\ i + d \in 1 .. Len(eventBuffer)
    BY <1>1, <2>5 DEF Mine
  <2>7. ~(j <= i + d)
    <3>1. j < i + d => eventBuffer[j].number < eventBuffer[i + d].number
      BY <2>5 DEF RingInv
    <3>2. y.number = eventBuffer[j].number /\ y.number > eventBuffer[i + d].number
      BY <1>9, <2>1, <2>5
    <3>. QED
      BY <2>3, <2>5, <2>6, <3>1, <3>2
  <2>8. j - d \in 1 .. Len(eventBuffer') - 1 /\ (j - d) + d = j
    BY <1>1, <1>2, <1>3, <2>4, <2>6, <2>7
  <2>9. j - d \in Mine(eventBuffer') /\ eventBuffer'[j - d] = eventBuffer[j]
    BY <1>2, <1>4, <2>8
  <2>. QED
    BY <2>1, <2>9 DEF InRing
<1>. QED
  BY <1>7, <1>8, <1>9

LEMMA PassedMore ==
  ASSUME NEW S, NEW entries \in Seq(S), NEW entry \in S
  PROVE  Passed(Append(entries, entry)) = Passed(entries) \cup {[number |-> entry.number, event |-> entry.event]}
<1>1. /\ DOMAIN Append(entries, entry) = 1 .. Len(entries) + 1 /\ DOMAIN entries = 1 .. Len(entries)
      /\ \A i \in DOMAIN entries : Append(entries, entry)[i] = entries[i]
      /\ Append(entries, entry)[Len(entries) + 1] = entry
  BY AppendAt
<1>2. Len(entries) \in Nat
  BY LenOfEmpty
<1>3. DOMAIN Append(entries, entry) = DOMAIN entries \cup {Len(entries) + 1}
  BY <1>1, <1>2
<1>. QED
  BY <1>1, <1>3 DEF Passed

LEMMA PassedRest ==
  ASSUME NEW S, NEW entries \in Seq(S), entries # <<>>
  PROVE  Passed(entries) = {[number |-> Head(entries).number, event |-> Head(entries).event]} \cup Passed(Tail(entries))
<1>1. /\ DOMAIN Tail(entries) = 1 .. Len(entries) - 1 /\ DOMAIN entries = 1 .. Len(entries)
      /\ Len(entries) \in Nat \ {0} /\ Head(entries) = entries[1]
      /\ \A i \in DOMAIN Tail(entries) : Tail(entries)[i] = entries[i + 1]
  BY TailAt
<1>2. \A i \in DOMAIN entries : i = 1 \/ (i - 1 \in DOMAIN Tail(entries) /\ Tail(entries)[i - 1] = entries[i])
  BY <1>1
<1>3. \A i \in DOMAIN Tail(entries) : i + 1 \in DOMAIN entries
  BY <1>1
<1>4. 1 \in DOMAIN entries
  BY <1>1
<1>. DEFINE At1(e) == [number |-> e.number, event |-> e.event]
<1>5. Passed(entries) = {At1(entries[i]) : i \in DOMAIN entries} /\ Passed(Tail(entries)) = {At1(Tail(entries)[i]) : i \in DOMAIN Tail(entries)}
  BY DEF Passed
<1>. HIDE DEF At1
<1>6. \A i \in DOMAIN entries : At1(entries[i]) = At1(Head(entries)) \/ At1(entries[i]) \in Passed(Tail(entries))
  BY <1>1, <1>2, <1>5
<1>7. \A i \in DOMAIN Tail(entries) : At1(Tail(entries)[i]) \in Passed(entries)
  BY <1>1, <1>3, <1>5
<1>8. At1(Head(entries)) \in Passed(entries)
  BY <1>1, <1>4, <1>5
<1>9. Passed(entries) = {At1(Head(entries))} \cup Passed(Tail(entries))
  BY <1>5, <1>6, <1>7, <1>8
<1>. QED
  BY <1>9 DEF At1

LEMMA OnWireMore ==
  ASSUME NEW S, NEW frames \in Seq(S), NEW frame \in S, frame.verdict = "none"
  PROVE  /\ OnWire(Append(frames, frame)) = OnWire(frames) \cup {[number |-> frame.number, event |-> frame.event]}
         /\ frames # <<>> => Append(frames, frame)[1] = frames[1]
         /\ Append(frames, frame) # <<>>
         /\ frames = <<>> => Append(frames, frame)[1] = frame
<1>. DEFINE longer == Append(frames, frame)
<1>1. /\ DOMAIN longer = 1 .. Len(frames) + 1 /\ DOMAIN frames = 1 .. Len(frames)
      /\ \A i \in DOMAIN frames : longer[i] = frames[i]
      /\ longer[Len(frames) + 1] = frame /\ Len(longer) = Len(frames) + 1 /\ longer \in Seq(S)
  BY AppendAt
<1>2. Len(frames) \in Nat /\ (frames = <<>> <=> Len(frames) = 0) /\ (longer = <<>> <=> Len(longer) = 0)
  BY <1>1, LenOfEmpty
<1>. HIDE DEF longer
<1>3. {i \in DOMAIN longer : longer[i].verdict = "none"}
        = {i \in DOMAIN frames : frames[i].verdict = "none"} \cup {Len(frames) + 1}
  BY <1>1, <1>2
<1>4. OnWire(longer) = OnWire(frames) \cup {[number |-> frame.number, event |-> frame.event]}
  BY <1>1, <1>3 DEF OnWire
<1>5. /\ frames # <<>> => longer[1] = frames[1]
      /\ longer # <<>> /\ (frames = <<>> => longer[1] = frame)
  BY <1>1, <1>2
<1>. QED
  BY <1>4, <1>5 DEF longer

LEMMA OnWireRest ==
  ASSUME NEW S, NEW frames \in Seq(S), frames # <<>>
  PROVE  /\ Head(frames).verdict = "none" =>
              OnWire(frames) = {[number |-> Head(frames).number, event |-> Head(frames).event]} \cup OnWire(Tail(frames))
         /\ Head(frames).verdict # "none" => OnWire(frames) = OnWire(Tail(frames))
<1>. DEFINE rest == Tail(frames)
<1>1. /\ DOMAIN rest = 1 .. Len(frames) - 1 /\ DOMAIN frames = 1 .. Len(frames)
      /\ Len(frames) \in Nat \ {0} /\ Head(frames) = frames[1]
      /\ \A i \in DOMAIN rest : rest[i] = frames[i + 1]
  BY TailAt
<1>. HIDE DEF rest
<1>2. \A i \in DOMAIN frames : i = 1 \/ (i - 1 \in DOMAIN rest /\ rest[i - 1] = frames[i])
  BY <1>1
<1>3. \A i \in DOMAIN rest : i + 1 \in DOMAIN frames /\ i + 1 # 1
  BY <1>1
<1>4. 1 \in DOMAIN frames
  BY <1>1
<1>. DEFINE Part1(i) == [number |-> frames[i].number, event |-> frames[i].event]
<1>5. \A x : x \in OnWire(frames) <=> \E i \in DOMAIN frames : frames[i].verdict = "none" /\ x = Part1(i)
  BY DEF OnWire
<1>6. \A x : x \in OnWire(rest) <=> \E i \in DOMAIN frames : i # 1 /\ frames[i].verdict = "none" /\ x = Part1(i)
  <2>1. ASSUME NEW i \in DOMAIN rest, rest[i].verdict = "none"
        PROVE  \E j \in DOMAIN frames : j # 1 /\ frames[j].verdict = "none"
                  /\ [number |-> rest[i].number, event |-> rest[i].event] = Part1(j)
    BY <1>1, <1>3, <2>1
  <2>2. ASSUME NEW j \in DOMAIN frames, j # 1, frames[j].verdict = "none"
        PROVE  \E i \in DOMAIN rest : rest[i].verdict = "none"
                  /\ [number |-> rest[i].number, event |-> rest[i].event] = Part1(j)
    BY <1>2, <2>2
  <2>. HIDE DEF Part1
  <2>. QED
    BY <2>1, <2>2 DEF OnWire
<1>7. [number |-> Head(frames).number, event |-> Head(frames).event] = Part1(1)
  BY <1>1
<1>. HIDE DEF Part1
<1>8. Head(frames).verdict = "none" => OnWire(frames) = {Part1(1)} \cup OnWire(rest)
  BY <1>1, <1>4, <1>5, <1>6
<1>9. Head(frames).verdict # "none" => OnWire(frames) = OnWire(rest)
  BY <1>1, <1>4, <1>5, <1>6
<1>. QED
  BY <1>7, <1>8, <1>9 DEF rest

LEMMA FlowAfterBroadcast ==
  ASSUME NEW E, StreamInv(E), NEW event \in E \cup {Elsewhere}, Broadcast(event)
  PROVE  /\ Flowing' = IF ShouldSend(event) /\ connection.open THEN Flowing \cup {News(event)} ELSE Flowing
         /\ connection'.open = connection.open /\ (GapAhead => GapAhead')
<1>. DEFINE entry == BroadcastEntry(event)
<1>1. entry \in EntryOf(E) /\ Frame(entry) \in FrameOf(E) /\ Frame(entry).verdict = "none"
      /\ entry.event = event /\ Frame(entry).event = event
      /\ Frame(entry).number = entry.number /\ (ShouldSend(event) => entry.number = sent + 1)
  BY DEF StreamInv, StreamTypes, EntryOf, FrameOf, BroadcastEntry, Frame
<1>2. /\ connection' = IF ShouldSend(event) /\ connection.open /\ connection.queueing
                       THEN [connection EXCEPT !.pending = Append(@, entry)] ELSE connection
      /\ wire' = IF ShouldSend(event) /\ connection.open /\ ~connection.queueing
                 THEN Append(wire, Frame(entry)) ELSE wire
  BY DEF Broadcast, BroadcastEntry
<1>. HIDE DEF entry
<1>3. connection.pending \in Seq(EntryOf(E)) /\ wire \in Seq(FrameOf(E))
  BY FlowTypes DEF StreamInv
<1>4. CASE ~(ShouldSend(event) /\ connection.open)
  BY <1>2, <1>4 DEF Flowing, GapAhead
<1>5. CASE ShouldSend(event) /\ connection.open /\ connection.queueing
  <2>1. /\ connection'.pending = Append(connection.pending, entry) /\ connection'.replay = connection.replay
        /\ connection'.open = connection.open /\ wire' = wire
    BY <1>2, <1>5, ConnectionIs DEF StreamInv
  <2>2. Passed(connection'.pending) = Passed(connection.pending) \cup {News(event)}
    BY <1>1, <1>3, <1>5, <2>1, PassedMore DEF News
  <2>. QED
    BY <1>5, <2>1, <2>2 DEF Flowing, GapAhead
<1>6. CASE ShouldSend(event) /\ connection.open /\ ~connection.queueing
  <2>1. connection' = connection /\ wire' = Append(wire, Frame(entry))
    BY <1>2, <1>6
  <2>2. /\ OnWire(Append(wire, Frame(entry)))
             = OnWire(wire) \cup {[number |-> Frame(entry).number, event |-> Frame(entry).event]}
        /\ Append(wire, Frame(entry)) # <<>>
        /\ wire # <<>> => Append(wire, Frame(entry))[1] = wire[1]
    BY <1>1, <1>3, OnWireMore
  <2>3. OnWire(wire') = OnWire(wire) \cup {News(event)}
    BY <1>1, <1>6, <2>1, <2>2 DEF News
  <2>4. GapAhead => GapAhead'
    BY <2>1, <2>2 DEF GapAhead
  <2>. QED
    BY <1>6, <2>1, <2>3, <2>4 DEF Flowing
<1>. QED
  BY <1>4, <1>5, <1>6

(* The event of a change reaches the browser, or the news of a gap does. *)
LEMMA BroadcastFixes ==
  ASSUME NEW E, StreamInv(E), FixInv, NEW event \in E \cup {Elsewhere}, Broadcast(event), Gone \subseteq Gone',
         \A p \in Gone' : p \notin Gone => Fixes(event, p) /\ ShouldSend(event),
         \A p \in Gone' : ~ShowsQueued(event, p)
  PROVE  FixInv' /\ \A p \in Gone' : (p \in Gone => OnTheWay(p)) => OnTheWay(p)'
<1>1. /\ \A x \in InRing(eventBuffer') : x \in InRing(eventBuffer) \/ (ShouldSend(event) /\ x = News(event))
      /\ ShouldSend(event) => News(event) \in InRing(eventBuffer')
      /\ \A x \in InRing(eventBuffer) \cap InRing(eventBuffer'), y \in InRing(eventBuffer) :
              y.number > x.number => y \in InRing(eventBuffer')
  BY RingAfterBroadcast
<1>2. /\ Flowing' = IF ShouldSend(event) /\ connection.open THEN Flowing \cup {News(event)} ELSE Flowing
      /\ connection'.open = connection.open /\ (GapAhead => GapAhead')
  BY FlowAfterBroadcast
<1>3. /\ \A x \in Flowing : x.number \in position + 1 .. sent
      /\ ~connection.open => Flowing = {}
  BY FlowNumbers
<1>4. /\ \A x \in InRing(eventBuffer) : x.number \in 1 .. sent
      /\ Agree(InRing(eventBuffer), InRing(eventBuffer))
  BY RingNumbers
<1>5. sent \in Nat /\ position \in 0 .. sent /\ position' = position
  BY DEF StreamInv, StreamTypes, Broadcast
<1>. DEFINE new == News(event)
<1>6. new.number = sent + 1 /\ new.event = event
  BY DEF News
<1>. DEFINE ring == InRing(eventBuffer)
            later == InRing(eventBuffer')
<1>7. Fixed(later, Gone')
  <2>1. SUFFICES ASSUME NEW p \in Gone', NEW x \in later, ShowsQueued(x.event, p)
                 PROVE  \E y \in later : y.number > x.number /\ Fixes(y.event, p)
    BY DEF Fixed
  <2>2. x \in ring /\ x.number \in 1 .. sent
    BY <1>1, <1>4, <1>6, <2>1
  <2>3. CASE p \in Gone
    <3>1. PICK y \in ring : y.number > x.number /\ Fixes(y.event, p)
      BY <2>1, <2>2, <2>3 DEF FixInv, Fixed
    <3>. QED
      BY <1>1, <2>2, <3>1
  <2>4. CASE p \notin Gone
    <3>1. new \in later /\ new.number > x.number /\ Fixes(new.event, p)
      BY <1>1, <1>5, <1>6, <2>2, <2>4
    <3>. QED
      BY <3>1
  <2>. QED
    BY <2>3, <2>4
<1>8. Fixed(Flowing', Gone')
  <2>1. SUFFICES ASSUME NEW p \in Gone', NEW x \in Flowing', ShowsQueued(x.event, p)
                 PROVE  \E y \in Flowing' : y.number > x.number /\ Fixes(y.event, p)
    BY DEF Fixed
  <2>2. x \in Flowing /\ x.number \in position + 1 .. sent /\ connection.open
    BY <1>2, <1>3, <1>6, <2>1
  <2>3. CASE p \in Gone
    <3>1. PICK y \in Flowing : y.number > x.number /\ Fixes(y.event, p)
      BY <2>1, <2>2, <2>3 DEF FixInv, Fixed
    <3>. QED
      BY <1>2, <3>1
  <2>4. CASE p \notin Gone
    <3>1. new \in Flowing' /\ new.number > x.number /\ Fixes(new.event, p)
      BY <1>2, <1>5, <1>6, <2>2, <2>4
    <3>. QED
      BY <3>1
  <2>. QED
    BY <2>3, <2>4
<1>9. Agree(Flowing', later)
  <2>1. SUFFICES ASSUME NEW x \in Flowing', NEW y \in later, x.number = y.number
                 PROVE  x.event = y.event
    BY DEF Agree
  <2>2. (x \in Flowing /\ x.number \in position + 1 .. sent) \/ x = new
    BY <1>2, <1>3
  <2>3. (y \in ring /\ y.number \in 1 .. sent) \/ y = new
    BY <1>1, <1>4
  <2>. QED
    BY <1>5, <1>6, <2>1, <2>2, <2>3 DEF FixInv, Agree
<1>10. ASSUME NEW p \in Gone', p \in Gone => OnTheWay(p)
       PROVE  OnTheWay(p)'
  <2>1. CASE connection.open
    <3>1. GapAhead \/ \E x \in Flowing' : Fixes(x.event, p)
      BY <1>2, <1>6, <1>10, <2>1 DEF OnTheWay
    <3>. QED
      BY <1>2, <2>1, <3>1 DEF OnTheWay
  <2>2. CASE ~connection.open
    <3>1. SUFFICES ASSUME Resumable(cursor)'
                   PROVE  \E x \in later : x.number > position' /\ Fixes(x.event, p)
      BY <1>2, <2>2 DEF OnTheWay
    <3>2. Resumable(cursor)
      BY <3>1, CursorKept
    <3>3. CASE p \notin Gone
      BY <1>1, <1>5, <1>6, <3>3
    <3>4. CASE p \in Gone
      <4>1. PICK x \in ring : x.number > position /\ Fixes(x.event, p)
        BY <1>10, <2>2, <3>2, <3>4 DEF OnTheWay
      <4>2. x.number \in 1 .. sent
        BY <1>4
      <4>3. \E y \in later : y.number = x.number
        <5>1. sent' \in {sent, sent + 1}
          BY DEF Broadcast
        <5>2. x.number \in position' + 1 .. sent'
          BY <1>5, <4>1, <4>2, <5>1
        <5>3. StreamInv(E)'
          BY BroadcastKeeps
        <5>4. Mark(Hub', cursor'.seq, position')
          BY <3>1, <5>3 DEF StreamInv, CursorInv
        <5>5. nextSeq' - Len(eventBuffer') <= cursor'.seq + 1
          <6>1. OldestBuffered' = nextSeq' - Len(eventBuffer')
            <7>1. eventBuffer' # <<>> /\ Head(eventBuffer') = eventBuffer'[1] /\ 1 \in DOMAIN eventBuffer'
              <8>1. eventBuffer' \in Seq(EntryOf(E)) /\ Len(eventBuffer') \in Nat \ {0}
                    /\ DOMAIN eventBuffer' = 1 .. Len(eventBuffer')
                BY RingMoves DEF StreamInv
              <8>2. eventBuffer' # <<>>
                BY <8>1, LenOfEmpty
              <8>. QED
                BY <8>1, <8>2, TailAt
            <7>2. RingInv'
              BY <5>3 DEF StreamInv
            <7>3. Len(eventBuffer') \in Nat /\ nextSeq' \in Nat
              BY <5>3, RingMoves DEF StreamInv, StreamTypes
            <7>. QED
              BY <7>1, <7>2, <7>3 DEF OldestBuffered, RingInv
          <6>2. Len(eventBuffer') \in Nat /\ nextSeq' \in Nat /\ cursor'.seq \in Nat
            BY <5>3, RingMoves DEF StreamInv, StreamTypes
          <6>. QED
            BY <3>1, <6>1, <6>2 DEF Resumable
        <5>6. PICK i \in Mine(eventBuffer') : eventBuffer'[i].number = x.number
          <6>. DEFINE hub == Hub'
          <6>1. hub.next = nextSeq' /\ hub.ring = eventBuffer' /\ hub.sent = sent'
            BY DEF Hub
          <6>. HIDE DEF hub
          <6>2. \A m \in position' + 1 .. hub.sent : \E i \in Mine(hub.ring) : hub.ring[i].number = m
            BY <5>4, <5>5, <6>1 DEF Mark, hub
          <6>. QED
            BY <5>2, <6>1, <6>2
        <5>. DEFINE y == [number |-> eventBuffer'[i].number, event |-> eventBuffer'[i].event]
        <5>7. y \in later
          BY <5>6 DEF InRing
        <5>8. y.number = x.number
          BY <5>6
        <5>. QED
          BY <5>7, <5>8
      <4>4. PICK y \in later : y.number = x.number
        BY <4>3
      <4>5. y \in ring
        BY <1>1, <1>5, <1>6, <4>2, <4>4
      <4>6. y.event = x.event
        BY <1>4, <4>4, <4>5 DEF Agree
      <4>. QED
        BY <1>5, <4>1, <4>4, <4>6
    <3>. QED
      BY <3>3, <3>4
  <2>. QED
    BY <2>1, <2>2
<1>. QED
  BY <1>7, <1>8, <1>9, <1>10 DEF FixInv

-----------------------------------------------------------------------------
(* The rest of the stream *)

LEMMA EmptyFlow ==
  /\ Passed(<<>>) = {} /\ OnWire(<<>>) = {}
  /\ \A n : OnWire(<<Verdict("ok", n)>>) = {} /\ OnWire(<<Verdict("gap", n)>>) = {}
<1>1. Passed(<<>>) = {} /\ OnWire(<<>>) = {}
  <2>1. DOMAIN <<>> = {}
    OBVIOUS
  <2>. QED
    BY <2>1 DEF Passed, OnWire
<1>2. ASSUME NEW n, NEW v \in {"ok", "gap"} PROVE OnWire(<<Verdict(v, n)>>) = {}
  <2>. DEFINE frames == <<Verdict(v, n)>>
  <2>1. DOMAIN frames = {1} /\ frames[1].verdict = v
    BY DEF Verdict
  <2>. HIDE DEF frames
  <2>2. {j \in DOMAIN frames : frames[j].verdict = "none"} = {}
    BY <2>1
  <2>3. OnWire(frames) = {}
    BY <2>2 DEF OnWire
  <2>. QED
    BY <2>3 DEF frames
<1>. QED
  BY <1>1, <1>2

LEMMA FlowSame ==
  ASSUME UNCHANGED <<boot, nextSeq, eventBuffer, cursor, sent, position>>, Gone' = Gone, FixInv,
         connection'.open = connection.open, Flowing' = Flowing, GapAhead => GapAhead'
  PROVE  FixInv' /\ \A p : OnTheWay(p) => OnTheWay(p)'
<1>1. Resumable(cursor)' <=> Resumable(cursor)
  BY CursorSame
<1>2. InRing(eventBuffer') = InRing(eventBuffer)
  OBVIOUS
<1>3. FixInv'
  BY <1>2 DEF FixInv
<1>4. ASSUME NEW p, OnTheWay(p) PROVE OnTheWay(p)'
  <2>1. CASE connection.open
    BY <1>4, <2>1 DEF OnTheWay
  <2>2. CASE ~connection.open
    BY <1>1, <1>2, <1>4, <2>2 DEF OnTheWay
  <2>. QED
    BY <2>1, <2>2
<1>. QED
  BY <1>3, <1>4

LEMMA SubscribeFixes ==
  ASSUME NEW E, StreamInv(E), FixInv, Subscribe, Gone' = Gone
  PROVE  FixInv' /\ \A p : OnTheWay(p) => OnTheWay(p)'
<1>. DEFINE resume == IF Resumable(cursor) THEN "ok" ELSE "gap"
            replay == IF Resumable(cursor) THEN Missed(cursor) ELSE <<>>
            ring == InRing(eventBuffer)
<1>1. /\ ~connection.open
      /\ connection' = [open |-> TRUE, replay |-> replay, queueing |-> replay # <<>>, pending |-> <<>>]
      /\ wire' = <<Verdict(resume, sent)>>
      /\ UNCHANGED <<boot, nextSeq, eventBuffer, cursor, sent, position, told>>
  BY DEF Subscribe, progress
<1>2. resume \in {"ok", "gap"}
  OBVIOUS
<1>3. OnWire(wire') = {} /\ Passed(connection'.pending) = {} /\ connection'.replay = replay /\ connection'.open
  BY <1>1, <1>2, EmptyFlow
<1>4. Flowing' = Passed(replay)
  BY <1>3 DEF Flowing
<1>5. InRing(eventBuffer') = ring
  BY <1>1
<1>6. CASE Resumable(cursor)
  <2>. DEFINE missed == Missed(cursor)
  <2>1. /\ missed \in Seq(EntryOf(E)) /\ Len(missed) = sent - position
        /\ Consecutive(Hub, missed, position)
        /\ \A n \in DOMAIN missed : \E i \in Mine(eventBuffer) : missed[n] = eventBuffer[i]
    BY <1>6, MissedIsTheRest DEF StreamInv, CursorInv
  <2>2. Flowing' = Passed(missed)
    BY <1>4, <1>6
  <2>. HIDE DEF missed
  <2>3. DOMAIN missed = 1 .. sent - position /\ sent \in Nat /\ position \in 0 .. sent
    BY <2>1, LenOfEmpty DEF StreamInv, StreamTypes
  <2>4. \A n \in DOMAIN missed : missed[n].number = position + n
    BY <2>1 DEF Consecutive, IsNumber
  <2>5. /\ \A x \in ring : x.number \in 1 .. sent
        /\ Agree(ring, ring)
    BY RingNumbers
  <2>6. \A x \in Flowing' : x \in ring /\ x.number > position
    <3>1. SUFFICES ASSUME NEW x \in Passed(missed) PROVE x \in ring /\ x.number > position
      BY <2>2
    <3>2. PICK n \in DOMAIN missed : x = [number |-> missed[n].number, event |-> missed[n].event]
      BY DEF Passed
    <3>3. PICK i \in Mine(eventBuffer) : missed[n] = eventBuffer[i]
      BY <2>1
    <3>4. x \in ring
      BY <3>2, <3>3 DEF InRing
    <3>5. x.number = position + n
      BY <2>4, <3>2
    <3>. QED
      BY <2>3, <3>4, <3>5
  <2>7. \A x \in ring : x.number > position => \E y \in Flowing' : y.number = x.number /\ y.event = x.event
    <3>1. SUFFICES ASSUME NEW x \in ring, x.number > position
                   PROVE  \E y \in Passed(missed) : y.number = x.number /\ y.event = x.event
      BY <2>2
    <3>. DEFINE n == x.number - position
    <3>2. n \in DOMAIN missed /\ position + n = x.number
      BY <2>3, <2>5, <3>1
    <3>. HIDE DEF n
    <3>. DEFINE y == [number |-> missed[n].number, event |-> missed[n].event]
    <3>3. y \in Passed(missed) /\ y.number = x.number
      BY <2>4, <3>2 DEF Passed
    <3>4. y \in ring
      BY <2>2, <2>6, <3>3
    <3>5. y.event = x.event
      BY <2>5, <3>3, <3>4 DEF Agree
    <3>. QED
      BY <3>3, <3>5
  <2>8. Fixed(Flowing', Gone)
    <3>1. SUFFICES ASSUME NEW p \in Gone, NEW x \in Flowing', ShowsQueued(x.event, p)
                   PROVE  \E y \in Flowing' : y.number > x.number /\ Fixes(y.event, p)
      BY DEF Fixed
    <3>2. x \in ring /\ x.number > position
      BY <2>6
    <3>3. PICK z \in ring : z.number > x.number /\ Fixes(z.event, p)
      BY <3>1, <3>2 DEF FixInv, Fixed
    <3>4. z.number > position
      BY <2>3, <2>5, <3>2, <3>3
    <3>. QED
      BY <2>7, <3>3, <3>4
  <2>9. Agree(Flowing', ring)
    BY <2>5, <2>6 DEF Agree
  <2>10. FixInv'
    BY <1>5, <2>8, <2>9 DEF FixInv
  <2>11. ASSUME NEW p, OnTheWay(p) PROVE OnTheWay(p)'
    <3>1. PICK x \in ring : x.number > position /\ Fixes(x.event, p)
      BY <1>1, <1>6, <2>11 DEF OnTheWay
    <3>2. \E y \in Flowing' : Fixes(y.event, p)
      BY <2>7, <3>1
    <3>. QED
      BY <1>3, <3>2 DEF OnTheWay
  <2>. QED
    BY <2>10, <2>11
<1>7. CASE ~Resumable(cursor)
  <2>1. Flowing' = {}
    BY <1>4, <1>7, EmptyFlow
  <2>2. FixInv'
    BY <1>1, <1>5, <2>1 DEF FixInv, Fixed, Agree
  <2>3. GapAhead'
    BY <1>1, <1>7 DEF GapAhead, Verdict
  <2>. QED
    BY <1>3, <2>2, <2>3 DEF OnTheWay
<1>. QED
  BY <1>6, <1>7

LEMMA WriteReplayFixes ==
  ASSUME NEW E, StreamInv(E), FixInv, WriteReplay, Gone' = Gone
  PROVE  FixInv' /\ \A p : OnTheWay(p) => OnTheWay(p)'
<1>. DEFINE frame == Frame(Head(connection.replay))
<1>1. /\ connection.replay # <<>> /\ wire' = Append(wire, frame)
      /\ connection' = [connection EXCEPT !.replay = Tail(@)]
      /\ UNCHANGED <<boot, nextSeq, eventBuffer, cursor, sent, position, told>>
  BY DEF WriteReplay, progress
<1>2. connection.replay \in Seq(EntryOf(E)) /\ wire \in Seq(FrameOf(E))
  BY FlowTypes DEF StreamInv
<1>3. Head(connection.replay) \in EntryOf(E)
  BY <1>1, <1>2, TailAt
<1>4. /\ frame \in FrameOf(E) /\ frame.verdict = "none"
      /\ frame.number = Head(connection.replay).number /\ frame.event = Head(connection.replay).event
  BY <1>3 DEF Frame, FrameOf, EntryOf
<1>. HIDE DEF frame
<1>5. /\ OnWire(wire') = OnWire(wire) \cup {[number |-> frame.number, event |-> frame.event]}
      /\ wire # <<>> => wire'[1] = wire[1]
      /\ wire' # <<>>
  BY <1>1, <1>2, <1>4, OnWireMore
<1>6. Passed(connection.replay)
        = {[number |-> frame.number, event |-> frame.event]} \cup Passed(Tail(connection.replay))
  BY <1>1, <1>2, <1>4, PassedRest
<1>7. /\ connection'.replay = Tail(connection.replay) /\ connection'.pending = connection.pending
      /\ connection'.open = connection.open
  BY <1>1, ConnectionIs DEF StreamInv
<1>8. Flowing' = Flowing
  BY <1>5, <1>6, <1>7 DEF Flowing
<1>9. GapAhead => GapAhead'
  BY <1>5 DEF GapAhead
<1>. QED
  BY <1>1, <1>7, <1>8, <1>9, FlowSame

LEMMA DrainPendingFixes ==
  ASSUME NEW E, StreamInv(E), FixInv, DrainPending, Gone' = Gone
  PROVE  FixInv' /\ \A p : OnTheWay(p) => OnTheWay(p)'
<1>1. /\ connection.replay = <<>>
      /\ connection' = IF connection.pending = <<>>
                       THEN [connection EXCEPT !.queueing = FALSE]
                       ELSE [connection EXCEPT !.replay = connection.pending, !.pending = <<>>]
      /\ UNCHANGED <<boot, nextSeq, eventBuffer, wire, cursor, sent, position, told>>
  BY DEF DrainPending, progress
<1>2. \/ connection'.replay = connection.replay /\ connection'.pending = connection.pending
      \/ connection'.replay = connection.pending /\ connection'.pending = <<>>
  BY <1>1, ConnectionIs DEF StreamInv
<1>3. connection'.open = connection.open
  BY <1>1, ConnectionIs DEF StreamInv
<1>4. Flowing' = Flowing
  BY <1>1, <1>2, EmptyFlow DEF Flowing
<1>5. GapAhead => GapAhead'
  BY <1>1 DEF GapAhead
<1>. QED
  BY <1>1, <1>3, <1>4, <1>5, FlowSame

LEMMA DropFixes ==
  ASSUME NEW E, StreamInv(E), FixInv, Drop, Gone' = Gone
  PROVE  FixInv' /\ \A p : OnTheWay(p) => OnTheWay(p)'
<1>1. /\ connection.open /\ connection' = Closed /\ wire' = <<>>
      /\ UNCHANGED <<boot, nextSeq, eventBuffer, cursor, sent, position, told>>
  BY DEF Drop, progress
<1>2. Flowing' = {} /\ ~connection'.open
  BY <1>1, EmptyFlow DEF Flowing, Closed
<1>3. InRing(eventBuffer') = InRing(eventBuffer) /\ (Resumable(cursor)' <=> Resumable(cursor))
  BY <1>1, CursorSame
<1>4. FixInv'
  BY <1>1, <1>2, <1>3 DEF FixInv, Fixed, Agree
<1>5. ASSUME NEW p, OnTheWay(p) PROVE OnTheWay(p)'
  <2>1. SUFFICES ASSUME Resumable(cursor)
                 PROVE  \E x \in InRing(eventBuffer) : x.number > position /\ Fixes(x.event, p)
    BY <1>1, <1>2, <1>3 DEF OnTheWay
  <2>2. ~GapAhead
    BY <1>1, <2>1 DEF GapAhead, StreamInv, FlowInv
  <2>3. PICK x \in Flowing : Fixes(x.event, p)
    BY <1>1, <1>5, <2>2 DEF OnTheWay
  <2>4. x.number \in position + 1 .. sent
    BY FlowNumbers
  <2>5. PICK y \in InRing(eventBuffer) : y.number = x.number
    BY <2>1, <2>4, RingHasRest
  <2>6. x.event = y.event
    BY <2>5 DEF FixInv, Agree
  <2>7. position \in Nat /\ sent \in Nat
    BY DEF StreamInv, StreamTypes
  <2>8. y.number > position
    BY <2>4, <2>5, <2>7
  <2>. QED
    BY <2>3, <2>6, <2>8
<1>. QED
  BY <1>4, <1>5

LEMMA HubRestartFixes ==
  ASSUME NEW E, StreamInv(E), HubRestart, Gone' = Gone
  PROVE  FixInv' /\ \A p : OnTheWay(p) => OnTheWay(p)'
<1>1. /\ boot' = boot + 1 /\ eventBuffer' = <<>> /\ connection' = Closed /\ wire' = <<>> /\ cursor' = cursor
  BY DEF HubRestart
<1>2. Flowing' = {} /\ ~connection'.open
  BY <1>1, EmptyFlow DEF Flowing, Closed
<1>3. InRing(eventBuffer') = {}
  <2>1. DOMAIN eventBuffer' = {}
    BY <1>1
  <2>. QED
    BY <2>1 DEF InRing, Mine
<1>4. ~Resumable(cursor)'
  BY <1>1 DEF Resumable, StreamInv, StreamTypes, CursorInv
<1>5. FixInv'
  BY <1>2, <1>3 DEF FixInv, Fixed, Agree
<1>. QED
  BY <1>2, <1>4, <1>5 DEF OnTheWay

LEMMA StillFixes ==
  ASSUME FixInv, UNCHANGED vars, Gone' = Gone
  PROVE  FixInv' /\ \A p : OnTheWay(p) => OnTheWay(p)'
<1>1. UNCHANGED <<boot, nextSeq, eventBuffer, connection, wire, cursor, sent, position, told>>
  BY DEF vars, stream, progress
<1>2. Flowing' = Flowing /\ (GapAhead => GapAhead')
  BY <1>1 DEF Flowing, GapAhead
<1>. QED
  BY <1>1, <1>2, FlowSame

(* The browser reads a frame: what was ahead still is, but for that frame. *)
LEMMA HandleFixes ==
  ASSUME NEW E, StreamInv(E), FixInv, HandleFrame, Gone' = Gone
  PROVE  /\ FixInv'
         /\ Head(wire).verdict = "none" =>
              \A p : \/ OnTheWay(p) /\ ~Fixes(Head(wire).event, p)
                     \/ p \in Gone /\ ShowsQueued(Head(wire).event, p)
                  => OnTheWay(p)'
         /\ Head(wire).verdict = "ok" => \A p : OnTheWay(p) => OnTheWay(p)'
<1>. DEFINE hd == [number |-> Head(wire).number, event |-> Head(wire).event]
            ring == InRing(eventBuffer)
<1>1. /\ wire # <<>> /\ wire' = Tail(wire)
      /\ UNCHANGED <<boot, nextSeq, eventBuffer, connection, sent>>
      /\ Head(wire).verdict = "none" => position' = Head(wire).number
      /\ Head(wire).verdict = "ok" => position' = position /\ cursor' = cursor
  BY DEF HandleFrame, Arrived
<1>2. connection.open /\ wire \in Seq(FrameOf(E)) /\ Head(wire) = wire[1]
  <2>1. wire \in Seq(FrameOf(E))
    BY FlowTypes DEF StreamInv
  <2>2. connection.open
    BY <1>1 DEF StreamInv, FlowInv
  <2>. QED
    BY <1>1, <2>1, <2>2, TailAt
<1>3. /\ Head(wire).verdict = "none" => OnWire(wire) = {hd} \cup OnWire(wire')
      /\ Head(wire).verdict # "none" => OnWire(wire) = OnWire(wire')
  BY <1>1, <1>2, OnWireRest
<1>4. /\ Head(wire).verdict = "none" => Flowing = {hd} \cup Flowing'
      /\ Head(wire).verdict # "none" => Flowing' = Flowing
  BY <1>1, <1>3 DEF Flowing
<1>5. /\ Head(wire).verdict = "none" => position' = position + 1
      /\ Head(wire).verdict = "none" => hd.number = position + 1
  BY <1>1, HandleFrameKeeps
<1>6. \A x \in Flowing : x.number \in position + 1 .. sent
  BY FlowNumbers
<1>7. position \in Nat /\ sent \in Nat
  BY DEF StreamInv, StreamTypes
<1>8. hd.event = Head(wire).event
  OBVIOUS
<1>. HIDE DEF hd
<1>9. InRing(eventBuffer') = ring /\ connection'.open
  BY <1>1, <1>2
<1>10. Flowing' \subseteq Flowing
  BY <1>4
<1>11. ASSUME NEW x \in Flowing, NEW y \in Flowing, y.number > x.number
       PROVE  y \in Flowing'
  <2>1. x.number \in position + 1 .. sent /\ y.number \in position + 1 .. sent
    BY <1>6
  <2>2. Head(wire).verdict = "none" => y # hd
    BY <1>5, <1>7, <1>11, <2>1
  <2>. QED
    BY <1>4, <2>2
<1>12. Fixed(Flowing', Gone)
  <2>1. SUFFICES ASSUME NEW p \in Gone, NEW x \in Flowing', ShowsQueued(x.event, p)
                 PROVE  \E y \in Flowing' : y.number > x.number /\ Fixes(y.event, p)
    BY DEF Fixed
  <2>2. PICK y \in Flowing : y.number > x.number /\ Fixes(y.event, p)
    BY <1>10, <2>1 DEF FixInv, Fixed
  <2>. QED
    BY <1>10, <1>11, <2>2
<1>13. FixInv'
  BY <1>9, <1>10, <1>12 DEF FixInv, Agree
<1>14. ASSUME NEW p, Head(wire).verdict = "none", OnTheWay(p), ~Fixes(Head(wire).event, p)
       PROVE  OnTheWay(p)'
  <2>1. PICK x \in Flowing : Fixes(x.event, p)
    BY <1>2, <1>14 DEF OnTheWay, GapAhead
  <2>2. x \in Flowing'
    BY <1>4, <1>8, <1>14, <2>1
  <2>. QED
    BY <1>9, <2>1, <2>2 DEF OnTheWay
<1>15. ASSUME NEW p \in Gone, Head(wire).verdict = "none", ShowsQueued(Head(wire).event, p)
       PROVE  OnTheWay(p)'
  <2>1. hd \in Flowing
    BY <1>4, <1>15
  <2>2. PICK y \in Flowing : y.number > hd.number /\ Fixes(y.event, p)
    BY <1>8, <1>15, <2>1 DEF FixInv, Fixed
  <2>3. y \in Flowing'
    BY <1>11, <2>1, <2>2
  <2>. QED
    BY <1>9, <2>2, <2>3 DEF OnTheWay
<1>16. ASSUME NEW p, Head(wire).verdict = "ok", OnTheWay(p)
       PROVE  OnTheWay(p)'
  <2>1. PICK x \in Flowing : Fixes(x.event, p)
    BY <1>2, <1>16 DEF OnTheWay, GapAhead
  <2>2. x \in Flowing'
    BY <1>4, <1>16
  <2>. QED
    BY <1>9, <2>1, <2>2 DEF OnTheWay
<1>. QED
  BY <1>13, <1>14, <1>15, <1>16

-----------------------------------------------------------------------------
(* What the browser shows as queued and is not any more *)

Ghosts(rows, doubts) == {p \in (DOMAIN rows \cap Gone) \ doubts : Queued(rows[p])}

(* A reconciliation asks for the prompt, or will, or has learnt that it is gone. *)
Asked(tasks, p) ==
  \E task \in tasks :
    \/ task.at \in {"draining", "free"}
    \/ task.at = "asked" /\ p \in task.ids
    \/ task.at = "answered" /\ p \in task.ids \ task.queued
Drains(tasks) == \E task \in tasks : task.at = "draining"

WindowGhosts == \A p \in Ghosts(win.rows, doubtful) : OnTheWay(p) \/ Asked(recons, p)
SyncGhosts ==
  sync.at = "answered" =>
    \A p \in Ghosts(sync.page.rows, doubtful) :
      OnTheWay(p) \/ Drains(recons) \/ (p \in DOMAIN win.rows \ base /\ ~Queued(win.rows[p]))
OlderGhosts ==
  older.at = "answered" =>
    \A p \in Ghosts(older.page.rows, doubtful) :
      OnTheWay(p) \/ (p \in DOMAIN win.rows /\ ~Queued(win.rows[p]))

GhostInv == WindowGhosts /\ SyncGhosts /\ OlderGhosts

-----------------------------------------------------------------------------
(* Steps of the hub and of the transport *)

LEMMA GhostsWait ==
  ASSUME GhostInv, UNCHANGED window,
         \A p \in Gone' : (p \in Gone => OnTheWay(p)) => OnTheWay(p)'
  PROVE  GhostInv'
<1>1. UNCHANGED <<win, sync, base, older, recons, doubtful>>
  BY DEF window
<1>2. ASSUME NEW rows, NEW p \in Ghosts(rows, doubtful)'
      PROVE  OnTheWay(p)' \/ (p \in Ghosts(rows, doubtful) /\ (OnTheWay(p) => OnTheWay(p)'))
  BY <1>1, <1>2 DEF Ghosts
<1>3. WindowGhosts'
  <2>1. SUFFICES ASSUME NEW p \in Ghosts(win.rows, doubtful)', ~OnTheWay(p)' PROVE Asked(recons, p)
    BY <1>1 DEF WindowGhosts
  <2>2. p \in Ghosts(win.rows, doubtful) /\ ~OnTheWay(p)
    BY <1>1, <2>1 DEF Ghosts
  <2>. QED
    BY <2>2 DEF GhostInv, WindowGhosts
<1>4. SyncGhosts'
  <2>1. SUFFICES ASSUME sync.at = "answered", NEW p \in Ghosts(sync.page.rows, doubtful)', ~OnTheWay(p)'
                 PROVE  Drains(recons) \/ (p \in DOMAIN win.rows \ base /\ ~Queued(win.rows[p]))
    BY <1>1 DEF SyncGhosts
  <2>2. p \in Ghosts(sync.page.rows, doubtful) /\ ~OnTheWay(p)
    BY <1>1, <2>1 DEF Ghosts
  <2>. QED
    BY <2>1, <2>2 DEF GhostInv, SyncGhosts
<1>5. OlderGhosts'
  <2>1. SUFFICES ASSUME older.at = "answered", NEW p \in Ghosts(older.page.rows, doubtful)', ~OnTheWay(p)'
                 PROVE  p \in DOMAIN win.rows /\ ~Queued(win.rows[p])
    BY <1>1 DEF OlderGhosts
  <2>2. p \in Ghosts(older.page.rows, doubtful) /\ ~OnTheWay(p)
    BY <1>1, <2>1 DEF Ghosts
  <2>. QED
    BY <2>1, <2>2 DEF GhostInv, OlderGhosts
<1>. QED
  BY <1>3, <1>4, <1>5 DEF GhostInv

LEMMA TransportFixes ==
  ASSUME ViewInv, FixInv, UNCHANGED hubRows, UNCHANGED window,
         Subscribe \/ WriteReplay \/ DrainPending \/ Drop \/ HubRestart \/ UNCHANGED vars
  PROVE  FixInv' /\ (GhostInv => GhostInv')
<1>1. PICK E : StreamInv(E)
  BY DEF ViewInv, StreamTrue
<1>2. Gone' = Gone
  BY RowsSame DEF Gone
<1>3. FixInv' /\ \A p : OnTheWay(p) => OnTheWay(p)'
  BY <1>1, <1>2, SubscribeFixes, WriteReplayFixes, DrainPendingFixes, DropFixes, HubRestartFixes, StillFixes
<1>4. \A p \in Gone' : (p \in Gone => OnTheWay(p)) => OnTheWay(p)'
  BY <1>2, <1>3
<1>. QED
  BY <1>3, <1>4, GhostsWait

LEMMA ChangeFixes ==
  ASSUME ViewInv, FixInv, UNCHANGED window, used \subseteq used', Past \subseteq Past',
         NEW event \in Changes(used', Past'), Broadcast(event),
         \A p \in Gone' : p \notin Gone => Fixes(event, p) /\ ShouldSend(event),
         \A p \in Gone' : ~ShowsQueued(event, p)
  PROVE  FixInv' /\ (GhostInv => GhostInv')
<1>1. PICK E : E = Changes(used, Past) /\ StreamInv(E)
  BY DEF ViewInv, StreamTrue
<1>. DEFINE F == Changes(used', Past')
<1>2. E \subseteq F
  <2>. DEFINE given == used
              past == Past
              more == used'
              later == Past'
  <2>1. given \subseteq more /\ past \subseteq later /\ E = Changes(given, past) /\ F = Changes(more, later)
    BY <1>1
  <2>. HIDE DEF given, past, more, later, F
  <2>. QED
    BY <2>1, TruthGrows
<1>3. event \in F \cup {Elsewhere}
  OBVIOUS
<1>. HIDE DEF F
<1>4. StreamInv(F)
  BY <1>1, <1>2, WiderStream
<1>5. Gone \subseteq Gone'
  BY DEF Gone
<1>6. FixInv' /\ \A p \in Gone' : (p \in Gone => OnTheWay(p)) => OnTheWay(p)'
  BY <1>3, <1>4, <1>5, BroadcastFixes
<1>. QED
  BY <1>6, GhostsWait

LEMMA AddRowFixes ==
  ASSUME ViewInv, FixInv, NEW r \in Rows, r \notin used, NEW at \in Nat, NEW invoked \in Nat, invoked = 0 <=> r \in Prompts,
         AddRow(r, at, invoked), clock' \in Nat, UNCHANGED window
  PROVE  FixInv' /\ (GhostInv => GhostInv')
<1>. DEFINE body == [created |-> at, invoked |-> invoked, seq |-> NextRowSeq]
            event == Received(r, body)
<1>1. RowsInv
  BY DEF ViewInv
<1>2. /\ (Queued(body) <=> r \in Prompts) /\ row' = With(r, body) /\ used' = used \cup {r} /\ Broadcast(event)
      /\ body \in Body
  BY <1>1, RowSeqs DEF AddRow, Emit, Queued, Body
<1>. HIDE DEF body
<1>3. DOMAIN row' = DOMAIN row \cup {r} /\ row'[r] = body /\ \A q \in DOMAIN row : row'[q] = row[q]
  BY <1>1, <1>2 DEF With, RowsInv
<1>4. used \subseteq used' /\ Past \subseteq Past' /\ (r \in Prompts => r \notin Past') /\ Gone' = Gone
  BY <1>1, <1>2, <1>3 DEF Past, Gone, RowsInv
<1>5. event \in Changes(used', Past')
  <2>. DEFINE rows == [q \in {r} |-> body]
  <2>1. DOMAIN rows = {r} /\ rows[r] = body /\ rows = [q \in {r} |-> body]
    OBVIOUS
  <2>2. rows \in [{r} -> Body]
    BY <1>2, <2>1
  <2>3. IsRows(rows)
    BY <1>2, <2>1 DEF IsRows
  <2>4. r \in used' /\ (~Queued(body) => r \in Past')
    BY <1>2, <1>3 DEF Past
  <2>. HIDE DEF rows
  <2>5. TrueIn(rows, used', Past')
    BY <2>1, <2>3, <2>4 DEF TrueIn
  <2>6. rows \in UNION {[S -> Body] : S \in SUBSET Rows}
    <3>1. {r} \in SUBSET Rows
      OBVIOUS
    <3>. QED
      BY <2>2, <3>1
  <2>7. event = [kind |-> "received", rows |-> rows]
    BY DEF Received, rows
  <2>. HIDE DEF event
  <2>. QED
    BY <2>5, <2>6, <2>7 DEF Changes
<1>6. ASSUME NEW p \in Gone', ShowsQueued(event, p) PROVE FALSE
  <2>1. p = r /\ Queued(body)
    BY <1>6 DEF ShowsQueued, Received
  <2>. QED
    BY <1>2, <1>4, <1>6, <2>1 DEF Gone
<1>. HIDE DEF event
<1>. QED
  BY <1>2, <1>4, <1>5, <1>6, ChangeFixes

LEMMA PostFixes ==
  ASSUME ViewInv, FixInv, NEW p \in Prompts, Post(p)
  PROVE  FixInv' /\ (GhostInv => GhostInv')
<1>1. clock \in Nat /\ clock' = clock + 1
  BY DEF Post, ViewInv, RowsInv
<1>2. p \in Rows /\ p \notin used /\ AddRow(p, clock', 0) /\ UNCHANGED window
  BY DEF Rows, Post
<1>3. clock' \in Nat
  BY <1>1
<1>. QED
  BY <1>2, <1>3, AddRowFixes

LEMMA OutputFixes ==
  ASSUME ViewInv, FixInv, NEW o \in Outputs, Output(o)
  PROVE  FixInv' /\ (GhostInv => GhostInv')
<1>1. clock \in Nat /\ clock' = clock + 1
  BY DEF Output, ViewInv, RowsInv
<1>2. o \in Rows /\ o \notin used /\ UNCHANGED window /\ o \notin Prompts
  BY RowsAssumption DEF Rows, Output
<1>3. PICK at \in {clock', clock - 1} : at > 0 /\ AddRow(o, at, at)
  BY DEF Output
<1>4. at \in Nat /\ at # 0 /\ clock' \in Nat
  BY <1>1, <1>3
<1>. QED
  BY <1>2, <1>3, <1>4, AddRowFixes

LEMMA ConsumeFixes ==
  ASSUME ViewInv, FixInv, NEW p \in Prompts, Consume(p)
  PROVE  FixInv' /\ (GhostInv => GhostInv')
<1>. DEFINE event == [kind |-> "consumed", row |-> p, at |-> clock']
<1>1. RowsInv
  BY DEF ViewInv
<1>2. /\ p \in DOMAIN row /\ Queued(row[p]) /\ clock' = clock + 1 /\ used' = used
      /\ row' = [row EXCEPT ![p].invoked = clock'] /\ Broadcast(event) /\ UNCHANGED window
      /\ clock \in Nat
  BY <1>1 DEF Consume, Emit, RowsInv
<1>3. /\ DOMAIN row' = DOMAIN row
      /\ \A q \in DOMAIN row : row'[q] = IF q = p THEN [row[p] EXCEPT !.invoked = clock'] ELSE row[q]
  BY <1>1, <1>2 DEF RowsInv, IsRows
<1>4. ~Queued(row'[p])
  BY <1>1, <1>2, <1>3 DEF RowsInv, IsRows, Body, Queued
<1>5. used \subseteq used' /\ Past \subseteq Past' /\ Past' \subseteq Past \cup {p} /\ p \in Past'
  BY <1>1, <1>2, <1>3, <1>4 DEF Past, RowsInv
<1>6. event \in Changes(used', Past') /\ clock' \in Nat
  BY <1>2, <1>5 DEF Changes
<1>7. event # Elsewhere
  <2>1. event \in [kind : {"consumed"}, row : Prompts, at : Nat]
    BY <1>6
  <2>. HIDE DEF event
  <2>. QED
    BY <2>1, ElsewhereAssumption
<1>8. Fixes(event, p) /\ \A q : ~ShowsQueued(event, q)
  BY DEF Fixes, ShowsQueued
<1>9. \A q \in Gone' : q \notin Gone => q = p
  BY <1>5 DEF Gone
<1>. HIDE DEF event
<1>. QED
  BY <1>2, <1>5, <1>6, <1>7, <1>8, <1>9, ChangeFixes DEF ShouldSend

LEMMA CancelFixes ==
  ASSUME ViewInv, FixInv, NEW p \in Prompts, Cancel(p)
  PROVE  FixInv' /\ (GhostInv => GhostInv')
<1>. DEFINE event == [kind |-> "cancelled", row |-> p]
<1>1. RowsInv
  BY DEF ViewInv
<1>2. /\ p \in DOMAIN row /\ used' = used /\ row' = Only(row, DOMAIN row \ {p})
      /\ Broadcast(event) /\ UNCHANGED window
  BY DEF Cancel, Emit
<1>3. /\ DOMAIN row' = DOMAIN row \ {p} /\ \A q \in DOMAIN row \ {p} : row'[q] = row[q]
  <2>. DEFINE S == DOMAIN row \ {p}
  <2>. HIDE DEF S
  <2>1. /\ DOMAIN Only(row, S) = DOMAIN row \cap S
        /\ \A q \in DOMAIN row \cap S : Only(row, S)[q] = row[q]
    BY <1>1, OnlyIs DEF RowsInv
  <2>2. DOMAIN row \cap S = DOMAIN row \ {p} /\ row' = Only(row, S)
    BY <1>2 DEF S
  <2>. QED
    BY <2>1, <2>2
<1>4. used \subseteq used' /\ Past \subseteq Past' /\ Past' \subseteq Past \cup {p} /\ p \in Past'
  BY <1>1, <1>2, <1>3 DEF Past, RowsInv
<1>5. event \in Changes(used', Past')
  BY <1>4 DEF Changes
<1>6. event # Elsewhere
  BY ElsewhereAssumption
<1>7. Fixes(event, p) /\ \A q : ~ShowsQueued(event, q)
  BY DEF Fixes, ShowsQueued
<1>8. \A q \in Gone' : q \notin Gone => q = p
  BY <1>4 DEF Gone
<1>. HIDE DEF event
<1>. QED
  BY <1>2, <1>4, <1>5, <1>6, <1>7, <1>8, ChangeFixes DEF ShouldSend

LEMMA RewindFixes ==
  ASSUME ViewInv, FixInv, NEW p \in Prompts, Rewind(p)
  PROVE  FixInv' /\ (GhostInv => GhostInv')
<1>. DEFINE event == [kind |-> "invalidated"]
<1>1. RowsInv
  BY DEF ViewInv
<1>2. /\ used' = used /\ row' = Where(row, LAMBDA b : Pos(b) < Pos(row[p]))
      /\ Broadcast(event) /\ UNCHANGED window /\ clock' = clock + 2
  BY DEF Rewind, Emit
<1>3. IsRows(row') /\ Part(row', row) /\ clock' \in Nat
  BY <1>1, <1>2 DEF RowsInv, IsRows, Part, Where
<1>4. used \subseteq used' /\ Past \subseteq Past'
  BY <1>1, <1>2, <1>3, FewerRows
<1>5. event \in Changes(used', Past')
  BY DEF Changes
<1>6. event # Elsewhere
  BY ElsewhereAssumption
<1>7. \A q : Fixes(event, q) /\ ~ShowsQueued(event, q)
  BY DEF Fixes, ShowsQueued
<1>. HIDE DEF event
<1>. QED
  BY <1>2, <1>4, <1>5, <1>6, <1>7, ChangeFixes DEF ShouldSend

-----------------------------------------------------------------------------
(* Steps of the browser *)

LEMMA BrowserMoves ==
  ASSUME ViewInv, FixInv, UNCHANGED vars, UNCHANGED hubRows
  PROVE  FixInv' /\ Gone' = Gone /\ \A p : OnTheWay(p) => OnTheWay(p)'
<1>1. Gone' = Gone
  BY RowsSame DEF Gone
<1>. QED
  BY <1>1, StillFixes

LEMMA GhostsNext ==
  ASSUME Gone' = Gone,
         \A p \in Gone \ doubtful' :
           p \in DOMAIN win'.rows /\ Queued(win'.rows[p]) => OnTheWay(p)' \/ Asked(recons', p),
         sync'.at = "answered" =>
           \A p \in Gone \ doubtful' :
             p \in DOMAIN sync'.page.rows /\ Queued(sync'.page.rows[p]) =>
               OnTheWay(p)' \/ Drains(recons') \/ (p \in DOMAIN win'.rows \ base' /\ ~Queued(win'.rows[p])),
         older'.at = "answered" =>
           \A p \in Gone \ doubtful' :
             p \in DOMAIN older'.page.rows /\ Queued(older'.page.rows[p]) =>
               OnTheWay(p)' \/ (p \in DOMAIN win'.rows /\ ~Queued(win'.rows[p]))
  PROVE  GhostInv'
<1>1. WindowGhosts'
  BY DEF WindowGhosts, Ghosts
<1>2. SyncGhosts'
  BY DEF SyncGhosts, Ghosts
<1>3. OlderGhosts'
  BY DEF OlderGhosts, Ghosts
<1>. QED
  BY <1>1, <1>2, <1>3 DEF GhostInv

LEMMA GhostsNow ==
  ASSUME GhostInv
  PROVE  /\ \A p \in Gone \ doubtful :
              p \in DOMAIN win.rows /\ Queued(win.rows[p]) => OnTheWay(p) \/ Asked(recons, p)
         /\ sync.at = "answered" =>
              \A p \in Gone \ doubtful :
                p \in DOMAIN sync.page.rows /\ Queued(sync.page.rows[p]) =>
                  OnTheWay(p) \/ Drains(recons) \/ (p \in DOMAIN win.rows \ base /\ ~Queued(win.rows[p]))
         /\ older.at = "answered" =>
              \A p \in Gone \ doubtful :
                p \in DOMAIN older.page.rows /\ Queued(older.page.rows[p]) =>
                  OnTheWay(p) \/ (p \in DOMAIN win.rows /\ ~Queued(win.rows[p]))
<1>1. WindowGhosts /\ SyncGhosts /\ OlderGhosts
  BY DEF GhostInv
<1>2. \A p \in Gone \ doubtful :
        p \in DOMAIN win.rows /\ Queued(win.rows[p]) => OnTheWay(p) \/ Asked(recons, p)
  BY <1>1 DEF WindowGhosts, Ghosts
<1>3. sync.at = "answered" =>
        \A p \in Gone \ doubtful :
          p \in DOMAIN sync.page.rows /\ Queued(sync.page.rows[p]) =>
            OnTheWay(p) \/ Drains(recons) \/ (p \in DOMAIN win.rows \ base /\ ~Queued(win.rows[p]))
  BY <1>1 DEF SyncGhosts, Ghosts
<1>4. older.at = "answered" =>
        \A p \in Gone \ doubtful :
          p \in DOMAIN older.page.rows /\ Queued(older.page.rows[p]) =>
            OnTheWay(p) \/ (p \in DOMAIN win.rows /\ ~Queued(win.rows[p]))
  BY <1>1 DEF OlderGhosts, Ghosts
<1>. QED
  BY <1>2, <1>3, <1>4

LEMMA DrainsAsk ==
  ASSUME NEW tasks
  PROVE  Drains(tasks) => \A p : Asked(tasks, p)
BY DEF Drains, Asked

(* A page that the hub serves shows no prompt that is gone as queued. *)
LEMMA NoGhostServed ==
  ASSUME ViewInv, NEW ask
  PROVE  \A p \in Gone : p \in DOMAIN Page(ask).rows => ~Queued(Page(ask).rows[p])
BY PageIsTrue DEF ViewInv, Gone

LEMMA SyncServeGhosts ==
  ASSUME ViewInv, FixInv, GhostInv, SyncServe
  PROVE  GhostInv'
<1>. DEFINE page == Page(sync.ask)
<1>1. /\ UNCHANGED vars /\ UNCHANGED hubRows /\ UNCHANGED <<win, base, older, recons, doubtful>>
      /\ sync' = [sync EXCEPT !.at = "answered", !.page = page]
  BY DEF SyncServe, ghosts
<1>2. \A p \in Gone : p \in DOMAIN page.rows => ~Queued(page.rows[p])
  BY NoGhostServed
<1>. HIDE DEF page
<1>3. sync'.page = page
  <2>1. IsRequest(sync, used, Past)
    BY DEF ViewInv, BrowserInv, RequestInv
  <2>. QED
    BY <1>1, <2>1 DEF IsRequest
<1>4. Gone' = Gone /\ \A p : OnTheWay(p) => OnTheWay(p)'
  BY <1>1, BrowserMoves
<1>. QED
  BY <1>1, <1>2, <1>3, <1>4, GhostsNow, GhostsNext

LEMMA OlderServeGhosts ==
  ASSUME ViewInv, FixInv, GhostInv, OlderServe
  PROVE  GhostInv'
<1>. DEFINE page == Page(older.ask)
<1>1. /\ UNCHANGED vars /\ UNCHANGED hubRows /\ UNCHANGED <<win, base, sync, recons, doubtful>>
      /\ older' = [older EXCEPT !.at = "answered", !.page = page]
  BY DEF OlderServe, ghosts
<1>2. \A p \in Gone : p \in DOMAIN page.rows => ~Queued(page.rows[p])
  BY NoGhostServed
<1>. HIDE DEF page
<1>3. older'.page = page
  <2>1. IsRequest(older, used, Past)
    BY DEF ViewInv, BrowserInv, RequestInv
  <2>. QED
    BY <1>1, <2>1 DEF IsRequest
<1>4. Gone' = Gone /\ \A p : OnTheWay(p) => OnTheWay(p)'
  BY <1>1, BrowserMoves
<1>. QED
  BY <1>1, <1>2, <1>3, <1>4, GhostsNow, GhostsNext

(* A run begins or ends: no answer is in. *)
LEMMA RunGhosts ==
  ASSUME ViewInv, FixInv, GhostInv, UNCHANGED vars, UNCHANGED hubRows, doubtful' = doubtful, recons' = recons,
         sync'.at # "answered", older'.at # "answered",
         \A p \in Gone \ doubtful :
           p \in DOMAIN win'.rows /\ Queued(win'.rows[p]) =>
             (p \in DOMAIN win.rows /\ Queued(win.rows[p])) \/ OnTheWay(p) \/ Drains(recons)
  PROVE  GhostInv'
<1>1. Gone' = Gone /\ \A p : OnTheWay(p) => OnTheWay(p)'
  BY BrowserMoves
<1>2. \A p \in Gone \ doubtful' :
        p \in DOMAIN win'.rows /\ Queued(win'.rows[p]) => OnTheWay(p)' \/ Asked(recons', p)
  BY <1>1, GhostsNow, DrainsAsk
<1>. QED
  BY <1>1, <1>2, GhostsNext

LEMMA StartSyncAt ==
  ASSUME NEW w, StartSync(w)
  PROVE  win' = w /\ sync'.at = "asked" /\ older' = Idle /\ older'.at = "idle"
BY DEF StartSync, Idle

LEMMA EndSyncAt ==
  ASSUME ViewInv, sync.at # "idle", NEW w, NEW succeeded, EndSync(w, succeeded)
  PROVE  win' = w /\ sync'.at # "answered" /\ older'.at # "answered" /\ doubtful' = doubtful
<1>1. older.at = "idle"
  BY DEF ViewInv, BrowserInv, RequestInv
<1>2. doubtful' = doubtful
  BY DEF EndSync
<1>3. CASE trailing
  BY <1>2, <1>3, StartSyncAt DEF EndSync
<1>4. CASE ~trailing
  BY <1>1, <1>2, <1>4 DEF EndSync, Idle
<1>. QED
  BY <1>3, <1>4

LEMMA SyncLatestGhosts ==
  ASSUME ViewInv, FixInv, GhostInv, SyncLatest
  PROVE  GhostInv'
<1>. USE DEF ViewInv, BrowserInv
<1>. DEFINE page == sync.page
            replace == sync.replace \/ page.reset
            w == ApplyLatest(win, page, replace, base)
            concurrent == Only(win.rows, DOMAIN win.rows \ base)
            first == IF replace THEN concurrent ELSE win.rows
            m == Merge(Merge(first, page.rows), concurrent)
<1>1. /\ UNCHANGED vars /\ UNCHANGED hubRows /\ recons' = recons
      /\ sync.at = "answered" /\ EndSync(w, TRUE)
  BY DEF SyncLatest
<1>2. IsWindow(win) /\ IsRows(win.rows) /\ IsRows(page.rows)
  BY <1>1 DEF WindowInv, IsWindow, RequestInv, IsRequest, TrueIn
<1>3. Shows(w, m)
  BY <1>2, ApplyLatestIs DEF Applied
<1>. HIDE DEF w, replace
<1>4. /\ win' = w /\ sync'.at # "answered" /\ older'.at # "answered" /\ doubtful' = doubtful
  BY <1>1, EndSyncAt
<1>5. /\ IsRows(concurrent) /\ DOMAIN concurrent = DOMAIN win.rows \ base
      /\ \A r \in DOMAIN concurrent : concurrent[r] = win.rows[r]
  <2>1. /\ IsRows(concurrent) /\ DOMAIN concurrent = DOMAIN win.rows \cap (DOMAIN win.rows \ base)
        /\ \A r \in DOMAIN win.rows \cap (DOMAIN win.rows \ base) : concurrent[r] = win.rows[r]
    BY <1>2, OnlyIs
  <2>. HIDE DEF concurrent
  <2>. QED
    BY <2>1
<1>. HIDE DEF concurrent
<1>6. /\ IsRows(first)
      /\ \A r \in DOMAIN first : r \in DOMAIN win.rows /\ first[r] = win.rows[r]
  BY <1>2, <1>5
<1>. HIDE DEF first, page
<1>. DEFINE k == Merge(first, page.rows)
<1>7. /\ IsRows(k) /\ DOMAIN k = DOMAIN first \cup DOMAIN page.rows
      /\ \A r \in DOMAIN first \cup DOMAIN page.rows :
           Queued(k[r]) <=> (r \in DOMAIN first => Queued(first[r])) /\ (r \in DOMAIN page.rows => Queued(page.rows[r]))
  BY <1>2, <1>6, MergeIs
<1>8. m = Merge(k, concurrent)
  OBVIOUS
<1>. HIDE DEF k, m
<1>9. /\ DOMAIN m = DOMAIN k \cup DOMAIN concurrent
      /\ \A r \in DOMAIN k \cup DOMAIN concurrent :
           Queued(m[r]) <=> (r \in DOMAIN k => Queued(k[r])) /\ (r \in DOMAIN concurrent => Queued(concurrent[r]))
  BY <1>5, <1>7, <1>8, MergeIs
<1>10. ASSUME NEW p \in Gone \ doubtful, p \in DOMAIN win'.rows, Queued(win'.rows[p])
       PROVE  (p \in DOMAIN win.rows /\ Queued(win.rows[p])) \/ OnTheWay(p) \/ Drains(recons)
  <2>1. p \in DOMAIN m /\ Queued(m[p])
    BY <1>3, <1>4, <1>10 DEF Shows, Part
  <2>2. CASE p \in DOMAIN first
    <3>1. Queued(first[p])
      BY <1>7, <1>9, <2>1, <2>2
    <3>. QED
      BY <1>6, <2>2, <3>1
  <2>3. CASE p \in DOMAIN concurrent
    <3>1. Queued(concurrent[p])
      BY <1>9, <2>1, <2>3
    <3>. QED
      BY <1>5, <2>3, <3>1
  <2>4. CASE p \notin DOMAIN first /\ p \notin DOMAIN concurrent
    <3>1. p \in DOMAIN page.rows /\ Queued(page.rows[p])
      BY <1>7, <1>9, <2>1, <2>4
    <3>2. OnTheWay(p) \/ Drains(recons) \/ (p \in DOMAIN win.rows \ base /\ ~Queued(win.rows[p]))
      BY <1>1, <1>10, <3>1, GhostsNow DEF page
    <3>. QED
      BY <1>5, <2>4, <3>2
  <2>. QED
    BY <2>2, <2>3, <2>4
<1>. QED
  BY <1>1, <1>4, <1>10, RunGhosts

LEMMA SyncForwardGhosts ==
  ASSUME ViewInv, FixInv, GhostInv, SyncForward
  PROVE  GhostInv'
<1>. USE DEF ViewInv, BrowserInv
<1>. DEFINE page == sync.page
            w == ApplyForward(win, page)
            m == Merge(win.rows, page.rows)
<1>1. UNCHANGED vars /\ UNCHANGED hubRows /\ recons' = recons /\ sync.at = "answered"
  BY DEF SyncForward
<1>2. IsWindow(win) /\ IsRows(win.rows) /\ IsRows(page.rows) /\ older.at = "idle"
  BY <1>1 DEF WindowInv, IsWindow, RequestInv, IsRequest, TrueIn
<1>3. Shows(w, m)
  BY <1>2, ApplyForwardIs
<1>4. win' = w /\ sync'.at # "answered" /\ older'.at # "answered" /\ doubtful' = doubtful
  <2>1. \/ EndSync(w, TRUE)
        \/ /\ win' = w /\ older' = older /\ doubtful' = doubtful
           /\ sync' = [sync EXCEPT !.at = "asked", !.page = <<>>, !.ask.after = page.after,
                         !.ask.until = IF @ = 0 THEN page.head ELSE @]
    BY DEF SyncForward, ghosts
  <2>. HIDE DEF w
  <2>2. CASE EndSync(w, TRUE)
    BY <1>1, <2>2, EndSyncAt
  <2>3. CASE /\ win' = w /\ older' = older /\ doubtful' = doubtful
             /\ sync' = [sync EXCEPT !.at = "asked", !.page = <<>>, !.ask.after = page.after,
                           !.ask.until = IF @ = 0 THEN page.head ELSE @]
    <3>. DEFINE ask == sync'.ask
    <3>1. sync' = [at |-> "asked", ask |-> ask, page |-> <<>>, replace |-> sync.replace, covers |-> sync.covers]
      BY <2>3 DEF RequestInv, IsRequest
    <3>. HIDE DEF ask
    <3>2. sync'.at = "asked"
      BY <3>1
    <3>. QED
      BY <1>2, <2>3, <3>2
  <2>. QED
    BY <2>1, <2>2, <2>3
<1>5. /\ DOMAIN m = DOMAIN win.rows \cup DOMAIN page.rows
      /\ \A r \in DOMAIN win.rows \cup DOMAIN page.rows :
           Queued(m[r]) <=> (r \in DOMAIN win.rows => Queued(win.rows[r])) /\ (r \in DOMAIN page.rows => Queued(page.rows[r]))
  BY <1>2, MergeIs
<1>. HIDE DEF w, m, page
<1>6. ASSUME NEW p \in Gone \ doubtful, p \in DOMAIN win'.rows, Queued(win'.rows[p])
      PROVE  (p \in DOMAIN win.rows /\ Queued(win.rows[p])) \/ OnTheWay(p) \/ Drains(recons)
  <2>1. p \in DOMAIN m /\ Queued(m[p])
    BY <1>3, <1>4, <1>6 DEF Shows, Part
  <2>2. CASE p \notin DOMAIN win.rows
    <3>1. p \in DOMAIN page.rows /\ Queued(page.rows[p])
      BY <1>5, <2>1, <2>2
    <3>. QED
      BY <1>1, <1>6, <2>2, <3>1, GhostsNow DEF page
  <2>. QED
    BY <1>5, <2>1, <2>2
<1>. QED
  BY <1>1, <1>4, <1>6, RunGhosts

-----------------------------------------------------------------------------
(* Reconciliations *)

LEMMA ReconcileAskGhosts ==
  ASSUME ViewInv, FixInv, GhostInv, NEW task \in recons, ReconcileAsk(task)
  PROVE  GhostInv'
<1>. DEFINE ids == DOMAIN Where(win.rows, Queued)
            asked == [task EXCEPT !.at = "asked", !.ids = ids]
<1>1. /\ UNCHANGED vars /\ UNCHANGED hubRows /\ UNCHANGED <<win, sync, base, older, doubtful>> /\ Synced(task)
      /\ recons' = (recons \ {task}) \cup (IF ids = {} THEN {} ELSE {asked})
  BY DEF ReconcileAsk, ghosts
<1>2. Gone' = Gone /\ \A p : OnTheWay(p) => OnTheWay(p)'
  BY <1>1, BrowserMoves
<1>3. ids = {r \in DOMAIN win.rows : Queued(win.rows[r])}
  BY QueuedIs DEF ViewInv, BrowserInv, WindowInv, IsWindow
<1>. HIDE DEF ids
<1>4. asked.at = "asked" /\ asked.ids = ids
  BY DEF ViewInv, BrowserInv, TaskInv, IsTask
<1>. HIDE DEF asked
<1>5. \A p \in DOMAIN win.rows : Queued(win.rows[p]) => Asked(recons', p)
  <2>1. SUFFICES ASSUME NEW p \in ids PROVE Asked(recons', p)
    BY <1>3
  <2>2. asked \in recons'
    BY <1>1
  <2>. QED
    BY <1>4, <2>2 DEF Asked
<1>6. sync.at = "answered" => (Drains(recons) => Drains(recons'))
  BY <1>1 DEF Synced, Drains
<1>. QED
  BY <1>1, <1>2, <1>5, <1>6, GhostsNow, GhostsNext

LEMMA ReconcileServeGhosts ==
  ASSUME ViewInv, FixInv, GhostInv, NEW task \in recons, ReconcileServe(task)
  PROVE  GhostInv'
<1>. DEFINE known == Only(row, task.ids)
            queued == DOMAIN Where(known, Queued)
            invoked == Where(known, LAMBDA b : ~Queued(b))
            answer == [task EXCEPT !.at = "answered", !.queued = queued, !.invoked = invoked]
<1>1. /\ UNCHANGED vars /\ UNCHANGED hubRows /\ UNCHANGED <<win, sync, base, older, doubtful>> /\ task.at = "asked"
      /\ recons' = (recons \ {task}) \cup {answer}
  BY DEF ReconcileServe, ghosts
<1>2. Gone' = Gone /\ \A p : OnTheWay(p) => OnTheWay(p)'
  BY <1>1, BrowserMoves
<1>3. /\ IsRows(known) /\ DOMAIN known = DOMAIN row \cap task.ids
      /\ \A r \in DOMAIN row \cap task.ids : known[r] = row[r]
  BY OnlyIs DEF ViewInv, RowsInv
<1>. HIDE DEF known
<1>4. queued = {r \in DOMAIN known : Queued(known[r])}
  BY <1>3, QueuedIs
<1>. HIDE DEF queued, invoked
<1>5. answer.at = "answered" /\ answer.ids = task.ids /\ answer.queued = queued
  BY DEF ViewInv, BrowserInv, TaskInv, IsTask
<1>. HIDE DEF answer
<1>6. \A p \in Gone : p \in task.ids => p \in answer.ids \ answer.queued
  BY <1>3, <1>4, <1>5 DEF Gone, Past
<1>7. answer \in recons' /\ \A t \in recons : t # task => t \in recons'
  BY <1>1
<1>8. ASSUME NEW p \in Gone, Asked(recons, p) PROVE Asked(recons', p)
  <2>1. PICK t \in recons : \/ t.at \in {"draining", "free"}
                            \/ t.at = "asked" /\ p \in t.ids
                            \/ t.at = "answered" /\ p \in t.ids \ t.queued
    BY <1>8 DEF Asked
  <2>2. CASE t = task
    <3>1. p \in answer.ids \ answer.queued
      BY <1>1, <1>6, <2>1, <2>2
    <3>. QED
      BY <1>5, <1>7, <3>1 DEF Asked
  <2>3. CASE t # task
    <3>1. t \in recons'
      BY <1>7, <2>3
    <3>. QED
      BY <2>1, <3>1 DEF Asked
  <2>. QED
    BY <2>2, <2>3
<1>9. Drains(recons) => Drains(recons')
  BY <1>1, <1>7 DEF Drains
<1>. QED
  BY <1>1, <1>2, <1>8, <1>9, GhostsNow, GhostsNext

LEMMA ReconcileApplyGhosts ==
  ASSUME ViewInv, FixInv, GhostInv, NEW task \in recons, ReconcileApply(task)
  PROVE  GhostInv'
<1>. DEFINE changed == DOMAIN task.invoked \cap DOMAIN Where(win.rows, Queued)
            now == [r \in DOMAIN win.rows |->
                      IF r \in changed THEN [win.rows[r] EXCEPT !.invoked = task.invoked[r].invoked] ELSE win.rows[r]]
            gone == {r \in task.ids \ task.queued : r \in DOMAIN now /\ Queued(now[r])}
            f == Only(now, DOMAIN now \ gone)
<1>1. /\ UNCHANGED vars /\ UNCHANGED hubRows /\ UNCHANGED <<sync, older>> /\ task.at = "answered"
      /\ recons' = recons \ {task} /\ win' = [win EXCEPT !.rows = f] /\ base' = base \ (changed \cup gone)
      /\ doubtful' = IF Pending THEN doubtful ELSE doubtful \ (task.ids \ task.queued)
  BY DEF ReconcileApply
<1>2. Gone' = Gone /\ \A p : OnTheWay(p) => OnTheWay(p)'
  BY <1>1, BrowserMoves
<1>3. IsWindow(win) /\ IsRows(win.rows)
  BY DEF ViewInv, BrowserInv, WindowInv, IsWindow
<1>4. IsRows(task.invoked) /\ \A r \in DOMAIN task.invoked : ~Queued(task.invoked[r])
  BY <1>1 DEF ViewInv, BrowserInv, TaskInv, IsTask
<1>5. \A r \in changed : r \in DOMAIN task.invoked /\ r \in DOMAIN win.rows /\ Queued(win.rows[r])
  BY <1>3, QueuedIs
<1>. HIDE DEF changed
<1>6. /\ DOMAIN now = DOMAIN win.rows
      /\ \A r \in DOMAIN win.rows :
           now[r] = IF r \in changed THEN [win.rows[r] EXCEPT !.invoked = task.invoked[r].invoked] ELSE win.rows[r]
  OBVIOUS
<1>. HIDE DEF now
<1>7. \A r \in changed : ~Queued(now[r])
  <2>1. SUFFICES ASSUME NEW r \in changed PROVE ~Queued(now[r])
    OBVIOUS
  <2>2. win.rows[r] \in Body /\ ~Queued(task.invoked[r]) /\ now[r] = [win.rows[r] EXCEPT !.invoked = task.invoked[r].invoked]
    BY <1>3, <1>4, <1>5, <1>6 DEF IsRows
  <2>3. now[r].invoked = task.invoked[r].invoked
    BY <2>2 DEF Body
  <2>. QED
    BY <2>2, <2>3 DEF Queued
<1>8. DOMAIN f = DOMAIN now \ gone /\ \A r \in DOMAIN f : f[r] = now[r]
  BY DEF Only
<1>9. win'.rows = f
  BY <1>1, <1>3 DEF IsWindow
<1>. HIDE DEF f
<1>10. ASSUME NEW p \in Gone \ doubtful', p \in DOMAIN win'.rows, Queued(win'.rows[p])
       PROVE  OnTheWay(p)' \/ Asked(recons', p)
  <2>1. p \in DOMAIN now /\ p \notin gone /\ Queued(now[p])
    BY <1>8, <1>9, <1>10
  <2>2. p \notin task.ids \ task.queued
    BY <2>1
  <2>3. p \notin changed /\ p \in DOMAIN win.rows /\ Queued(win.rows[p])
    BY <1>6, <1>7, <2>1
  <2>4. p \notin doubtful
    BY <1>1, <1>10, <2>2
  <2>5. OnTheWay(p) \/ Asked(recons, p)
    BY <1>10, <2>3, <2>4, GhostsNow
  <2>6. ASSUME Asked(recons, p) PROVE Asked(recons', p)
    <3>1. PICK t \in recons : \/ t.at \in {"draining", "free"}
                              \/ t.at = "asked" /\ p \in t.ids
                              \/ t.at = "answered" /\ p \in t.ids \ t.queued
      BY <2>6 DEF Asked
    <3>2. t # task
      BY <1>1, <2>2, <3>1
    <3>3. t \in recons'
      BY <1>1, <3>2
    <3>. QED
      BY <3>1, <3>3 DEF Asked
  <2>. QED
    BY <1>2, <2>5, <2>6
<1>11. ASSUME NEW p \in DOMAIN win.rows, ~Queued(win.rows[p])
       PROVE  p \in DOMAIN win'.rows /\ ~Queued(win'.rows[p]) /\ (p \notin base => p \notin base')
  <2>1. p \notin changed /\ p \in DOMAIN now /\ now[p] = win.rows[p]
    BY <1>5, <1>6, <1>11
  <2>2. p \notin gone
    BY <1>11, <2>1
  <2>. QED
    BY <1>1, <1>8, <1>9, <1>11, <2>1, <2>2
<1>12. Drains(recons) => Drains(recons')
  BY <1>1 DEF Drains
<1>13. sync.at = "answered" \/ older.at = "answered" => doubtful' = doubtful
  BY <1>1 DEF Pending
<1>14. sync'.at = "answered" =>
         \A p \in Gone \ doubtful' :
           p \in DOMAIN sync'.page.rows /\ Queued(sync'.page.rows[p]) =>
             OnTheWay(p)' \/ Drains(recons') \/ (p \in DOMAIN win'.rows \ base' /\ ~Queued(win'.rows[p]))
  BY <1>1, <1>2, <1>11, <1>12, <1>13, GhostsNow
<1>15. older'.at = "answered" =>
         \A p \in Gone \ doubtful' :
           p \in DOMAIN older'.page.rows /\ Queued(older'.page.rows[p]) =>
             OnTheWay(p)' \/ (p \in DOMAIN win'.rows /\ ~Queued(win'.rows[p]))
  BY <1>1, <1>2, <1>11, <1>13, GhostsNow
<1>. QED
  BY <1>2, <1>10, <1>14, <1>15, GhostsNext

-----------------------------------------------------------------------------
(* The reader *)

LEMMA ScrollBackGhosts ==
  ASSUME ViewInv, FixInv, GhostInv, ScrollBack
  PROVE  GhostInv'
<1>1. /\ UNCHANGED vars /\ UNCHANGED hubRows /\ UNCHANGED <<recons, sync, base, older, doubtful>>
      /\ win' = [win EXCEPT !.mode = "history"]
  BY DEF ScrollBack, ghosts
<1>2. win'.rows = win.rows
  BY <1>1 DEF ViewInv, BrowserInv, WindowInv, IsWindow
<1>3. Gone' = Gone /\ \A p : OnTheWay(p) => OnTheWay(p)'
  BY <1>1, BrowserMoves
<1>. QED
  BY <1>1, <1>2, <1>3, GhostsNow, GhostsNext

LEMMA LoadOlderGhosts ==
  ASSUME ViewInv, FixInv, GhostInv, LoadOlder
  PROVE  GhostInv'
<1>1. /\ UNCHANGED vars /\ UNCHANGED hubRows /\ UNCHANGED <<recons, sync, base, win, doubtful>>
      /\ older'.at = "asked"
  BY DEF LoadOlder, ghosts
<1>2. Gone' = Gone /\ \A p : OnTheWay(p) => OnTheWay(p)'
  BY <1>1, BrowserMoves
<1>. QED
  BY <1>1, <1>2, GhostsNow, GhostsNext

LEMMA ReturnToTailGhosts ==
  ASSUME ViewInv, FixInv, GhostInv, ReturnToTail
  PROVE  GhostInv'
<1>. DEFINE w == EnterTail(win)
<1>1. /\ UNCHANGED vars /\ UNCHANGED hubRows /\ recons' = recons /\ EnsureSync(w)
      /\ doubtful' = doubtful \cup Forgotten
  BY DEF ReturnToTail
<1>2. IsWindow(w) /\ Part(w.rows, win.rows)
  BY EnterTailIs DEF ViewInv, BrowserInv, WindowInv, Shows
<1>. HIDE DEF w
<1>3. Gone' = Gone /\ Gone \subseteq Prompts /\ \A p : OnTheWay(p) => OnTheWay(p)'
  BY <1>1, BrowserMoves DEF Gone
<1>4. win' = w
  BY <1>1, StartSyncAt DEF EnsureSync
<1>5. \A p \in Gone \ doubtful' :
        p \in DOMAIN win'.rows /\ Queued(win'.rows[p]) => OnTheWay(p)' \/ Asked(recons', p)
  BY <1>1, <1>2, <1>3, <1>4, GhostsNow DEF Part
<1>6. CASE sync.at = "idle"
  <2>1. sync'.at = "asked" /\ older'.at = "idle"
    BY <1>1, <1>6, StartSyncAt DEF EnsureSync
  <2>. QED
    BY <1>3, <1>5, <2>1, GhostsNext
<1>7. CASE sync.at # "idle"
  <2>1. UNCHANGED <<sync, base, older>> /\ older.at = "idle"
    BY <1>1, <1>7 DEF EnsureSync, ViewInv, BrowserInv, RequestInv
  <2>2. \A p \in Gone \ doubtful' : p \in DOMAIN win.rows => p \in DOMAIN win'.rows
    BY <1>1, <1>3, <1>7 DEF Forgotten, Pending
  <2>3. \A p \in DOMAIN win'.rows : win'.rows[p] = win.rows[p]
    BY <1>2, <1>4 DEF Part
  <2>4. sync'.at = "answered" =>
          \A p \in Gone \ doubtful' :
            p \in DOMAIN sync'.page.rows /\ Queued(sync'.page.rows[p]) =>
              OnTheWay(p)' \/ Drains(recons') \/ (p \in DOMAIN win'.rows \ base' /\ ~Queued(win'.rows[p]))
    BY <1>1, <1>3, <2>1, <2>2, <2>3, GhostsNow
  <2>. QED
    BY <1>3, <1>5, <2>1, <2>4, GhostsNext
<1>. QED
  BY <1>6, <1>7

LEMMA OlderApplyGhosts ==
  ASSUME ViewInv, FixInv, GhostInv, OlderApply
  PROVE  GhostInv'
<1>. DEFINE page == older.page
            merged == MergeIntoWindow(win, page.rows, "prepend", OlderLimit)
            m == Merge(win.rows, page.rows)
<1>1. /\ UNCHANGED vars /\ UNCHANGED hubRows /\ recons' = recons /\ older.at = "answered" /\ doubtful' = doubtful
  BY DEF OlderApply, ghosts
<1>2. /\ IsWindow(win) /\ IsRows(win.rows) /\ IsRows(page.rows) /\ sync.at = "idle"
  BY <1>1 DEF ViewInv, BrowserInv, WindowInv, IsWindow, RequestInv, IsRequest, TrueIn
<1>3. CASE older.ask.epoch # NoEpoch /\ page.epoch # older.ask.epoch
  <2>. DEFINE w == [win EXCEPT !.epoch = NoEpoch, !.newest = 0, !.stale = TRUE]
  <2>1. EnsureSync(w)
    BY <1>3 DEF OlderApply
  <2>2. w.rows = win.rows
    BY <1>2 DEF IsWindow
  <2>. HIDE DEF w
  <2>3. win' = w /\ sync'.at = "asked" /\ older'.at = "idle"
    BY <1>2, <2>1, StartSyncAt DEF EnsureSync
  <2>. QED
    BY <1>1, <2>2, <2>3, RunGhosts
<1>4. CASE ~(older.ask.epoch # NoEpoch /\ page.epoch # older.ask.epoch)
  <2>1. /\ win' = [merged EXCEPT !.more = page.more, !.epoch = page.epoch, !.oldest = page.before]
        /\ older' = Idle /\ sync' = sync
    BY <1>4 DEF OlderApply
  <2>2. Shows(merged, m)
    BY <1>2, MergeIntoWindowIs
  <2>3. /\ DOMAIN m = DOMAIN win.rows \cup DOMAIN page.rows
        /\ \A r \in DOMAIN win.rows \cup DOMAIN page.rows :
             Queued(m[r]) <=> (r \in DOMAIN win.rows => Queued(win.rows[r])) /\ (r \in DOMAIN page.rows => Queued(page.rows[r]))
    BY <1>2, MergeIs
  <2>. HIDE DEF merged, m, page
  <2>4. win'.rows = merged.rows
    BY <2>1, <2>2 DEF Shows, IsWindow
  <2>5. ASSUME NEW p \in Gone \ doubtful, p \in DOMAIN win'.rows, Queued(win'.rows[p])
        PROVE  (p \in DOMAIN win.rows /\ Queued(win.rows[p])) \/ OnTheWay(p) \/ Drains(recons)
    <3>1. p \in DOMAIN m /\ Queued(m[p])
      BY <2>2, <2>4, <2>5 DEF Shows, Part
    <3>2. CASE p \notin DOMAIN win.rows
      <4>1. p \in DOMAIN page.rows /\ Queued(page.rows[p])
        BY <2>3, <3>1, <3>2
      <4>. QED
        BY <1>1, <2>5, <3>2, <4>1, GhostsNow DEF page
    <3>. QED
      BY <2>3, <3>1, <3>2
  <2>6. sync'.at # "answered" /\ older'.at # "answered"
    BY <1>2, <2>1 DEF Idle
  <2>. QED
    BY <1>1, <2>5, <2>6, RunGhosts
<1>. QED
  BY <1>3, <1>4

-----------------------------------------------------------------------------
(* The browser handles a frame *)

(* What the browser knows of a prompt that is gone, once it has shown an event. *)
Told(event) ==
  \A p \in Gone : (OnTheWay(p) /\ ~Fixes(event, p)) \/ ShowsQueued(event, p) => OnTheWay(p)'

LEMMA ReceivedGhosts ==
  ASSUME ViewInv, GhostInv, Gone' = Gone, NEW event, event.kind = "received", IsRows(event.rows), Show(event), Told(event)
  PROVE  GhostInv'
<1>. DEFINE w == Ingest(win, event.rows)
            m == Merge(win.rows, event.rows)
            lost == sync.at # "idle" /\ ~((DOMAIN win.rows \ base) \cup DOMAIN event.rows \subseteq DOMAIN win'.rows)
            covers == sync.covers /\ ~lost
<1>1. /\ win' = w /\ base' = base \ DOMAIN event.rows /\ older' = older /\ recons' = recons
      /\ sync' = [sync EXCEPT !.covers = covers] /\ doubtful' = doubtful \cup Forgotten
  BY DEF Show
<1>2. IsWindow(win) /\ IsRows(win.rows)
  BY DEF ViewInv, BrowserInv, WindowInv, IsWindow
<1>3. Shows(w, m)
  BY <1>2, IngestIs
<1>4. /\ DOMAIN m = DOMAIN win.rows \cup DOMAIN event.rows
      /\ \A r \in DOMAIN win.rows \cup DOMAIN event.rows :
           Queued(m[r]) <=> (r \in DOMAIN win.rows => Queued(win.rows[r])) /\ (r \in DOMAIN event.rows => Queued(event.rows[r]))
  BY <1>2, MergeIs
<1>. HIDE DEF w, m, lost, covers
<1>5. \A p \in DOMAIN win'.rows : p \in DOMAIN m /\ win'.rows[p] = m[p]
  BY <1>1, <1>3 DEF Shows, Part
<1>6. sync'.at = sync.at /\ sync'.page = sync.page
  <2>1. IsRequest(sync, used, Past)
    BY DEF ViewInv, BrowserInv, RequestInv
  <2>. QED
    BY <1>1, <2>1, CoversOnly
<1>7. \A p : ~Fixes(event, p)
  BY DEF Fixes
<1>8. \A p \in Gone : OnTheWay(p) \/ ShowsQueued(event, p) => OnTheWay(p)'
  BY <1>7 DEF Told
<1>9. ASSUME NEW p \in Gone \ doubtful', p \in DOMAIN win'.rows, Queued(win'.rows[p])
      PROVE  OnTheWay(p)' \/ Asked(recons', p)
  <2>1. p \in DOMAIN m /\ Queued(m[p]) /\ p \notin doubtful
    BY <1>1, <1>5, <1>9
  <2>2. CASE p \in DOMAIN win.rows
    BY <1>1, <1>4, <1>8, <1>9, <2>1, <2>2, GhostsNow
  <2>3. CASE p \notin DOMAIN win.rows
    <3>1. p \in DOMAIN event.rows /\ Queued(event.rows[p])
      BY <1>4, <2>1, <2>3
    <3>2. ShowsQueued(event, p)
      BY <3>1 DEF ShowsQueued
    <3>. QED
      BY <1>8, <1>9, <3>2
  <2>. QED
    BY <2>2, <2>3
<1>10. ASSUME NEW p \in Gone \ doubtful', p \in DOMAIN win.rows, ~Queued(win.rows[p]),
              sync.at = "answered" \/ older.at = "answered"
       PROVE  p \in DOMAIN win'.rows /\ ~Queued(win'.rows[p]) /\ (p \notin base => p \notin base')
  <2>1. p \in DOMAIN win'.rows
    BY <1>1, <1>10 DEF Forgotten, Pending, Gone
  <2>. QED
    BY <1>1, <1>4, <1>5, <1>10, <2>1
<1>11. sync'.at = "answered" =>
         \A p \in Gone \ doubtful' :
           p \in DOMAIN sync'.page.rows /\ Queued(sync'.page.rows[p]) =>
             OnTheWay(p)' \/ Drains(recons') \/ (p \in DOMAIN win'.rows \ base' /\ ~Queued(win'.rows[p]))
  BY <1>1, <1>6, <1>8, <1>10, GhostsNow
<1>12. older'.at = "answered" =>
         \A p \in Gone \ doubtful' :
           p \in DOMAIN older'.page.rows /\ Queued(older'.page.rows[p]) =>
             OnTheWay(p)' \/ (p \in DOMAIN win'.rows /\ ~Queued(win'.rows[p]))
  BY <1>1, <1>8, <1>10, GhostsNow
<1>. QED
  BY <1>9, <1>11, <1>12, GhostsNext

(* A prompt that the event is about is shown consumed, or not at all and to be doubted. *)
LEMMA ChangedGhosts ==
  ASSUME ViewInv, GhostInv, Gone' = Gone, NEW event, event.kind \in {"consumed", "cancelled"}, Told(event),
         UNCHANGED <<sync, older, recons>>, base' = base \/ base' = base \ {event.row}, doubtful \subseteq doubtful',
         \A p \in DOMAIN win'.rows : p \in DOMAIN win.rows /\ (Queued(win'.rows[p]) <=> Queued(win.rows[p]) /\ p # event.row),
         \A p \in DOMAIN win.rows : p # event.row => p \in DOMAIN win'.rows,
         Pending => event.row \in doubtful' \/ (event.row \in DOMAIN win'.rows /\ event.row \notin base')
  PROVE  GhostInv'
<1>1. \A p \in Gone : p # event.row => (OnTheWay(p) => OnTheWay(p)')
  BY DEF Told, Fixes
<1>2. \A p \in Gone \ doubtful' :
        p \in DOMAIN win'.rows /\ Queued(win'.rows[p]) => OnTheWay(p)' \/ Asked(recons', p)
  BY <1>1, GhostsNow
<1>3. ASSUME NEW p \in Gone \ doubtful', p = event.row, sync.at = "answered" \/ older.at = "answered"
      PROVE  p \in DOMAIN win'.rows \ base' /\ ~Queued(win'.rows[p])
  BY <1>3 DEF Pending
<1>4. ASSUME sync.at = "answered", NEW p \in Gone \ doubtful', p \in DOMAIN sync.page.rows, Queued(sync.page.rows[p])
      PROVE  OnTheWay(p)' \/ Drains(recons) \/ (p \in DOMAIN win'.rows \ base' /\ ~Queued(win'.rows[p]))
  <2>1. CASE p = event.row
    BY <1>3, <1>4, <2>1
  <2>2. CASE p # event.row
    <3>1. OnTheWay(p) \/ Drains(recons) \/ (p \in DOMAIN win.rows \ base /\ ~Queued(win.rows[p]))
      BY <1>4, GhostsNow
    <3>. QED
      BY <1>1, <1>4, <2>2, <3>1
  <2>. QED
    BY <2>1, <2>2
<1>5. ASSUME older.at = "answered", NEW p \in Gone \ doubtful', p \in DOMAIN older.page.rows, Queued(older.page.rows[p])
      PROVE  OnTheWay(p)' \/ (p \in DOMAIN win'.rows /\ ~Queued(win'.rows[p]))
  <2>1. CASE p = event.row
    BY <1>3, <1>5, <2>1
  <2>2. CASE p # event.row
    <3>1. OnTheWay(p) \/ (p \in DOMAIN win.rows /\ ~Queued(win.rows[p]))
      BY <1>5, GhostsNow
    <3>. QED
      BY <1>1, <1>5, <2>2, <3>1
  <2>. QED
    BY <2>1, <2>2
<1>6. sync'.at = "answered" =>
         \A p \in Gone \ doubtful' :
           p \in DOMAIN sync'.page.rows /\ Queued(sync'.page.rows[p]) =>
             OnTheWay(p)' \/ Drains(recons') \/ (p \in DOMAIN win'.rows \ base' /\ ~Queued(win'.rows[p]))
  BY <1>4
<1>7. older'.at = "answered" =>
         \A p \in Gone \ doubtful' :
           p \in DOMAIN older'.page.rows /\ Queued(older'.page.rows[p]) =>
             OnTheWay(p)' \/ (p \in DOMAIN win'.rows /\ ~Queued(win'.rows[p]))
  BY <1>5
<1>. QED
  BY <1>2, <1>6, <1>7, GhostsNext

LEMMA ConsumedGhosts ==
  ASSUME ViewInv, GhostInv, Gone' = Gone, NEW event, event.kind = "consumed", event.at \in Nat \ {0}, Show(event), Told(event)
  PROVE  GhostInv'
<1>. DEFINE w == MarkConsumed(win, event.row, event.at)
<1>1. /\ win' = w /\ base' = base \ {event.row} /\ UNCHANGED <<sync, older, recons>>
      /\ doubtful' = IF Pending /\ event.row \notin DOMAIN win.rows THEN doubtful \cup {event.row} ELSE doubtful
  BY DEF Show
<1>2. /\ DOMAIN w.rows = DOMAIN win.rows
      /\ \A q \in DOMAIN win.rows : Queued(w.rows[q]) <=> Queued(win.rows[q]) /\ q # event.row
  BY MarkConsumedIs DEF ViewInv, BrowserInv, WindowInv
<1>. HIDE DEF w
<1>3. doubtful \subseteq doubtful'
  BY <1>1
<1>4. Pending => event.row \in doubtful' \/ (event.row \in DOMAIN win'.rows /\ event.row \notin base')
  BY <1>1, <1>2
<1>. QED
  BY <1>1, <1>2, <1>3, <1>4, ChangedGhosts

LEMMA CancelledGhosts ==
  ASSUME ViewInv, GhostInv, Gone' = Gone, NEW event, event.kind = "cancelled", Show(event), Told(event)
  PROVE  GhostInv'
<1>. DEFINE w == Discard(win, {event.row})
<1>1. /\ win' = w /\ UNCHANGED <<base, sync, older, recons>>
      /\ doubtful' = IF Pending THEN doubtful \cup {event.row} ELSE doubtful
  BY DEF Show
<1>2. Shows(w, win.rows) /\ DOMAIN w.rows = DOMAIN win.rows \ {event.row}
  BY DiscardIs DEF ViewInv, BrowserInv, WindowInv
<1>. HIDE DEF w
<1>3. /\ \A p \in DOMAIN win'.rows : p \in DOMAIN win.rows /\ (Queued(win'.rows[p]) <=> Queued(win.rows[p]) /\ p # event.row)
      /\ \A p \in DOMAIN win.rows : p # event.row => p \in DOMAIN win'.rows
  BY <1>1, <1>2 DEF Shows, Part
<1>4. doubtful \subseteq doubtful' /\ (Pending => event.row \in doubtful')
  BY <1>1
<1>. QED
  BY <1>1, <1>3, <1>4, ChangedGhosts

LEMMA InvalidatedGhosts ==
  ASSUME Gone' = Gone, NEW event, event.kind = "invalidated", Show(event)
  PROVE  GhostInv'
<1>. DEFINE w == EmptyWindow
<1>1. StartSync(w)
  BY DEF Show, Invalidate
<1>2. DOMAIN w.rows = {}
  BY DEF EmptyWindow, Nothing
<1>. HIDE DEF w
<1>3. win' = w /\ sync'.at = "asked" /\ older'.at = "idle"
  BY <1>1, StartSyncAt
<1>. QED
  BY <1>2, <1>3, GhostsNext

LEMMA GapGhosts ==
  ASSUME ViewInv, Gone' = Gone, GapTold
  PROVE  GhostInv'
<1>1. Draining \in recons' /\ Draining.at = "draining"
  BY DEF GapTold, Draining
<1>2. Drains(recons') /\ \A p : Asked(recons', p)
  BY <1>1 DEF Drains, Asked
<1>3. older'.at # "answered"
  <2>1. CASE sync.at = "idle"
    BY <2>1, StartSyncAt DEF GapTold
  <2>2. CASE sync.at # "idle"
    BY <2>2 DEF GapTold, ViewInv, BrowserInv, RequestInv
  <2>. QED
    BY <2>1, <2>2
<1>. QED
  BY <1>2, <1>3, GhostsNext

LEMMA HandleGhosts ==
  ASSUME ViewInv, FixInv, Handle
  PROVE  FixInv' /\ (GhostInv => GhostInv')
<1>1. HandleFrame /\ UNCHANGED hubRows
  BY DEF Handle
<1>2. PICK E : E = Changes(used, Past) /\ StreamInv(E)
  BY DEF ViewInv, StreamTrue
<1>3. /\ Head(wire) \in FrameOf(E)
      /\ Head(wire).verdict = "none" => IsNumber(Hub, Head(wire), position + 1)
  BY <1>1, <1>2, HandleFrameKeeps
<1>4. Gone' = Gone
  BY <1>1, RowsSame DEF Gone
<1>5. /\ FixInv'
      /\ Head(wire).verdict = "none" =>
           \A p : \/ OnTheWay(p) /\ ~Fixes(Head(wire).event, p)
                  \/ p \in Gone /\ ShowsQueued(Head(wire).event, p)
               => OnTheWay(p)'
      /\ Head(wire).verdict = "ok" => \A p : OnTheWay(p) => OnTheWay(p)'
  BY <1>1, <1>2, <1>4, HandleFixes
<1>. SUFFICES ASSUME GhostInv PROVE GhostInv'
  BY <1>5
<1>6. CASE Head(wire).verdict = "none"
  <2>. DEFINE event == Head(wire).event
  <2>1. Show(event) /\ event \in Changes(used, Past)
    BY <1>2, <1>3, <1>6 DEF Handle, FrameOf, IsNumber, ShouldSend
  <2>2. Told(event)
    BY <1>5, <1>6 DEF Told
  <2>. HIDE DEF event
  <2>3. /\ event.kind \in {"received", "consumed", "cancelled", "invalidated"}
        /\ event.kind = "received" => IsRows(event.rows)
        /\ event.kind = "consumed" => event.at \in Nat \ {0}
    BY <2>1, ChangeIs DEF TrueIn
  <2>. QED
    BY <1>4, <2>1, <2>2, <2>3, ReceivedGhosts, ConsumedGhosts, CancelledGhosts, InvalidatedGhosts
<1>7. CASE Head(wire).verdict = "gap"
  <2>1. GapTold
    BY <1>7 DEF Handle
  <2>. QED
    BY <1>4, <2>1, GapGhosts
<1>8. CASE Head(wire).verdict = "ok"
  <2>1. UNCHANGED window
    BY <1>8 DEF Handle
  <2>2. \A p \in Gone' : (p \in Gone => OnTheWay(p)) => OnTheWay(p)'
    BY <1>4, <1>5, <1>8
  <2>. QED
    BY <2>1, <2>2, GhostsWait
<1>. QED
  BY <1>3, <1>6, <1>7, <1>8 DEF FrameOf

-----------------------------------------------------------------------------
(* No ghosts *)

ViewGhostInv == ViewInv /\ FixInv /\ failures \in Nat /\ (failures = 0 => GhostInv)

LEMMA ViewInitGhosts == ViewInit => ViewGhostInv
<1>. SUFFICES ASSUME ViewInit PROVE ViewGhostInv
  OBVIOUS
<1>1. ViewInv
  BY ViewInit_
<1>2. /\ connection = Closed /\ wire = <<>> /\ eventBuffer = <<>> /\ failures = 0
      /\ sync.at = "asked" /\ older.at = "idle" /\ DOMAIN win.rows = {}
  BY DEF ViewInit, Init, Idle, EmptyWindow, Nothing
<1>3. Flowing = {}
  BY <1>2, EmptyFlow DEF Flowing, Closed
<1>4. InRing(eventBuffer) = {}
  <2>1. DOMAIN eventBuffer = {}
    BY <1>2
  <2>. QED
    BY <2>1 DEF InRing, Mine
<1>5. FixInv
  BY <1>3, <1>4 DEF FixInv, Fixed, Agree
<1>6. GhostInv
  BY <1>2 DEF GhostInv, WindowGhosts, SyncGhosts, OlderGhosts, Ghosts
<1>. QED
  BY <1>1, <1>2, <1>5, <1>6 DEF ViewGhostInv

LEMMA GhostStep ==
  ASSUME ViewGhostInv, [ViewNext]_viewVars
  PROVE  ViewGhostInv'
<1>0. ViewInv /\ FixInv /\ failures \in Nat /\ (failures = 0 => GhostInv)
  BY DEF ViewGhostInv
<1>1. ViewInv'
  BY <1>0, ViewStep
<1>. DEFINE Good == FixInv' /\ failures' \in Nat /\ (failures' = 0 => GhostInv')
<1>2. ASSUME UNCHANGED failures, FixInv' /\ (GhostInv => GhostInv') PROVE Good
  BY <1>0, <1>2
<1>3. ASSUME NEW p \in Prompts, Post(p) \/ Consume(p) \/ Cancel(p) \/ Rewind(p) PROVE Good
  <2>1. UNCHANGED failures
    BY <1>3 DEF Post, Consume, Cancel, Rewind, counters
  <2>2. FixInv' /\ (GhostInv => GhostInv')
    BY <1>0, <1>3, PostFixes, ConsumeFixes, CancelFixes, RewindFixes
  <2>. QED
    BY <1>2, <2>1, <2>2
<1>4. ASSUME NEW o \in Outputs, Output(o) PROVE Good
  <2>1. UNCHANGED failures
    BY <1>4 DEF Output, counters
  <2>2. FixInv' /\ (GhostInv => GhostInv')
    BY <1>0, <1>4, OutputFixes
  <2>. QED
    BY <1>2, <2>1, <2>2
<1>5. ASSUME Transport(Subscribe) \/ Transport(WriteReplay) \/ Transport(DrainPending) PROVE Good
  <2>1. UNCHANGED failures /\ UNCHANGED hubRows /\ UNCHANGED window /\ (Subscribe \/ WriteReplay \/ DrainPending)
    BY <1>5 DEF Transport, counters
  <2>2. FixInv' /\ (GhostInv => GhostInv')
    BY <1>0, <2>1, TransportFixes
  <2>. QED
    BY <1>2, <2>1, <2>2
<1>6. ASSUME Break PROVE Good
  <2>1. UNCHANGED failures /\ UNCHANGED hubRows /\ UNCHANGED window /\ (Drop \/ HubRestart)
    BY <1>6 DEF Break, Restart
  <2>2. FixInv' /\ (GhostInv => GhostInv')
    BY <1>0, <2>1, TransportFixes
  <2>. QED
    BY <1>2, <2>1, <2>2
<1>7. ASSUME Handle PROVE Good
  <2>1. UNCHANGED failures
    BY <1>7 DEF Handle, counters
  <2>2. FixInv' /\ (GhostInv => GhostInv')
    BY <1>0, <1>7, HandleGhosts
  <2>. QED
    BY <1>2, <2>1, <2>2
<1>8. ASSUME SyncServe \/ SyncLatest \/ SyncForward PROVE Good
  <2>1. UNCHANGED failures /\ UNCHANGED vars /\ UNCHANGED hubRows
    BY <1>8, Zenon DEF SyncServe, SyncLatest, SyncForward, counters
  <2>2. FixInv'
    BY <1>0, <2>1, BrowserMoves
  <2>3. ASSUME GhostInv PROVE GhostInv'
    <3>1. CASE SyncServe
      BY <1>0, <2>3, <3>1, SyncServeGhosts
    <3>2. CASE SyncLatest
      BY <1>0, <2>3, <3>2, SyncLatestGhosts
    <3>3. CASE SyncForward
      BY <1>0, <2>3, <3>3, SyncForwardGhosts
    <3>. QED
      BY <1>8, <3>1, <3>2, <3>3, Zenon
  <2>. QED
    BY <1>2, <2>1, <2>2, <2>3
<1>9. ASSUME NEW task \in recons, ReconcileAsk(task) \/ ReconcileServe(task) \/ ReconcileApply(task) PROVE Good
  <2>1. UNCHANGED failures /\ UNCHANGED vars /\ UNCHANGED hubRows
    BY <1>9 DEF ReconcileAsk, ReconcileServe, ReconcileApply, counters
  <2>2. FixInv'
    BY <1>0, <2>1, BrowserMoves
  <2>3. ASSUME GhostInv PROVE GhostInv'
    <3>1. CASE ReconcileAsk(task)
      BY <1>0, <2>3, <3>1, ReconcileAskGhosts
    <3>2. CASE ReconcileServe(task)
      BY <1>0, <2>3, <3>2, ReconcileServeGhosts
    <3>3. CASE ReconcileApply(task)
      BY <1>0, <2>3, <3>3, ReconcileApplyGhosts
    <3>. QED
      BY <1>9, <3>1, <3>2, <3>3, Zenon
  <2>. QED
    BY <1>2, <2>1, <2>2, <2>3
<1>10. ASSUME ScrollBack \/ ReturnToTail \/ LoadOlder \/ OlderServe \/ OlderApply PROVE Good
  <2>1. UNCHANGED failures /\ UNCHANGED vars /\ UNCHANGED hubRows
    BY <1>10 DEF ScrollBack, ReturnToTail, LoadOlder, OlderServe, OlderApply, Move, counters
  <2>2. FixInv' /\ (GhostInv => GhostInv')
    BY <1>0, <1>10, <2>1, BrowserMoves, ScrollBackGhosts, ReturnToTailGhosts, LoadOlderGhosts, OlderServeGhosts, OlderApplyGhosts
  <2>. QED
    BY <1>2, <2>1, <2>2
<1>11. ASSUME SyncFails \/ OlderFails \/ \E task \in recons : ReconcileFails(task) PROVE Good
  <2>1. failures' = failures + 1 /\ UNCHANGED vars /\ UNCHANGED hubRows
    BY <1>11 DEF SyncFails, OlderFails, ReconcileFails, Fail
  <2>2. FixInv'
    BY <1>0, <2>1, BrowserMoves
  <2>. QED
    BY <1>0, <2>1, <2>2
<1>12. ASSUME UNCHANGED viewVars PROVE Good
  <2>1. UNCHANGED failures /\ UNCHANGED vars /\ UNCHANGED hubRows /\ UNCHANGED window
    BY <1>12 DEF viewVars, counters
  <2>2. FixInv' /\ (GhostInv => GhostInv')
    BY <1>0, <2>1, TransportFixes
  <2>. QED
    BY <1>2, <2>1, <2>2
<1>13. Good
  BY <1>3, <1>4, <1>5, <1>6, <1>7, <1>8, <1>9, <1>10, <1>11, <1>12 DEF ViewNext
<1>. QED
  BY <1>1, <1>13 DEF ViewGhostInv

LEMMA NoGhostLeft == ViewGhostInv => NoGhost
<1>. SUFFICES ASSUME ViewGhostInv, Settled, failures = 0, NEW p \in DOMAIN Where(win.rows, Queued) \ doubtful
              PROVE  p \in DOMAIN Where(row, Queued)
  BY DEF NoGhost
<1>. USE DEF ViewGhostInv
<1>1. IsRows(win.rows) /\ TrueIn(win.rows, used, Past) /\ IsRows(row)
  BY DEF ViewInv, BrowserInv, WindowInv, IsWindow, RowsInv
<1>2. p \in DOMAIN win.rows /\ Queued(win.rows[p])
  BY <1>1, QueuedIs
<1>3. p \in used /\ p \in Prompts
  BY <1>1, <1>2 DEF TrueIn, IsRows
<1>4. DOMAIN Where(row, Queued) = {r \in DOMAIN row : Queued(row[r])}
  BY <1>1, QueuedIs
<1>5. SUFFICES ASSUME p \in Gone PROVE FALSE
  BY <1>3, <1>4 DEF Gone, Past
<1>6. GhostInv
  OBVIOUS
<1>7. OnTheWay(p) \/ Asked(recons, p)
  BY <1>2, <1>5, <1>6, GhostsNow
<1>8. connection.open /\ ~connection.queueing /\ wire = <<>> /\ recons = {}
  BY DEF Settled
<1>9. connection.replay = <<>> /\ connection.pending = <<>>
  BY <1>8 DEF ViewInv, StreamTrue, StreamInv, FlowInv
<1>10. Flowing = {} /\ ~GapAhead
  BY <1>8, <1>9, EmptyFlow DEF Flowing, GapAhead
<1>11. ~OnTheWay(p)
  BY <1>8, <1>10 DEF OnTheWay
<1>12. ~Asked(recons, p)
  BY <1>8 DEF Asked
<1>. QED
  BY <1>7, <1>11, <1>12

(* However pages, replayed and live events, reconciliations, breaks, hub restarts  *)
(* and the reader's moves fall: once everything has arrived and no request failed, *)
(* no prompt is shown as queued that the hub has consumed or cancelled, but for    *)
(* those that were while an answer under way may still show them.                  *)
THEOREM NoGhosts == ViewSpec => []NoGhost
<1>1. ViewInit => ViewGhostInv
  BY ViewInitGhosts
<1>2. ViewGhostInv /\ [ViewNext]_viewVars => ViewGhostInv'
  BY GhostStep
<1>3. ViewGhostInv => NoGhost
  BY NoGhostLeft
<1>. QED
  BY <1>1, <1>2, <1>3, PTL DEF ViewSpec
=============================================================================
