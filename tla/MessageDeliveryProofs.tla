------------------------ MODULE MessageDeliveryProofs ------------------------
(***************************************************************************)
(* Proofs about MessageDelivery, for every set of prompts, every capacity  *)
(* of the filter, every page size and every budget of faults.              *)
(***************************************************************************)
EXTENDS MessageDelivery, SequencesExt, SequenceTheorems, FiniteSetTheorems, TLAPS

-----------------------------------------------------------------------------
(* The elements of a queue or channel after the operations on it. *)

LEMMA AppendElements ==
  ASSUME NEW S, NEW s \in Seq(S), NEW e \in S
  PROVE  /\ Append(s, e) \in Seq(S)
         /\ ToSet(Append(s, e)) = ToSet(s) \cup {e}
<1>1. Append(s, e) = s \o <<e>> /\ Append(s, e) \in Seq(S) /\ <<e>> \in Seq(S)
  BY AppendIsConcat, AppendProperties
<1>2. Range(<<e>>) = {e}
  BY DEF Range
<1>. QED
  BY <1>1, <1>2, RangeConcatenation DEF ToSet, Range

LEMMA TailElements ==
  ASSUME NEW S, NEW s \in Seq(S), s # <<>>
  PROVE  /\ Head(s) \in S /\ Head(s) \in ToSet(s)
         /\ Tail(s) \in Seq(S)
         /\ ToSet(Tail(s)) \subseteq ToSet(s)
<1>1. /\ DOMAIN s = 1..Len(s) /\ Len(s) \in Nat \ {0} /\ Head(s) = s[1] /\ Head(s) \in S
      /\ Tail(s) \in Seq(S) /\ DOMAIN Tail(s) = 1..Len(Tail(s)) /\ Len(Tail(s)) = Len(s) - 1
      /\ \A i \in 1..Len(Tail(s)) : Tail(s)[i] = s[i + 1]
  BY HeadTailProperties, LenProperties, EmptySeq
<1>2. 1 \in 1..Len(s) /\ \A i \in 1..Len(Tail(s)) : i + 1 \in 1..Len(s)
  BY <1>1
<1>. QED
  BY <1>1, <1>2 DEF ToSet

LEMMA ConcatElements ==
  ASSUME NEW S, NEW s \in Seq(S), NEW t \in Seq(S)
  PROVE  /\ s \o t \in Seq(S)
         /\ ToSet(s \o t) \subseteq ToSet(s) \cup ToSet(t)
BY ConcatProperties, RangeConcatenation DEF ToSet, Range

LEMMA SubSeqElements ==
  ASSUME NEW S, NEW s \in Seq(S), NEW a \in Nat \ {0}, NEW b \in Nat, b <= Len(s)
  PROVE  /\ SubSeq(s, a, b) \in Seq(S)
         /\ ToSet(SubSeq(s, a, b)) \subseteq ToSet(s)
<1>1. Len(s) \in Nat /\ DOMAIN s = 1..Len(s)
  BY LenProperties
<1>2. CASE a <= b
  <2>1. /\ SubSeq(s, a, b) \in Seq(S)
        /\ Len(SubSeq(s, a, b)) = b - a + 1
        /\ \A i \in 1..(b - a + 1) : SubSeq(s, a, b)[i] = s[a + i - 1]
    BY <1>1, <1>2, SubSeqProperties
  <2>2. DOMAIN SubSeq(s, a, b) = 1..(b - a + 1)
    BY <2>1, LenProperties
  <2>3. \A i \in 1..(b - a + 1) : a + i - 1 \in 1..Len(s)
    BY <1>1, <1>2
  <2>. QED
    BY <1>1, <2>1, <2>2, <2>3 DEF ToSet
<1>3. CASE ~(a <= b)
  <2>1. SubSeq(s, a, b) = <<>>
    BY <1>3, SubSeqEmpty
  <2>. QED
    BY <2>1, EmptySeq DEF ToSet
<1>. QED
  BY <1>2, <1>3

LEMMA RemoveAtElements ==
  ASSUME NEW S, NEW s \in Seq(S), NEW i \in DOMAIN s
  PROVE  /\ RemoveAt(s, i) \in Seq(S)
         /\ ToSet(RemoveAt(s, i)) \subseteq ToSet(s)
<1>1. i \in 1..Len(s) /\ Len(s) \in Nat
  BY LenProperties
<1>2. i - 1 \in Nat /\ i - 1 <= Len(s) /\ i + 1 \in Nat \ {0}
  BY <1>1
<1>3. /\ SubSeq(s, 1, i - 1) \in Seq(S)
      /\ ToSet(SubSeq(s, 1, i - 1)) \subseteq ToSet(s)
  BY <1>1, <1>2, SubSeqElements
<1>4. /\ SubSeq(s, i + 1, Len(s)) \in Seq(S)
      /\ ToSet(SubSeq(s, i + 1, Len(s))) \subseteq ToSet(s)
  BY <1>1, <1>2, SubSeqElements
<1>5. /\ SubSeq(s, 1, i - 1) \o SubSeq(s, i + 1, Len(s)) \in Seq(S)
      /\ ToSet(SubSeq(s, 1, i - 1) \o SubSeq(s, i + 1, Len(s)))
           \subseteq ToSet(SubSeq(s, 1, i - 1)) \cup ToSet(SubSeq(s, i + 1, Len(s)))
  BY <1>3, <1>4, ConcatElements
<1>. QED
  BY <1>3, <1>4, <1>5 DEF RemoveAt

-----------------------------------------------------------------------------
(* What the operators that the actions share do to the state. *)

(* The hub emits what it was given, or nothing at all. *)
LEMMA EmitElements ==
  ASSUME TypeOK, NEW packets \in Seq(Packet), Emit(packets)
  PROVE  /\ down' \in Seq(Packet)
         /\ ToSet(down') \subseteq ToSet(down) \cup ToSet(packets)
<1>1. down \in Seq(Packet)
  BY DEF TypeOK
<1>2. /\ down \o packets \in Seq(Packet)
      /\ ToSet(down \o packets) \subseteq ToSet(down) \cup ToSet(packets)
  BY <1>1, ConcatElements
<1>. QED
  BY <1>1, <1>2 DEF Emit

(* An order of the rows X names rows of X only. *)
LEMMA OrderElements ==
  ASSUME NEW X \in SUBSET Msgs, NEW s \in SetToSeqs(X)
  PROVE  s \in Seq(Msgs) /\ ToSet(s) \subseteq X /\ DOMAIN s = 1..Cardinality(X)
         /\ Cardinality(X) \in Nat
<1>1. Cardinality(X) \in Nat
  BY MsgsAssumption, FS_Subset, FS_CardinalityType
<1>2. s \in [1..Cardinality(X) -> X]
  BY DEF SetToSeqs
<1>3. s \in [1..Cardinality(X) -> Msgs]
  BY <1>2
<1>4. s \in Seq(Msgs)
  BY <1>1, <1>3, IsASeq
<1>. QED
  BY <1>1, <1>2, <1>4 DEF ToSet

(* What the hub emits for a set of rows names those rows only. *)
LEMMA EmitNewElements ==
  ASSUME TypeOK, NEW X \in SUBSET Msgs, NEW s \in SetToSeqs(X), EmitNew(s)
  PROVE  /\ down' \in Seq(Packet)
         /\ \A p \in ToSet(down') : p \in ToSet(down) \/ p.m \in X
<1>. DEFINE packets == [i \in DOMAIN s |-> New(s[i])]
<1>1. /\ Cardinality(X) \in Nat /\ DOMAIN s = 1..Cardinality(X)
      /\ \A i \in DOMAIN s : s[i] \in X
  BY OrderElements DEF ToSet
<1>2. packets \in [1..Cardinality(X) -> Packet] /\ \A i \in DOMAIN packets : packets[i].m \in X
  BY <1>1 DEF New, Packet
<1>3. packets \in Seq(Packet)
  BY <1>1, <1>2, IsASeq
<1>4. Emit(packets)
  BY DEF EmitNew
<1>5. /\ down' \in Seq(Packet)
      /\ ToSet(down') \subseteq ToSet(down) \cup ToSet(packets)
  BY <1>3, <1>4, EmitElements
<1>6. \A p \in ToSet(packets) : p.m \in X
  BY <1>2 DEF ToSet
<1>. QED
  BY <1>5, <1>6

(* A prompt that is sent, or sent again, is emitted only when it is not held back. *)
LEMMA PostEmits ==
  ASSUME TypeOK, NEW m \in Msgs, Emit(IF Future(m) THEN <<>> ELSE <<New(m)>>)
  PROVE  /\ down' \in Seq(Packet)
         /\ \A p \in ToSet(down') : p \in ToSet(down) \/ (p.m = m /\ ~Future(m))
<1>1. New(m) \in Packet /\ New(m).m = m
  BY DEF New, Packet
<1>2. <<>> \in Seq(Packet) /\ ToSet(<<>>) = {}
  BY EmptySeq DEF ToSet
<1>3. <<New(m)>> \in Seq(Packet) /\ ToSet(<<New(m)>>) = {New(m)}
  BY <1>1 DEF ToSet
<1>4. CASE Future(m)
  <2>1. Emit(<<>>)
    BY <1>4
  <2>. QED
    BY <1>2, <2>1, EmitElements
<1>5. CASE ~Future(m)
  <2>1. Emit(<<New(m)>>)
    BY <1>5
  <2>. QED
    BY <1>1, <1>3, <1>5, <2>1, EmitElements
<1>. QED
  BY <1>4, <1>5

(* The hub takes the oldest reply off the channel. *)
LEMMA ReceivesElements ==
  ASSUME TypeOK, NEW t, Receives(t)
  PROVE  /\ up' \in Seq(Reply) /\ ToSet(up') \subseteq ToSet(up)
         /\ Head(up) \in Reply /\ Head(up) \in ToSet(up) /\ Head(up).t = t
<1>1. up \in Seq(Reply)
  BY DEF TypeOK
<1>. QED
  BY <1>1, TailElements DEF Receives

LEMMA ArrivesElements ==
  ASSUME TypeOK, NEW t, Arrives(t)
  PROVE  /\ down' \in Seq(Packet) /\ ToSet(down') \subseteq ToSet(down)
         /\ Head(down) \in Packet /\ Head(down) \in ToSet(down)
<1>1. down \in Seq(Packet)
  BY DEF TypeOK
<1>. QED
  BY <1>1, TailElements DEF Arrives

LEMMA SendElements ==
  ASSUME TypeOK, NEW r \in Reply, Send(r)
  PROVE  up' \in Seq(Reply) /\ ToSet(up') = ToSet(up) \cup {r}
<1>1. up \in Seq(Reply)
  BY DEF TypeOK
<1>. QED
  BY <1>1, AppendElements DEF Send

LEMMA RepliesAreReplies ==
  /\ Alive \in Reply /\ End \in Reply
  /\ \A S \in SUBSET Msgs : Consumed(S) \in Reply
  /\ \A m \in Msgs, r \in BOOLEAN : CancelAck(m, r) \in Reply
BY DEF Alive, End, Consumed, CancelAck, Reply

(* The filter lets a prompt into the queue, or only moves it to the young end. *)
LEMMA AcceptElements ==
  ASSUME TypeOK, NEW m \in Msgs, Accept(m)
  PROVE  /\ seen' \in Seq(Msgs) /\ cursor' \in Nat /\ queue' \in Seq(Msgs)
         /\ ToSet(queue') \subseteq ToSet(queue) \cup {m}
<1>1. seen \in Seq(Msgs) /\ queue \in Seq(Msgs) /\ cursor \in Nat /\ seq[m] \in Nat
  BY DEF TypeOK
<1>2. CASE /\ seen'   = IF Len(seen) = FilterCap THEN Tail(Append(seen, m)) ELSE Append(seen, m)
           /\ cursor' = IF seq[m] > cursor THEN seq[m] ELSE cursor
           /\ queue'  = Append(queue, m)
  <2>1. Append(seen, m) \in Seq(Msgs) /\ Append(seen, m) # <<>>
    BY <1>1, AppendProperties
  <2>2. Tail(Append(seen, m)) \in Seq(Msgs)
    BY <2>1, TailElements
  <2>3. queue' \in Seq(Msgs) /\ ToSet(queue') = ToSet(queue) \cup {m}
    BY <1>1, <1>2, AppendElements
  <2>. QED
    BY <1>1, <1>2, <2>1, <2>2, <2>3
<1>3. CASE /\ \E i \in DOMAIN seen : seen[i] = m /\ seen' = Append(RemoveAt(seen, i), m)
           /\ UNCHANGED <<cursor, queue>>
  <2>1. PICK i \in DOMAIN seen : seen' = Append(RemoveAt(seen, i), m)
    BY <1>3
  <2>2. RemoveAt(seen, i) \in Seq(Msgs)
    BY <1>1, RemoveAtElements
  <2>3. seen' \in Seq(Msgs)
    BY <2>1, <2>2, AppendElements
  <2>. QED
    BY <1>1, <1>3, <2>3
<1>. QED
  BY <1>2, <1>3 DEF Accept

(* A row that is stamped was queued, and keeps its stamp and its row together. *)
RowsOK ==
  /\ \A m \in Msgs : by[m] # "nobody" <=> row[m] = "invoked"
  /\ row \in [Msgs -> {"absent", "queued", "invoked", "deleted"}]
  /\ by \in [Msgs -> {"nobody", "cli", "sweep", "cancel"}]

LEMMA MarkInvokedRows ==
  ASSUME TypeOK, NEW S, NEW who \in {"cli", "sweep", "cancel"}, MarkInvoked(S, who)
  PROVE  RowsOK' /\ \A m \in Msgs : row[m] # "absent" => row'[m] # "absent"
BY DEF TypeOK, MarkInvoked, Queued, RowsOK

LEMMA DeleteQueuedRows ==
  ASSUME TypeOK, NEW m \in Msgs, DeleteQueued(m), by' = by
  PROVE  RowsOK' /\ \A x \in Msgs : row[x] # "absent" => row'[x] # "absent"
BY DEF TypeOK, DeleteQueued, RowsOK

LEMMA SpendType ==
  ASSUME TypeOK, NEW f \in Faults, Spend(f)
  PROVE  spent' \in [Faults -> Nat]
BY DEF TypeOK, Spend

-----------------------------------------------------------------------------
(* Type correctness. *)

LEMMA InitTypes == Init => TypeOK
<1>1. \A S : <<>> \in Seq(S)
  BY EmptySeq
<1>2. NoFetch \in Fetch
  BY DEF NoFetch, Fetch
<1>. SUFFICES ASSUME Init PROVE TypeOK
  OBVIOUS
<1>3. /\ \A m \in Msgs : by[m] # "nobody" <=> row[m] = "invoked"
      /\ row \in [Msgs -> {"absent", "queued", "invoked", "deleted"}]
      /\ seq \in [Msgs -> Nat]
      /\ by \in [Msgs -> {"nobody", "cli", "sweep", "cancel"}]
      /\ outcome \in [Msgs -> Outcomes]
      /\ spent \in [Faults -> Nat]
  BY DEF Init, Outcomes
<1>. QED
  BY <1>1, <1>2, <1>3 DEF Init, TypeOK

LEMMA HubTypes ==
  ASSUME TypeOK, Hub
  PROVE  TypeOK'
<1>. USE DEF hubVars, netVars, cliVars, histVars
<1>1. ASSUME NEW m \in Msgs, Post(m) PROVE TypeOK'
  <2>1. down' \in Seq(Packet)
    BY <1>1, PostEmits DEF Post
  <2>2. RowsOK' /\ seq' \in [Msgs -> Nat]
    BY <1>1 DEF Post, TypeOK, RowsOK
  <2>. QED
    BY <1>1, <2>1, <2>2 DEF Post, TypeOK, RowsOK
<1>2. ASSUME NEW m \in Msgs, Repost(m) PROVE TypeOK'
  <2>1. down' \in Seq(Packet) /\ spent' \in [Faults -> Nat]
    BY <1>2, PostEmits, SpendType DEF Repost, Faults
  <2>. QED
    BY <1>2, <2>1 DEF Repost, TypeOK
<1>3. ASSUME NEW m \in Msgs, CancelRequest(m) PROVE TypeOK'
  <2>1. spent' \in [Faults -> Nat]
    BY <1>3, SpendType DEF CancelRequest, Faults
  <2>2. outcome' \in [Msgs -> Outcomes] /\ cancelling' \subseteq Msgs /\ notified' \subseteq Scheduled
    BY <1>3 DEF CancelRequest, TypeOK, Outcomes
  <2>3. RowsOK'
    <3>1. CASE DeleteQueued(m)
      BY <1>3, <3>1, DeleteQueuedRows DEF CancelRequest
    <3>2. CASE UNCHANGED row
      BY <1>3, <3>2 DEF CancelRequest, TypeOK, RowsOK
    <3>. QED
      BY <1>3, <3>1, <3>2 DEF CancelRequest
  <2>4. down' \in Seq(Packet)
    <3>1. CASE Emit(<<Cancel(m)>>)
      <4>1. <<Cancel(m)>> \in Seq(Packet)
        BY DEF Cancel, Packet
      <4>. QED
        BY <3>1, <4>1, EmitElements
    <3>2. CASE UNCHANGED down
      BY <3>2 DEF TypeOK
    <3>. QED
      BY <1>3, <3>1, <3>2 DEF CancelRequest
  <2>. QED
    BY <1>3, <2>1, <2>2, <2>3, <2>4 DEF CancelRequest, TypeOK, RowsOK
<1>4. ASSUME NEW m \in Msgs, SettleUnremoved(m)
      PROVE  /\ RowsOK' /\ cancelling' \subseteq Msgs /\ notified' \subseteq Scheduled
             /\ outcome' \in [Msgs -> Outcomes]
  <2>1. RowsOK'
    BY <1>4, MarkInvokedRows DEF SettleUnremoved
  <2>. QED
    BY <1>4, <2>1 DEF SettleUnremoved, TypeOK, Outcomes
<1>5. ASSUME NEW m \in Msgs, CancelTimeout(m) PROVE TypeOK'
  BY <1>4, <1>5 DEF CancelTimeout, TypeOK, RowsOK
<1>6. ASSUME NEW m \in Msgs, Mature(m) PROVE TypeOK'
  BY <1>6 DEF Mature, TypeOK
<1>7. CASE Tick
  <2>. DEFINE mature == Queued \cap Scheduled \cap due
  <2>1. mature \in SUBSET Msgs /\ mature \subseteq Scheduled
    BY DEF Queued
  <2>2. PICK s \in SetToSeqs(mature) : EmitNew(s)
    BY <1>7 DEF Tick
  <2>3. down' \in Seq(Packet)
    BY <2>1, <2>2, EmitNewElements
  <2>4. notified' \subseteq Scheduled
    BY <1>7, <2>1 DEF Tick, TypeOK
  <2>. QED
    BY <1>7, <2>3, <2>4 DEF Tick, TypeOK
<1>8. CASE HubAlive
  <2>1. PICK s \in SetToSeqs(Queued \ Scheduled) : EmitNew(s)
    BY <1>8 DEF HubAlive, InSeqOrder
  <2>2. down' \in Seq(Packet)
    BY <2>1, EmitNewElements DEF Queued
  <2>3. up' \in Seq(Reply)
    BY <1>8, ReceivesElements DEF HubAlive
  <2>. QED
    BY <1>8, <2>2, <2>3 DEF HubAlive, TypeOK
<1>9. CASE HubConsumed
  <2>1. up' \in Seq(Reply) /\ RowsOK'
    BY <1>9, ReceivesElements, MarkInvokedRows DEF HubConsumed
  <2>. QED
    BY <1>9, <2>1 DEF HubConsumed, TypeOK, RowsOK
<1>10. CASE HubEnd
  <2>1. up' \in Seq(Reply) /\ RowsOK'
    BY <1>10, ReceivesElements, MarkInvokedRows DEF HubEnd
  <2>. QED
    BY <1>10, <2>1 DEF HubEnd, TypeOK, RowsOK
<1>11. CASE HubAck
  <2>1. up' \in Seq(Reply) /\ Head(up) \in Reply
    BY <1>11, ReceivesElements DEF HubAck
  <2>2. PICK m \in Head(up).ids :
          \/ /\ m \in cancelling /\ Head(up).removed
             /\ DeleteQueued(m)
             /\ cancelling' = cancelling \ {m}
             /\ notified' = notified \ {m}
             /\ outcome' = [outcome EXCEPT ![m] = "acked"]
             /\ UNCHANGED by
          \/ /\ m \in cancelling /\ ~Head(up).removed
             /\ SettleUnremoved(m)
          \/ /\ m \notin cancelling
             /\ UNCHANGED <<row, by, cancelling, notified, outcome>>
    BY <1>11 DEF HubAck
  <2>3. m \in Msgs
    BY <2>1, <2>2 DEF Reply
  <2>4. /\ RowsOK' /\ cancelling' \subseteq Msgs /\ notified' \subseteq Scheduled
        /\ outcome' \in [Msgs -> Outcomes]
    <3>1. CASE /\ DeleteQueued(m) /\ UNCHANGED by
               /\ cancelling' = cancelling \ {m}
               /\ notified' = notified \ {m}
               /\ outcome' = [outcome EXCEPT ![m] = "acked"]
      <4>1. RowsOK'
        BY <2>3, <3>1, DeleteQueuedRows
      <4>. QED
        BY <3>1, <4>1 DEF TypeOK, Outcomes
    <3>2. CASE SettleUnremoved(m)
      BY <1>4, <2>3, <3>2
    <3>3. CASE UNCHANGED <<row, by, cancelling, notified, outcome>>
      BY <3>3 DEF TypeOK, RowsOK
    <3>. QED
      BY <2>2, <3>1, <3>2, <3>3
  <2>. QED
    BY <1>11, <2>1, <2>4 DEF HubAck, TypeOK, RowsOK
<1>12. CASE BackfillServe
  <2>. DEFINE rows == {m \in Existing : seq[m] > fetch.after /\ ~Future(m)}
  <2>1. PICK s \in SetToSeqs(rows) :
          LET n == IF Len(s) > PageLimit THEN PageLimit ELSE Len(s) IN
            /\ page' = SubSeq(s, 1, n)
            /\ fetch' = [fetch EXCEPT !.st = "answered", !.full = (n = PageLimit)]
    BY <1>12 DEF BackfillServe, InSeqOrder
  <2>2. s \in Seq(Msgs) /\ Len(s) \in Nat
    BY <2>1, OrderElements, LenProperties DEF Existing
  <2>3. page' \in Seq(Msgs)
    BY <2>1, <2>2, SizesAssumption, SubSeqElements
  <2>4. fetch' \in Fetch
    BY <2>1 DEF TypeOK, Fetch
  <2>. QED
    BY <1>12, <2>3, <2>4 DEF BackfillServe, TypeOK
<1>13. CASE HubCrash
  <2>1. spent' \in [Faults -> Nat] /\ down' \in Seq(Packet)
    BY <1>13, SpendType, EmptySeq DEF HubCrash, Faults
  <2>2. up' \in Seq(Reply)
    BY <1>13, EmptySeq DEF HubCrash, TypeOK
  <2>. QED
    BY <1>13, <2>1, <2>2 DEF HubCrash, TypeOK
<1>. QED
  BY <1>1, <1>2, <1>3, <1>5, <1>6, <1>7, <1>8, <1>9, <1>10, <1>11, <1>12, <1>13 DEF Hub

LEMMA CliTypes ==
  ASSUME TypeOK, Cli
  PROVE  TypeOK'
<1>. USE DEF hubVars, netVars, cliVars, histVars
<1>1. \A S : <<>> \in Seq(S)
  BY EmptySeq
<1>2. NoFetch \in Fetch
  BY DEF NoFetch, Fetch
<1>3. CASE Start
  BY <1>1, <1>2, <1>3 DEF Start, TypeOK
<1>4. CASE Connect
  <2>1. up' \in Seq(Reply)
    BY <1>4, SendElements, RepliesAreReplies DEF Connect
  <2>2. fetch' \in Fetch
    BY <1>4 DEF Connect, TypeOK, NoFetch, Fetch
  <2>. QED
    BY <1>4, <2>1, <2>2 DEF Connect, TypeOK
<1>5. CASE KeepAlive
  <2>1. up' \in Seq(Reply)
    BY <1>5, SendElements, RepliesAreReplies DEF KeepAlive
  <2>. QED
    BY <1>5, <2>1 DEF KeepAlive, TypeOK
<1>6. CASE CliNew
  <2>1. down' \in Seq(Packet) /\ Head(down).m \in Msgs
    BY <1>6, ArrivesElements DEF CliNew, Packet
  <2>2. seen' \in Seq(Msgs) /\ cursor' \in Nat /\ queue' \in Seq(Msgs)
    BY <1>6, <2>1, AcceptElements DEF CliNew
  <2>. QED
    BY <1>6, <2>1, <2>2 DEF CliNew, TypeOK
<1>7. CASE CliCancel
  <2>. DEFINE m == Head(down).m
  <2>1. down' \in Seq(Packet) /\ m \in Msgs
    BY <1>7, ArrivesElements DEF CliCancel, Packet
  <2>2. queue' \in Seq(Msgs)
    <3>1. CASE \E i \in DOMAIN queue : queue' = RemoveAt(queue, i)
      BY <3>1, RemoveAtElements DEF TypeOK
    <3>2. CASE UNCHANGED queue
      BY <3>2 DEF TypeOK
    <3>. QED
      BY <1>7, <3>1, <3>2 DEF CliCancel
  <2>3. up' \in Seq(Reply)
    <3>1. Send(CancelAck(m, TRUE)) \/ Send(CancelAck(m, FALSE))
      BY <1>7 DEF CliCancel
    <3>. QED
      BY <2>1, <3>1, SendElements, RepliesAreReplies
  <2>. QED
    BY <1>7, <2>1, <2>2, <2>3 DEF CliCancel, TypeOK
<1>8. CASE AgentTakes
  <2>1. PICK n \in DOMAIN queue :
          LET batch == {queue[i] : i \in 1..n} IN
            /\ done' = done \cup batch
            /\ ran'  = ran \cup batch
            /\ Send(Consumed(batch))
            /\ queue' = SubSeq(queue, n + 1, Len(queue))
    BY <1>8 DEF AgentTakes
  <2>. DEFINE batch == {queue[i] : i \in 1..n}
  <2>2. queue \in Seq(Msgs) /\ Len(queue) \in Nat /\ n \in 1..Len(queue)
    BY LenProperties DEF TypeOK
  <2>3. batch \in SUBSET Msgs
    BY <2>2, ElementOfSeq
  <2>4. up' \in Seq(Reply)
    BY <2>1, <2>3, SendElements, RepliesAreReplies
  <2>5. queue' \in Seq(Msgs)
    BY <2>1, <2>2, SubSeqElements
  <2>. QED
    BY <1>8, <2>1, <2>3, <2>4, <2>5 DEF AgentTakes, TypeOK
<1>9. CASE AgentAbort
  <2>1. spent' \in [Faults -> Nat]
    BY <1>9, SpendType DEF AgentAbort, Faults
  <2>. QED
    BY <1>1, <1>9, <2>1 DEF AgentAbort, TypeOK
<1>10. CASE BackfillArrives
  BY <1>10 DEF BackfillArrives, TypeOK, Fetch
<1>11. CASE BackfillRow
  <2>1. page' \in Seq(Msgs) /\ Head(page) \in Msgs
    BY <1>11, TailElements DEF BackfillRow, TypeOK
  <2>2. seen' \in Seq(Msgs) /\ cursor' \in Nat /\ queue' \in Seq(Msgs)
    BY <1>11, <2>1, AcceptElements DEF BackfillRow
  <2>. QED
    BY <1>11, <2>1, <2>2 DEF BackfillRow, TypeOK
<1>12. CASE BackfillTurn
  BY <1>12 DEF BackfillTurn, TypeOK, NoFetch, Fetch
<1>13. CASE BackfillFail
  <2>1. spent' \in [Faults -> Nat]
    BY <1>13, SpendType DEF BackfillFail, Faults
  <2>. QED
    BY <1>1, <1>2, <1>13, <2>1 DEF BackfillFail, TypeOK
<1>14. CASE Drop
  <2>1. spent' \in [Faults -> Nat]
    BY <1>14, SpendType DEF Drop, Faults
  <2>. QED
    BY <1>1, <1>14, <2>1 DEF Drop, TypeOK
<1>15. CASE SessionEnds
  <2>1. spent' \in [Faults -> Nat] /\ up' \in Seq(Reply)
    BY <1>15, SpendType, SendElements, RepliesAreReplies DEF SessionEnds, Faults
  <2>. QED
    BY <1>15, <2>1 DEF SessionEnds, TypeOK
<1>16. CASE Close
  BY <1>1, <1>2, <1>16 DEF Close, Gone, TypeOK
<1>17. CASE CliCrash
  <2>1. spent' \in [Faults -> Nat]
    BY <1>17, SpendType DEF CliCrash, Faults
  <2>. QED
    BY <1>1, <1>2, <1>17, <2>1 DEF CliCrash, Gone, TypeOK
<1>. QED
  BY <1>3, <1>4, <1>5, <1>6, <1>7, <1>8, <1>9, <1>10, <1>11, <1>12, <1>13, <1>14, <1>15, <1>16, <1>17
  DEF Cli

(* Every variable keeps its type, and a row is stamped exactly when somebody *)
(* stamped it (markMessagesInvoked, deleteQueuedMessageById).                *)
THEOREM TypeCorrect == Spec => []TypeOK
<1>1. TypeOK /\ [Next]_vars => TypeOK'
  <2>1. CASE Next
    BY <2>1, HubTypes, CliTypes DEF Next
  <2>2. CASE UNCHANGED vars
    BY <2>2 DEF vars, hubVars, netVars, cliVars, histVars, TypeOK
  <2>. QED
    BY <2>1, <2>2
<1>. QED
  BY InitTypes, <1>1, PTL DEF Spec

-----------------------------------------------------------------------------
(* What is on its way to the agent.  The inductive argument for NothingEarly *)
(* and for AckedWasRun: a prompt is handed on only by a step that sees its   *)
(* row, posted and not held back; nothing is held back again; and a reply on *)
(* the channel only names prompts that an agent has consumed.                *)

Handed == ToSet(queue) \cup ToSet(page) \cup {down[i].m : i \in DOMAIN down}

Ready == {m \in Msgs : row[m] \in {"queued", "invoked"} /\ ~Future(m)}

HandedWasPosted == \A m \in Msgs : m \in Handed => row[m] # "absent"

ReportedWasRun == \A r \in ToSet(up) : r.t = "consumed" => r.ids \subseteq ran

DeliveryInv ==
  TypeOK /\ NothingEarly /\ HandedWasPosted /\ AckedWasRun /\ ReportedWasRun

LEMMA HandedElements ==
  Handed = ToSet(queue) \cup ToSet(page) \cup {p.m : p \in ToSet(down)}
BY DEF Handed, ToSet

LEMMA HubHands ==
  ASSUME TypeOK, Hub
  PROVE  Handed' \subseteq Handed \cup Ready'
<1>. USE DEF hubVars, netVars, cliVars, histVars
<1>1. ASSUME UNCHANGED <<queue, page, down>> PROVE Handed' \subseteq Handed
  BY <1>1 DEF Handed
<1>2. ASSUME UNCHANGED <<queue, page>>, \A p \in ToSet(down') : p \in ToSet(down) \/ p.m \in Ready'
      PROVE  Handed' \subseteq Handed \cup Ready'
  <2>1. Handed' = ToSet(queue') \cup ToSet(page') \cup {p.m : p \in ToSet(down')}
    BY DEF Handed, ToSet
  <2>. QED
    BY <1>2, <2>1, HandedElements
<1>3. ASSUME NEW m \in Msgs, Post(m) PROVE Handed' \subseteq Handed \cup Ready'
  <2>1. \A p \in ToSet(down') : p \in ToSet(down) \/ (p.m = m /\ ~Future(m))
    BY <1>3, PostEmits DEF Post
  <2>2. row'[m] = "queued" /\ UNCHANGED due
    BY <1>3 DEF Post, TypeOK
  <2>3. ~Future(m) => m \in Ready'
    BY <2>2 DEF Ready, Future
  <2>. QED
    BY <1>2, <1>3, <2>1, <2>3 DEF Post
<1>4. ASSUME NEW m \in Msgs, Repost(m) PROVE Handed' \subseteq Handed \cup Ready'
  <2>1. \A p \in ToSet(down') : p \in ToSet(down) \/ (p.m = m /\ ~Future(m))
    BY <1>4, PostEmits DEF Repost
  <2>2. ~Future(m) => m \in Ready'
    BY <1>4 DEF Repost, Existing, Ready, Future
  <2>. QED
    BY <1>2, <1>4, <2>1, <2>2 DEF Repost
<1>5. ASSUME NEW m \in Msgs, CancelRequest(m) PROVE Handed' \subseteq Handed \cup Ready'
  <2>1. CASE UNCHANGED down
    BY <1>1, <1>5, <2>1 DEF CancelRequest
  <2>2. CASE row[m] = "queued" /\ ~Future(m) /\ Emit(<<Cancel(m)>>) /\ UNCHANGED row
    <3>1. <<Cancel(m)>> \in Seq(Packet) /\ ToSet(<<Cancel(m)>>) = {Cancel(m)} /\ Cancel(m).m = m
      BY DEF Cancel, Packet, ToSet
    <3>2. \A p \in ToSet(down') : p \in ToSet(down) \/ p.m = m
      BY <2>2, <3>1, EmitElements
    <3>3. m \in Ready'
      BY <1>5, <2>2 DEF CancelRequest, Ready, Future
    <3>. QED
      BY <1>2, <1>5, <3>2, <3>3 DEF CancelRequest
  <2>. QED
    BY <1>5, <2>1, <2>2 DEF CancelRequest
<1>6. CASE Tick
  <2>. DEFINE mature == Queued \cap Scheduled \cap due
  <2>1. PICK s \in SetToSeqs(mature) : EmitNew(s)
    BY <1>6 DEF Tick
  <2>2. mature \in SUBSET Msgs
    BY DEF Queued
  <2>3. mature \subseteq Ready'
    BY <1>6 DEF Tick, Queued, Ready, Future
  <2>4. \A p \in ToSet(down') : p \in ToSet(down) \/ p.m \in mature
    BY <2>1, <2>2, EmitNewElements
  <2>. QED
    BY <1>2, <1>6, <2>3, <2>4 DEF Tick
<1>7. CASE HubAlive
  <2>. DEFINE X == Queued \ Scheduled
  <2>1. PICK s \in SetToSeqs(X) : EmitNew(s)
    BY <1>7 DEF HubAlive, InSeqOrder
  <2>2. X \in SUBSET Msgs
    BY DEF Queued
  <2>3. X \subseteq Ready'
    BY <1>7 DEF HubAlive, Queued, Ready, Future
  <2>4. \A p \in ToSet(down') : p \in ToSet(down) \/ p.m \in X
    BY <2>1, <2>2, EmitNewElements
  <2>. QED
    BY <1>2, <1>7, <2>3, <2>4 DEF HubAlive
<1>8. CASE BackfillServe
  <2>. DEFINE rows == {m \in Existing : seq[m] > fetch.after /\ ~Future(m)}
  <2>1. PICK s \in SetToSeqs(rows) :
          LET n == IF Len(s) > PageLimit THEN PageLimit ELSE Len(s) IN
            page' = SubSeq(s, 1, n)
    BY <1>8 DEF BackfillServe, InSeqOrder
  <2>2. s \in Seq(Msgs) /\ ToSet(s) \subseteq rows /\ Len(s) \in Nat
    BY <2>1, OrderElements, LenProperties DEF Existing
  <2>3. ToSet(page') \subseteq rows
    BY <2>1, <2>2, SizesAssumption, SubSeqElements
  <2>4. rows \subseteq Ready'
    BY <1>8 DEF BackfillServe, Existing, Ready, Future
  <2>. QED
    BY <1>8, <2>3, <2>4 DEF BackfillServe, Handed
<1>9. CASE HubCrash
  <2>1. ToSet(down') = {} /\ ToSet(<<>>) = {}
    BY <1>9, EmptySeq DEF HubCrash, ToSet
  <2>. QED
    BY <1>2, <1>9, <2>1 DEF HubCrash
<1>10. ASSUME NEW m \in Msgs, CancelTimeout(m) \/ Mature(m) PROVE Handed' \subseteq Handed
  BY <1>1, <1>10 DEF CancelTimeout, Mature
<1>11. CASE HubConsumed \/ HubEnd \/ HubAck
  BY <1>1, <1>11 DEF HubConsumed, HubEnd, HubAck
<1>. QED
  BY <1>3, <1>4, <1>5, <1>6, <1>7, <1>8, <1>9, <1>10, <1>11 DEF Hub

LEMMA CliHands ==
  ASSUME TypeOK, Cli
  PROVE  Handed' \subseteq Handed /\ ran' \subseteq ran \cup Handed /\ ran \subseteq ran'
<1>. USE DEF hubVars, netVars, cliVars, histVars
<1>1. ASSUME UNCHANGED ran, ToSet(queue') \subseteq Handed, ToSet(page') \subseteq Handed,
             ToSet(down') \subseteq ToSet(down)
      PROVE  Handed' \subseteq Handed /\ ran' \subseteq ran \cup Handed /\ ran \subseteq ran'
  <2>1. Handed' = ToSet(queue') \cup ToSet(page') \cup {p.m : p \in ToSet(down')}
    BY DEF Handed, ToSet
  <2>. QED
    BY <1>1, <2>1, HandedElements
<1>2. ToSet(<<>>) = {}
  BY EmptySeq DEF ToSet
<1>3. CASE Start \/ Drop \/ AgentAbort \/ BackfillFail
  <2>1. /\ UNCHANGED ran /\ ToSet(queue') \subseteq ToSet(queue) /\ ToSet(page') \subseteq ToSet(page)
        /\ ToSet(down') \subseteq ToSet(down)
    BY <1>2, <1>3 DEF Start, Drop, AgentAbort, BackfillFail
  <2>. QED
    BY <1>1, <2>1 DEF Handed
<1>4. CASE Connect \/ KeepAlive \/ BackfillArrives \/ BackfillTurn \/ SessionEnds
  <2>1. UNCHANGED <<ran, queue, page, down>>
    BY <1>4 DEF Connect, KeepAlive, BackfillArrives, BackfillTurn, SessionEnds
  <2>. QED
    BY <1>1, <2>1 DEF Handed
<1>5. CASE CliNew
  <2>. DEFINE m == Head(down).m
  <2>1. ToSet(down') \subseteq ToSet(down) /\ m \in Msgs /\ m \in Handed
    BY <1>5, ArrivesElements, HandedElements DEF CliNew, Packet
  <2>2. ToSet(queue') \subseteq ToSet(queue) \cup {m}
    BY <1>5, <2>1, AcceptElements DEF CliNew
  <2>. QED
    BY <1>1, <1>5, <2>1, <2>2 DEF CliNew, Handed
<1>6. CASE CliCancel
  <2>1. ToSet(down') \subseteq ToSet(down)
    BY <1>6, ArrivesElements DEF CliCancel
  <2>2. ToSet(queue') \subseteq ToSet(queue)
    <3>1. CASE \E i \in DOMAIN queue : queue' = RemoveAt(queue, i)
      BY <3>1, RemoveAtElements DEF TypeOK
    <3>. QED
      BY <1>6, <3>1 DEF CliCancel
  <2>. QED
    BY <1>1, <1>6, <2>1, <2>2 DEF CliCancel, Handed
<1>7. CASE AgentTakes
  <2>1. PICK n \in DOMAIN queue :
          /\ ran'  = ran \cup {queue[i] : i \in 1..n}
          /\ queue' = SubSeq(queue, n + 1, Len(queue))
    BY <1>7 DEF AgentTakes
  <2>2. queue \in Seq(Msgs) /\ Len(queue) \in Nat /\ n \in 1..Len(queue) /\ DOMAIN queue = 1..Len(queue)
    BY LenProperties DEF TypeOK
  <2>3. ToSet(queue') \subseteq ToSet(queue)
    BY <2>1, <2>2, SubSeqElements
  <2>4. {queue[i] : i \in 1..n} \subseteq ToSet(queue)
    BY <2>2 DEF ToSet
  <2>. QED
    BY <1>7, <2>1, <2>3, <2>4 DEF AgentTakes, Handed
<1>8. CASE BackfillRow
  <2>1. page # <<>> /\ page \in Seq(Msgs)
    BY <1>8 DEF BackfillRow, TypeOK
  <2>2. /\ ToSet(page') \subseteq ToSet(page)
        /\ Head(page) \in Msgs /\ Head(page) \in ToSet(page)
    BY <1>8, <2>1, TailElements DEF BackfillRow
  <2>3. ToSet(queue') \subseteq ToSet(queue) \cup {Head(page)}
    BY <1>8, <2>2, AcceptElements DEF BackfillRow
  <2>. QED
    BY <1>1, <1>8, <2>2, <2>3 DEF BackfillRow, Handed
<1>9. CASE Close \/ CliCrash
  <2>1. UNCHANGED ran /\ queue' = <<>> /\ page' = <<>> /\ down' = <<>>
    BY <1>9 DEF Close, CliCrash, Gone
  <2>. QED
    BY <1>1, <1>2, <2>1
<1>. QED
  BY <1>3, <1>4, <1>5, <1>6, <1>7, <1>8, <1>9 DEF Cli

(* Rows never return to absent and the clock never goes back. *)
LEMMA RowsStayPosted ==
  ASSUME TypeOK, Next
  PROVE  /\ \A m \in Msgs : row[m] # "absent" => row'[m] # "absent"
         /\ \A m \in Msgs : Future(m)' => Future(m)
<1>. USE DEF hubVars, netVars, cliVars, histVars
<1>1. \A m \in Msgs : row[m] # "absent" => row'[m] # "absent"
  <2>1. ASSUME NEW m \in Msgs, Post(m) PROVE \A x \in Msgs : row[x] # "absent" => row'[x] # "absent"
    BY <2>1 DEF Post, TypeOK
  <2>2. ASSUME NEW m \in Msgs, DeleteQueued(m)
        PROVE  \A x \in Msgs : row[x] # "absent" => row'[x] # "absent"
    BY <2>2 DEF DeleteQueued, TypeOK
  <2>3. ASSUME NEW S, NEW who, MarkInvoked(S, who)
        PROVE  \A x \in Msgs : row[x] # "absent" => row'[x] # "absent"
    BY <2>3 DEF MarkInvoked
  <2>4. ASSUME NEW m \in Msgs, CancelRequest(m) \/ CancelTimeout(m)
        PROVE  \A x \in Msgs : row[x] # "absent" => row'[x] # "absent"
    BY <2>2, <2>3, <2>4 DEF CancelRequest, CancelTimeout, SettleUnremoved
  <2>5. CASE HubAck
    <3>1. Head(up).ids \subseteq Msgs
      BY <2>5, ReceivesElements DEF HubAck, Reply
    <3>. QED
      BY <2>2, <2>3, <2>5, <3>1 DEF HubAck, SettleUnremoved
  <2>6. CASE HubConsumed \/ HubEnd
    BY <2>3, <2>6 DEF HubConsumed, HubEnd
  <2>7. CASE UNCHANGED row
    BY <2>7
  <2>8. \/ UNCHANGED row \/ HubAck \/ HubConsumed \/ HubEnd
        \/ \E m \in Msgs : Post(m) \/ CancelRequest(m) \/ CancelTimeout(m)
    BY DEF Next, Hub, Cli, Repost, Mature, Tick, HubAlive, BackfillServe, HubCrash,
           Start, Connect, KeepAlive, CliNew, CliCancel, AgentTakes, AgentAbort, BackfillArrives,
           BackfillRow, BackfillTurn, BackfillFail, Drop, SessionEnds, Close, CliCrash, Gone
  <2>. QED
    BY <2>1, <2>4, <2>5, <2>6, <2>7, <2>8
<1>2. due \subseteq due'
  BY DEF Next, Hub, Cli, Post, Repost, Mature, Tick, HubAlive, HubConsumed, HubEnd, CancelRequest,
         CancelTimeout, HubAck, BackfillServe, HubCrash,
         Start, Connect, KeepAlive, CliNew, CliCancel, AgentTakes, AgentAbort, BackfillArrives,
         BackfillRow, BackfillTurn, BackfillFail, Drop, SessionEnds, Close, CliCrash, Gone
<1>. QED
  BY <1>1, <1>2 DEF Future

(* The hub consumes nothing; every reply on the channel is true when it is sent. *)
LEMMA HubRan ==
  ASSUME TypeOK, Hub
  PROVE  UNCHANGED ran /\ ToSet(up') \subseteq ToSet(up)
<1>. USE DEF hubVars, netVars, cliVars, histVars
<1>1. UNCHANGED ran
  BY DEF Hub, Post, Repost, Mature, Tick, HubAlive, HubConsumed, HubEnd, CancelRequest,
         CancelTimeout, HubAck, BackfillServe, HubCrash
<1>2. CASE UNCHANGED up
  BY <1>1, <1>2
<1>3. CASE HubAlive \/ HubConsumed \/ HubEnd \/ HubAck
  BY <1>1, <1>3, ReceivesElements DEF HubAlive, HubConsumed, HubEnd, HubAck
<1>4. CASE HubCrash
  <2>1. up' = <<>> \/ up' = up
    BY <1>4 DEF HubCrash
  <2>2. ToSet(<<>>) = {}
    BY EmptySeq DEF ToSet
  <2>. QED
    BY <1>1, <2>1, <2>2
<1>5. UNCHANGED up \/ HubAlive \/ HubConsumed \/ HubEnd \/ HubAck \/ HubCrash
  BY DEF Hub, Post, Repost, Mature, Tick, CancelRequest, CancelTimeout, BackfillServe
<1>. QED
  BY <1>1, <1>2, <1>3, <1>4, <1>5

LEMMA CliReports ==
  ASSUME TypeOK, Cli
  PROVE  \A r \in ToSet(up') : r \in ToSet(up) \/ r.t # "consumed" \/ r.ids \subseteq ran'
<1>. USE DEF hubVars, netVars, cliVars, histVars
<1>1. ASSUME NEW r \in Reply, Send(r), r.t # "consumed" \/ r.ids \subseteq ran'
      PROVE  \A x \in ToSet(up') : x \in ToSet(up) \/ x.t # "consumed" \/ x.ids \subseteq ran'
  BY <1>1, SendElements
<1>2. CASE Connect \/ KeepAlive
  <2>1. Send(Alive) /\ Alive \in Reply /\ Alive.t # "consumed"
    BY <1>2, RepliesAreReplies DEF Connect, KeepAlive, Alive
  <2>. QED
    BY <1>1, <2>1
<1>3. CASE SessionEnds
  <2>1. Send(End) /\ End \in Reply /\ End.t # "consumed"
    BY <1>3, RepliesAreReplies DEF SessionEnds, End
  <2>. QED
    BY <1>1, <2>1
<1>4. CASE CliCancel
  <2>1. Head(down).m \in Msgs
    BY <1>4, ArrivesElements DEF CliCancel, Packet
  <2>2. PICK b \in BOOLEAN : Send(CancelAck(Head(down).m, b))
    BY <1>4 DEF CliCancel
  <2>3. CancelAck(Head(down).m, b) \in Reply /\ CancelAck(Head(down).m, b).t # "consumed"
    BY <2>1, RepliesAreReplies DEF CancelAck
  <2>. QED
    BY <1>1, <2>2, <2>3
<1>5. CASE AgentTakes
  <2>1. PICK n \in DOMAIN queue :
          /\ ran'  = ran \cup {queue[i] : i \in 1..n}
          /\ Send(Consumed({queue[i] : i \in 1..n}))
    BY <1>5 DEF AgentTakes
  <2>. DEFINE batch == {queue[i] : i \in 1..n}
  <2>2. batch \in SUBSET Msgs
    BY LenProperties, ElementOfSeq DEF TypeOK
  <2>3. Consumed(batch) \in Reply /\ Consumed(batch).ids = batch
    BY <2>2, RepliesAreReplies DEF Consumed
  <2>4. Consumed(batch).ids \subseteq ran'
    BY <2>1, <2>3
  <2>5. Send(Consumed(batch))
    BY <2>1
  <2>. HIDE DEF batch
  <2>. QED
    BY <1>1, <2>3, <2>4, <2>5
<1>6. CASE Drop \/ Close \/ CliCrash
  <2>1. ToSet(up') = {}
    BY <1>6, EmptySeq DEF Drop, Close, CliCrash, Gone, ToSet
  <2>. QED
    BY <2>1
<1>7. CASE UNCHANGED up
  BY <1>7
<1>8. UNCHANGED up \/ Connect \/ KeepAlive \/ SessionEnds \/ CliCancel \/ AgentTakes \/ Drop \/ Close \/ CliCrash
  BY DEF Cli, Start, CliNew, AgentAbort, BackfillArrives, BackfillRow, BackfillTurn, BackfillFail
<1>. QED
  BY <1>2, <1>3, <1>4, <1>5, <1>6, <1>7, <1>8

(* Only messages-consumed writes "cli", and only for what it names. *)
LEMMA AckedByReport ==
  ASSUME TypeOK, ReportedWasRun, Next
  PROVE  \A m \in Msgs : by'[m] = "cli" => by[m] = "cli" \/ m \in ran
<1>. USE DEF hubVars, netVars, cliVars, histVars
<1>1. CASE HubConsumed
  <2>1. Head(up).ids \subseteq ran
    BY <1>1, ReceivesElements DEF HubConsumed, ReportedWasRun
  <2>. QED
    BY <1>1, <2>1 DEF HubConsumed, MarkInvoked
<1>2. ASSUME NEW S, NEW who, MarkInvoked(S, who), who # "cli"
      PROVE  \A m \in Msgs : by'[m] = "cli" => by[m] = "cli"
  BY <1>2 DEF MarkInvoked
<1>3. CASE HubEnd
  BY <1>2, <1>3 DEF HubEnd
<1>4. ASSUME NEW m \in Msgs, CancelTimeout(m) PROVE \A x \in Msgs : by'[x] = "cli" => by[x] = "cli"
  BY <1>2, <1>4 DEF CancelTimeout, SettleUnremoved
<1>5. CASE HubAck
  <2>1. UNCHANGED by \/ \E m \in Head(up).ids : SettleUnremoved(m)
    BY <1>5 DEF HubAck
  <2>. QED
    BY <1>2, <2>1 DEF SettleUnremoved
<1>6. CASE UNCHANGED by
  BY <1>6
<1>7. UNCHANGED by \/ HubConsumed \/ HubEnd \/ HubAck \/ \E m \in Msgs : CancelTimeout(m)
  BY DEF Next, Hub, Cli, Post, Repost, Mature, Tick, HubAlive, CancelRequest, BackfillServe, HubCrash,
         Start, Connect, KeepAlive, CliNew, CliCancel, AgentTakes, AgentAbort, BackfillArrives,
         BackfillRow, BackfillTurn, BackfillFail, Drop, SessionEnds, Close, CliCrash, Gone
<1>. QED
  BY <1>1, <1>3, <1>4, <1>5, <1>6, <1>7

LEMMA DeliveryInductive ==
  /\ Init => DeliveryInv
  /\ DeliveryInv /\ [Next]_vars => DeliveryInv'
<1>1. Init => DeliveryInv
  <2>. SUFFICES ASSUME Init PROVE DeliveryInv
    OBVIOUS
  <2>1. ToSet(<<>>) = {} /\ DOMAIN <<>> = {}
    BY EmptySeq DEF ToSet
  <2>2. Handed = {} /\ ran = {} /\ ToSet(up) = {} /\ \A m \in Msgs : by[m] = "nobody"
    BY <2>1 DEF Init, Handed
  <2>. QED
    BY <2>2, InitTypes DEF DeliveryInv, NothingEarly, HandedWasPosted, AckedWasRun, ReportedWasRun, Handed
<1>2. ASSUME DeliveryInv, Next PROVE DeliveryInv'
  <2>1. TypeOK' /\ TypeOK
    BY <1>2, HubTypes, CliTypes DEF Next, DeliveryInv
  <2>2. Handed' \subseteq Handed \cup Ready' /\ ran' \subseteq ran \cup Handed /\ ran \subseteq ran'
    BY <1>2, <2>1, HubHands, CliHands, HubRan DEF Next
  <2>3. /\ \A m \in Msgs : row[m] # "absent" => row'[m] # "absent"
        /\ \A m \in Msgs : Future(m)' => Future(m)
    BY <1>2, <2>1, RowsStayPosted
  <2>4. NothingEarly'
    <3>1. \A m \in Msgs : Future(m) => m \notin Handed \cup ran
      BY <1>2 DEF DeliveryInv, NothingEarly, Handed
    <3>2. \A m \in Msgs : Future(m)' => m \notin Handed' \cup ran'
      BY <2>2, <2>3, <3>1 DEF Ready
    <3>. QED
      BY <3>2 DEF NothingEarly, Handed
  <2>5. HandedWasPosted'
    BY <1>2, <2>2, <2>3 DEF DeliveryInv, HandedWasPosted, Ready
  <2>6. AckedWasRun'
    BY <1>2, <2>1, <2>2, AckedByReport DEF DeliveryInv, AckedWasRun
  <2>7. ReportedWasRun'
    <3>1. \A r \in ToSet(up') : r \in ToSet(up) \/ r.t # "consumed" \/ r.ids \subseteq ran'
      BY <1>2, <2>1, HubRan, CliReports DEF Next
    <3>. QED
      BY <1>2, <2>2, <3>1 DEF DeliveryInv, ReportedWasRun
  <2>. QED
    BY <2>1, <2>4, <2>5, <2>6, <2>7 DEF DeliveryInv
<1>3. ASSUME DeliveryInv, UNCHANGED vars PROVE DeliveryInv'
  <2>. USE <1>3 DEF vars, hubVars, netVars, cliVars, histVars, DeliveryInv
  <2>1. TypeOK'
    BY DEF TypeOK
  <2>2. NothingEarly'
    BY DEF NothingEarly, Future
  <2>3. HandedWasPosted' /\ AckedWasRun' /\ ReportedWasRun'
    BY DEF HandedWasPosted, AckedWasRun, ReportedWasRun, Handed
  <2>. QED
    BY <2>1, <2>2, <2>3
<1>. QED
  BY <1>1, <1>2, <1>3

(* A prompt scheduled for later is nowhere on the way to the agent before its *)
(* time: sendMessage, the replay, the scan, and the backfill all look at      *)
(* scheduled_at before they hand a row on.                                    *)
THEOREM NothingEarlyHolds == Spec => []NothingEarly
<1>1. DeliveryInv => NothingEarly
  BY DEF DeliveryInv
<1>. QED
  BY DeliveryInductive, <1>1, PTL DEF Spec

(* A row stamped for messages-consumed belongs to a prompt an agent consumed. *)
THEOREM AckedWasRunHolds == Spec => []AckedWasRun
<1>1. DeliveryInv => AckedWasRun
  BY DEF DeliveryInv
<1>. QED
  BY DeliveryInductive, <1>1, PTL DEF Spec

-----------------------------------------------------------------------------
(* Every step of the system is a step of the ledger or leaves it as it is. *)

LEMMA MarkInvokedStamps ==
  ASSUME NEW S, NEW who \in {"cli", "sweep", "cancel"}, MarkInvoked(S, who), UNCHANGED ran,
         who = "cli" => S \subseteq ran
  PROVE  Ledger!Next
<1>1. S \cap Queued \in SUBSET Msgs
  BY DEF Queued
<1>2. Ledger!Stamp(S \cap Queued, who)
  BY DEF MarkInvoked, Queued, Ledger!Stamp
<1>3. who \in Ledger!Writers \ {"nobody"}
  BY DEF Ledger!Writers
<1>. QED
  BY <1>1, <1>2, <1>3 DEF Ledger!Next

LEMMA DeleteQueuedDeletes ==
  ASSUME NEW m \in Msgs, DeleteQueued(m), UNCHANGED <<by, ran>>
  PROVE  [Ledger!Next]_<<row, by, ran>>
BY DEF DeleteQueued, Ledger!Next, Ledger!Delete

LEMMA LedgerStep ==
  ASSUME DeliveryInv, Next
  PROVE  [Ledger!Next]_<<row, by, ran>>
<1>. USE DEF hubVars, netVars, cliVars, histVars
<1>1. TypeOK
  BY DEF DeliveryInv
<1>2. ASSUME NEW m \in Msgs, Post(m) PROVE Ledger!Next
  BY <1>2 DEF Post, Ledger!Next, Ledger!Enter
<1>3. ASSUME NEW m \in Msgs, CancelRequest(m) PROVE [Ledger!Next]_<<row, by, ran>>
  <2>1. UNCHANGED <<by, ran>> /\ (DeleteQueued(m) \/ UNCHANGED row)
    BY <1>3 DEF CancelRequest
  <2>. QED
    BY <2>1, DeleteQueuedDeletes
<1>4. ASSUME NEW m \in Msgs, CancelTimeout(m) PROVE Ledger!Next
  BY <1>4, MarkInvokedStamps DEF CancelTimeout, SettleUnremoved
<1>5. CASE HubConsumed
  <2>1. Head(up).ids \subseteq ran
    BY <1>1, <1>5, ReceivesElements DEF HubConsumed, DeliveryInv, ReportedWasRun
  <2>. QED
    BY <1>5, <2>1, MarkInvokedStamps DEF HubConsumed
<1>6. CASE HubEnd
  BY <1>6, MarkInvokedStamps DEF HubEnd
<1>7. CASE HubAck
  <2>1. Head(up).ids \subseteq Msgs /\ UNCHANGED ran
    BY <1>1, <1>7, ReceivesElements DEF HubAck, Reply
  <2>2. PICK m \in Head(up).ids :
          \/ DeleteQueued(m) /\ UNCHANGED by
          \/ MarkInvoked({m}, "cancel")
          \/ UNCHANGED <<row, by>>
    BY <1>7 DEF HubAck, SettleUnremoved
  <2>. QED
    BY <2>1, <2>2, DeleteQueuedDeletes, MarkInvokedStamps
<1>8. CASE AgentTakes
  <2>1. PICK n \in DOMAIN queue : ran' = ran \cup {queue[i] : i \in 1..n}
    BY <1>8 DEF AgentTakes
  <2>. DEFINE batch == {queue[i] : i \in 1..n}
  <2>2. batch \in SUBSET Msgs /\ batch \subseteq Handed
    BY <1>1, LenProperties, ElementOfSeq DEF TypeOK, Handed, ToSet
  <2>3. \A m \in batch : row[m] # "absent"
    BY <2>2 DEF DeliveryInv, HandedWasPosted
  <2>4. Ledger!Run(batch)
    BY <1>8, <2>1, <2>3 DEF AgentTakes, Ledger!Run
  <2>. QED
    BY <2>2, <2>4 DEF Ledger!Next
<1>9. \/ UNCHANGED <<row, by, ran>> \/ HubConsumed \/ HubEnd \/ HubAck \/ AgentTakes
      \/ \E m \in Msgs : Post(m) \/ CancelRequest(m) \/ CancelTimeout(m)
  BY DEF Next, Hub, Cli, Repost, Mature, Tick, HubAlive, BackfillServe, HubCrash,
         Start, Connect, KeepAlive, CliNew, CliCancel, AgentAbort, BackfillArrives,
         BackfillRow, BackfillTurn, BackfillFail, Drop, SessionEnds, Close, CliCrash, Gone
<1>. QED
  BY <1>2, <1>3, <1>4, <1>5, <1>6, <1>7, <1>8, <1>9

(* The hub keeps the ledger's promise: a prompt enters once, leaves once, and *)
(* the first of its writers is the one that stays.                            *)
THEOREM ImplementsLedger == Spec => LedgerSpec
<1>1. Init => Ledger!Init
  BY DEF Init, Ledger!Init
<1>2. DeliveryInv /\ [Next]_vars => [Ledger!Next]_<<row, by, ran>>
  <2>1. CASE Next
    BY <2>1, LedgerStep
  <2>2. CASE UNCHANGED vars
    BY <2>2 DEF vars, hubVars, histVars
  <2>. QED
    BY <2>1, <2>2
<1>3. Ledger!ledgerVars = <<row, by, ran>>
  BY DEF Ledger!ledgerVars
<1>. QED
  BY DeliveryInductive, <1>1, <1>2, <1>3, PTL DEF Spec, LedgerSpec, Ledger!Spec, Ledger!ledgerVars

-----------------------------------------------------------------------------
(* Sequences without repetition. *)

Once(s) == \A i, j \in DOMAIN s : s[i] = s[j] => i = j

LEMMA AppendOnce ==
  ASSUME NEW S, NEW s \in Seq(S), NEW e \in S, Once(s), e \notin ToSet(s)
  PROVE  Once(Append(s, e))
<1>1. /\ Len(Append(s, e)) = Len(s) + 1 /\ Append(s, e) \in Seq(S)
      /\ \A i \in 1..Len(s) : Append(s, e)[i] = s[i]
      /\ Append(s, e)[Len(s) + 1] = e
  BY AppendProperties
<1>2. DOMAIN s = 1..Len(s) /\ DOMAIN Append(s, e) = 1..(Len(s) + 1) /\ Len(s) \in Nat
  BY <1>1, LenProperties
<1>3. \A i \in 1..Len(s) : s[i] # e
  BY <1>2 DEF ToSet
<1>4. \A i \in 1..(Len(s) + 1) : i \in 1..Len(s) \/ i = Len(s) + 1
  BY <1>2
<1>. QED
  BY <1>1, <1>2, <1>3, <1>4 DEF Once

LEMMA SubSeqAt ==
  ASSUME NEW S, NEW s \in Seq(S), NEW k \in Nat, NEW b \in Nat, k <= b, b <= Len(s)
  PROVE  /\ SubSeq(s, k + 1, b) \in Seq(S) /\ Len(SubSeq(s, k + 1, b)) = b - k
         /\ DOMAIN SubSeq(s, k + 1, b) = 1..(b - k)
         /\ \A i \in 1..(b - k) : SubSeq(s, k + 1, b)[i] = s[k + i] /\ k + i \in 1..Len(s)
<1>. DEFINE t == SubSeq(s, k + 1, b)
<1>1. Len(s) \in Nat /\ \A i \in (k + 1)..b : s[i] \in S
  BY LenProperties, ElementOfSeq
<1>2. /\ t \in Seq(S) /\ Len(t) = IF k + 1 <= b THEN b - (k + 1) + 1 ELSE 0
      /\ \A i \in 1..(b - (k + 1) + 1) : t[i] = s[(k + 1) + i - 1]
  BY <1>1, SubSeqProperties
<1>. HIDE DEF t
<1>3. Len(t) = b - k /\ b - (k + 1) + 1 = b - k
  BY <1>2
<1>4. DOMAIN t = 1..(b - k)
  BY <1>2, <1>3, LenProperties
<1>5. ASSUME NEW i \in 1..(b - k) PROVE t[i] = s[k + i] /\ k + i \in 1..Len(s)
  <2>1. (k + 1) + i - 1 = k + i /\ k + i \in 1..Len(s)
    BY <1>1
  <2>2. t[i] = s[(k + 1) + i - 1]
    BY <1>2, <1>3
  <2>. QED
    BY <2>1, <2>2
<1>. QED
  BY <1>2, <1>3, <1>4, <1>5 DEF t

LEMMA SubSeqOnce ==
  ASSUME NEW S, NEW s \in Seq(S), NEW n \in 0..Len(s), Once(s)
  PROVE  /\ Once(SubSeq(s, n + 1, Len(s)))
         /\ ToSet(SubSeq(s, n + 1, Len(s))) \cap {s[i] : i \in 1..n} = {}
<1>. DEFINE t == SubSeq(s, n + 1, Len(s))
<1>1. Len(s) \in Nat /\ DOMAIN s = 1..Len(s)
  BY LenProperties
<1>2. DOMAIN t = 1..(Len(s) - n) /\ \A i \in 1..(Len(s) - n) : t[i] = s[n + i] /\ n + i \in 1..Len(s)
  BY <1>1, SubSeqAt
<1>. HIDE DEF t
<1>3. Once(t)
  <2>1. ASSUME NEW i \in 1..(Len(s) - n), NEW j \in 1..(Len(s) - n), t[i] = t[j] PROVE i = j
    <3>1. n + i = n + j
      BY <1>1, <1>2, <2>1 DEF Once
    <3>. QED
      BY <1>1, <3>1
  <2>. QED
    BY <1>2, <2>1 DEF Once
<1>4. ASSUME NEW i \in 1..(Len(s) - n), NEW j \in 1..n PROVE t[i] # s[j]
  <2>1. j \in 1..Len(s) /\ n + i # j
    BY <1>1
  <2>. QED
    BY <1>1, <1>2, <2>1 DEF Once
<1>. QED
  BY <1>2, <1>3, <1>4 DEF ToSet, t

LEMMA RemoveAtOnce ==
  ASSUME NEW S, NEW s \in Seq(S), NEW n \in DOMAIN s, Once(s)
  PROVE  /\ RemoveAt(s, n) \in Seq(S) /\ Once(RemoveAt(s, n))
         /\ ToSet(RemoveAt(s, n)) = ToSet(s) \ {s[n]}
<1>. DEFINE t == RemoveAt(s, n)
            old(i) == IF i < n THEN i ELSE i + 1
<1>1. Len(s) \in Nat /\ DOMAIN s = 1..Len(s) /\ n \in 1..Len(s)
  BY LenProperties
<1>2. t \in Seq(S) /\ DOMAIN t = 1..(Len(s) - 1) /\ \A i \in 1..(Len(s) - 1) : t[i] = s[old(i)]
  <2>. DEFINE a == SubSeq(s, 1, n - 1)
              b == SubSeq(s, n + 1, Len(s))
  <2>1. a \in Seq(S) /\ Len(a) = n - 1 /\ \A i \in 1..(n - 1) : a[i] = s[i]
    <3>1. /\ a \in Seq(S) /\ Len(a) = (n - 1) - 0
          /\ \A i \in 1..((n - 1) - 0) : a[i] = s[0 + i]
      <4>1. n - 1 \in Nat /\ 0 <= n - 1 /\ n - 1 <= Len(s) /\ 0 + 1 = 1
        BY <1>1
      <4>. QED
        BY <4>1, SubSeqAt
    <3>2. ASSUME NEW i \in 1..(n - 1) PROVE a[i] = s[i]
      <4>1. 0 + i = i /\ i \in 1..((n - 1) - 0)
        BY <1>1
      <4>. QED
        BY <3>1, <4>1
    <3>. QED
      BY <1>1, <3>1, <3>2
  <2>2. b \in Seq(S) /\ Len(b) = Len(s) - n /\ \A i \in 1..(Len(s) - n) : b[i] = s[n + i]
    BY <1>1, SubSeqAt
  <2>3. t = a \o b
    BY DEF RemoveAt
  <2>. HIDE DEF a, b
  <2>4. /\ a \o b \in Seq(S) /\ Len(a \o b) = Len(a) + Len(b)
        /\ \A i \in 1..(Len(a) + Len(b)) : (a \o b)[i] = IF i <= Len(a) THEN a[i] ELSE b[i - Len(a)]
    BY <2>1, <2>2, ConcatProperties
  <2>5. Len(a) + Len(b) = Len(s) - 1 /\ DOMAIN (a \o b) = 1..(Len(s) - 1)
    <3>1. Len(a) + Len(b) = Len(s) - 1
      BY <1>1, <2>1, <2>2
    <3>. QED
      BY <2>4, <3>1, LenProperties
  <2>6. ASSUME NEW i \in 1..(Len(s) - 1) PROVE (a \o b)[i] = s[old(i)]
    <3>1. CASE i < n
      <4>1. i <= Len(a) /\ i \in 1..(n - 1)
        BY <1>1, <2>1, <3>1
      <4>. QED
        BY <2>1, <2>4, <2>5, <3>1, <4>1
    <3>2. CASE ~(i < n)
      <4>1. ~(i <= Len(a)) /\ i - Len(a) \in 1..(Len(s) - n) /\ n + (i - Len(a)) = i + 1
        BY <1>1, <2>1, <3>2
      <4>. QED
        BY <2>2, <2>4, <2>5, <3>2, <4>1
    <3>. QED
      BY <3>1, <3>2
  <2>. QED
    BY <2>3, <2>4, <2>5, <2>6
<1>. HIDE DEF t
<1>3. /\ \A i \in 1..(Len(s) - 1) : old(i) \in 1..Len(s) /\ old(i) # n
      /\ \A i, j \in 1..(Len(s) - 1) : old(i) = old(j) => i = j
      /\ \A k \in 1..Len(s) : k # n => \E i \in 1..(Len(s) - 1) : old(i) = k
  <2>1. \A k \in 1..Len(s) : k < n => k \in 1..(Len(s) - 1) /\ old(k) = k
    BY <1>1
  <2>2. \A k \in 1..Len(s) : k > n => k - 1 \in 1..(Len(s) - 1) /\ old(k - 1) = k
    BY <1>1
  <2>3. \A k \in 1..Len(s) : k # n => \E i \in 1..(Len(s) - 1) : old(i) = k
    BY <1>1, <2>1, <2>2
  <2>. QED
    BY <1>1, <2>3
<1>. HIDE DEF old
<1>4. Once(t)
  BY <1>1, <1>2, <1>3 DEF Once
<1>5. ToSet(t) = ToSet(s) \ {s[n]}
  <2>1. ToSet(t) \subseteq ToSet(s) \ {s[n]}
    BY <1>1, <1>2, <1>3 DEF Once, ToSet
  <2>2. ASSUME NEW k \in 1..Len(s), s[k] # s[n] PROVE s[k] \in ToSet(t)
    <3>1. PICK i \in 1..(Len(s) - 1) : old(i) = k
      BY <1>3, <2>2
    <3>2. t[i] = s[k]
      BY <1>2, <3>1
    <3>. QED
      BY <1>2, <3>2 DEF ToSet
  <2>. QED
    BY <1>1, <2>1, <2>2 DEF ToSet
<1>. QED
  BY <1>2, <1>4, <1>5 DEF t

-----------------------------------------------------------------------------
(* The filter.  It forgets the oldest prompt when it is full, so what it     *)
(* promises it promises while it can hold the prompts there are.             *)

FilterHolds == Cardinality(Msgs) <= FilterCap

(* What is queued or was consumed in this process went through the filter,   *)
(* which still knows it.                                                     *)
FilterInv ==
  /\ Once(seen) /\ Once(queue)
  /\ ToSet(queue) \cup done \subseteq ToSet(seen)
  /\ ToSet(queue) \cap done = {}

(* A filter that does not know a prompt has room for it. *)
LEMMA RoomLeft ==
  ASSUME TypeOK, FilterHolds, Once(seen), NEW m \in Msgs, m \notin ToSet(seen)
  PROVE  Len(seen) # FilterCap
<1>. SUFFICES ASSUME Len(seen) = FilterCap PROVE FALSE
  OBVIOUS
<1>1. /\ IsFiniteSet(Msgs \ {m}) /\ Cardinality(Msgs \ {m}) = Cardinality(Msgs) - 1
      /\ Cardinality(Msgs) \in Nat
  BY MsgsAssumption, FS_RemoveElement, FS_CardinalityType
<1>2. Len(seen) \in Nat /\ DOMAIN seen = 1..Len(seen) /\ seen \in [1..Len(seen) -> Msgs]
  BY LenProperties DEF TypeOK
<1>3. IsFiniteSet(1..Len(seen)) /\ Cardinality(1..Len(seen)) = Len(seen)
  BY <1>2, FS_Interval
<1>4. seen \in [1..Len(seen) -> Msgs \ {m}]
  BY <1>2 DEF ToSet
<1>5. Cardinality(Msgs \ {m}) < Cardinality(1..Len(seen))
  BY <1>1, <1>2, <1>3 DEF FilterHolds
<1>6. \E x, y \in 1..Len(seen) : x # y /\ seen[x] = seen[y]
  BY <1>1, <1>3, <1>4, <1>5, FS_PigeonHole
<1>. QED
  BY <1>2, <1>6 DEF Once

LEMMA AcceptFilters ==
  ASSUME TypeOK, FilterHolds, FilterInv, NEW m \in Msgs, Accept(m), UNCHANGED done
  PROVE  /\ FilterInv' /\ ToSet(seen) \subseteq ToSet(seen')
         /\ \A x \in ToSet(queue') : x \in ToSet(queue) \/ (x = m /\ m \notin ToSet(seen))
<1>1. seen \in Seq(Msgs) /\ queue \in Seq(Msgs)
  BY DEF TypeOK
<1>2. CASE m \notin ToSet(seen)
  <2>1. seen' = Append(seen, m) /\ queue' = Append(queue, m)
    <3>1. \A i \in DOMAIN seen : seen[i] # m
      BY <1>2 DEF ToSet
    <3>2. Len(seen) # FilterCap
      BY <1>2, RoomLeft DEF FilterInv
    <3>. QED
      BY <3>1, <3>2 DEF Accept
  <2>2. ToSet(seen') = ToSet(seen) \cup {m} /\ ToSet(queue') = ToSet(queue) \cup {m}
    BY <1>1, <2>1, AppendElements
  <2>3. Once(seen') /\ Once(queue')
    BY <1>1, <1>2, <2>1, AppendOnce DEF FilterInv
  <2>. QED
    BY <1>2, <2>2, <2>3 DEF FilterInv, Once
<1>3. CASE m \in ToSet(seen)
  <2>1. PICK i \in DOMAIN seen : seen[i] = m /\ seen' = Append(RemoveAt(seen, i), m)
    BY <1>3 DEF Accept
  <2>2. UNCHANGED queue
    BY <1>3 DEF Accept
  <2>3. /\ RemoveAt(seen, i) \in Seq(Msgs) /\ Once(RemoveAt(seen, i))
        /\ ToSet(RemoveAt(seen, i)) = ToSet(seen) \ {m}
    BY <1>1, <2>1, RemoveAtOnce DEF FilterInv
  <2>. DEFINE rest == RemoveAt(seen, i)
  <2>. HIDE DEF rest
  <2>4. /\ rest \in Seq(Msgs) /\ Once(rest) /\ m \notin ToSet(rest) /\ ToSet(rest) \cup {m} = ToSet(seen)
        /\ seen' = Append(rest, m)
    BY <1>3, <2>1, <2>3 DEF rest
  <2>5. ToSet(seen') = ToSet(seen)
    <3>1. ToSet(Append(rest, m)) = ToSet(rest) \cup {m}
      BY <2>4, AppendElements
    <3>. QED
      BY <2>4, <3>1
  <2>6. Once(seen')
    BY <2>4, AppendOnce
  <2>. QED
    BY <2>2, <2>5, <2>6 DEF FilterInv, Once
<1>. QED
  BY <1>2, <1>3

(* A confirmed removal takes the one copy there is. *)
LEMMA CancelRemoves ==
  ASSUME TypeOK, FilterInv, CliCancel
  PROVE  /\ Once(queue') /\ ToSet(queue') \subseteq ToSet(queue) /\ Head(down).m \in Msgs
         /\ \/ Send(CancelAck(Head(down).m, FALSE))
            \/ /\ Send(CancelAck(Head(down).m, TRUE))
               /\ Head(down).m \in ToSet(queue) \ ToSet(queue')
<1>. DEFINE m == Head(down).m
<1>1. m \in Msgs /\ queue \in Seq(Msgs)
  BY ArrivesElements DEF CliCancel, Packet, TypeOK
<1>2. CASE \E i \in DOMAIN queue : queue[i] = m /\ queue' = RemoveAt(queue, i) /\ Send(CancelAck(m, TRUE))
  <2>1. PICK i \in DOMAIN queue : queue[i] = m /\ queue' = RemoveAt(queue, i)
    BY <1>2
  <2>2. Once(queue') /\ ToSet(queue') = ToSet(queue) \ {queue[i]}
    BY <1>1, <2>1, RemoveAtOnce DEF FilterInv
  <2>3. queue[i] \in ToSet(queue)
    BY DEF ToSet
  <2>. QED
    BY <1>1, <1>2, <2>1, <2>2, <2>3
<1>3. CASE UNCHANGED queue /\ Send(CancelAck(m, FALSE))
  BY <1>1, <1>3 DEF FilterInv, Once
<1>. QED
  BY <1>2, <1>3 DEF CliCancel

(* A turn takes its prompts out of the queue. *)
LEMMA TurnTakes ==
  ASSUME TypeOK, FilterInv, AgentTakes
  PROVE  /\ Once(queue') /\ ToSet(queue') \subseteq ToSet(queue)
         /\ done' \subseteq done \cup ToSet(queue) /\ ToSet(queue') \cap done' = {}
<1>1. PICK n \in DOMAIN queue :
        /\ done' = done \cup {queue[i] : i \in 1..n}
        /\ queue' = SubSeq(queue, n + 1, Len(queue))
  BY DEF AgentTakes
<1>2. queue \in Seq(Msgs) /\ Len(queue) \in Nat /\ n \in 1..Len(queue) /\ DOMAIN queue = 1..Len(queue)
  BY LenProperties DEF TypeOK
<1>3. ToSet(queue') \subseteq ToSet(queue)
  BY <1>1, <1>2, SubSeqElements
<1>4. Once(queue') /\ ToSet(queue') \cap {queue[i] : i \in 1..n} = {}
  BY <1>1, <1>2, SubSeqOnce DEF FilterInv
<1>5. {queue[i] : i \in 1..n} \subseteq ToSet(queue)
  BY <1>2 DEF ToSet
<1>. QED
  BY <1>1, <1>3, <1>4, <1>5 DEF FilterInv

LEMMA FilterStep ==
  ASSUME TypeOK, FilterHolds, FilterInv, Next
  PROVE  FilterInv'
<1>. USE DEF hubVars, netVars, cliVars, histVars
<1>1. ToSet(<<>>) = {} /\ Once(<<>>)
  BY EmptySeq DEF ToSet, Once
<1>2. CASE CliNew
  <2>1. Head(down).m \in Msgs
    BY <1>2, ArrivesElements DEF CliNew, Packet
  <2>. QED
    BY <1>2, <2>1, AcceptFilters DEF CliNew
<1>3. CASE BackfillRow
  <2>1. Head(page) \in Msgs
    BY <1>3, TailElements DEF BackfillRow, TypeOK
  <2>. QED
    BY <1>3, <2>1, AcceptFilters DEF BackfillRow
<1>4. CASE CliCancel
  <2>1. UNCHANGED <<seen, done>>
    BY <1>4 DEF CliCancel
  <2>. QED
    BY <1>4, <2>1, CancelRemoves DEF FilterInv, Once
<1>5. CASE AgentTakes
  <2>1. UNCHANGED seen
    BY <1>5 DEF AgentTakes
  <2>2. Once(queue')
    BY <1>5, TurnTakes
  <2>. QED
    BY <1>5, <2>1, <2>2, TurnTakes DEF FilterInv, Once
<1>6. CASE Start
  <2>1. seen' = <<>> /\ queue' = <<>> /\ done' = {}
    BY <1>6 DEF Start
  <2>. QED
    BY <1>1, <2>1 DEF FilterInv, Once
<1>7. CASE AgentAbort \/ Close \/ CliCrash
  <2>1. queue' = <<>> /\ UNCHANGED <<seen, done>>
    BY <1>7 DEF AgentAbort, Close, CliCrash, Gone
  <2>. QED
    BY <1>1, <2>1 DEF FilterInv, Once
<1>8. CASE UNCHANGED <<seen, queue, done>>
  BY <1>8 DEF FilterInv, Once
<1>9. \/ UNCHANGED <<seen, queue, done>> \/ CliNew \/ BackfillRow \/ CliCancel \/ AgentTakes \/ Start
      \/ AgentAbort \/ Close \/ CliCrash
  BY DEF Next, Hub, Cli, Post, Repost, Mature, Tick, HubAlive, HubConsumed, HubEnd, CancelRequest,
         CancelTimeout, HubAck, BackfillServe, HubCrash,
         Connect, KeepAlive, BackfillArrives, BackfillTurn, BackfillFail, Drop, SessionEnds
<1>. QED
  BY <1>2, <1>3, <1>4, <1>5, <1>6, <1>7, <1>8, <1>9

LEMMA FilterInductive ==
  ASSUME FilterHolds
  PROVE  /\ Init => FilterInv
         /\ TypeOK /\ FilterInv /\ [Next]_vars => FilterInv'
<1>1. Init => FilterInv
  <2>1. ToSet(<<>>) = {} /\ Once(<<>>)
    BY EmptySeq DEF ToSet, Once
  <2>. QED
    BY <2>1 DEF Init, FilterInv, Once
<1>2. UNCHANGED vars /\ FilterInv => FilterInv'
  BY DEF vars, cliVars, histVars, FilterInv, Once
<1>. QED
  BY <1>1, <1>2, FilterStep

(* In one CLI process a prompt is queued or consumed at most once, however    *)
(* often the hub emits it.                                                    *)
THEOREM NeverRepeats ==
  ASSUME FilterHolds
  PROVE  Spec => []NoRepeat
<1>1. FilterInv => NoRepeat
  BY DEF FilterInv, NoRepeat, Once
<1>. QED
  BY DeliveryInductive, FilterInductive, TypeCorrect, <1>1, PTL DEF Spec

-----------------------------------------------------------------------------
(* Cancels that stand. *)

Confirmed(m) == row[m] = "deleted" /\ outcome[m] # "offline"

(* A removal that was confirmed is the removal of a prompt that the filter   *)
(* knows; and a prompt whose cancel stands is not queued, and can be queued  *)
(* again neither by what is on its way nor by what the hub sends later.      *)
CancelInv ==
  /\ cli = "off" => ~connected /\ down = <<>> /\ up = <<>>
  /\ \A r \in ToSet(up) : r.t = "ack" /\ r.removed => r.ids \subseteq ToSet(seen) \ ToSet(queue)
  /\ \A m \in Msgs : Confirmed(m) => m \notin ToSet(queue) /\ (m \in ToSet(seen) \/ m \notin Handed)

(* A process that is off has no socket, and nothing is on its way to or from it. *)
LEMMA OffIsSilent ==
  ASSUME CancelInv, Next
  PROVE  cli' = "off" => ~connected' /\ down' = <<>> /\ up' = <<>>
<1>. USE DEF hubVars, netVars, cliVars, histVars
<1>1. CASE Hub /\ cli = "off"
  <2>1. ~connected /\ down = <<>> /\ up = <<>>
    BY <1>1 DEF CancelInv
  <2>2. \A packets : Emit(packets) => down' = <<>>
    BY <2>1 DEF Emit
  <2>3. \A t : ~Receives(t)
    BY <2>1 DEF Receives
  <2>4. \A s : EmitNew(s) => down' = <<>>
    BY <2>2 DEF EmitNew
  <2>5. CASE \E m \in Msgs : Post(m) \/ Repost(m) \/ CancelRequest(m)
    BY <2>1, <2>2, <2>5 DEF Post, Repost, CancelRequest
  <2>6. CASE Tick
    BY <2>1, <2>4, <2>6 DEF Tick
  <2>7. CASE HubCrash
    BY <2>1, <2>7 DEF HubCrash
  <2>8. CASE BackfillServe \/ \E m \in Msgs : CancelTimeout(m) \/ Mature(m)
    BY <2>1, <2>8 DEF BackfillServe, CancelTimeout, Mature
  <2>. QED
    BY <1>1, <2>3, <2>5, <2>6, <2>7, <2>8 DEF Hub, HubAlive, HubConsumed, HubEnd, HubAck
<1>2. CASE Hub /\ cli # "off"
  <2>1. UNCHANGED cli
    BY <1>2 DEF Hub, Post, Repost, Mature, Tick, HubAlive, HubConsumed, HubEnd,
         CancelRequest, CancelTimeout, HubAck, BackfillServe, HubCrash
  <2>. QED
    BY <1>2, <2>1
<1>3. CASE Close \/ CliCrash
  BY <1>3 DEF Close, CliCrash, Gone
<1>4. CASE Cli /\ cli = "off" /\ ~(Close \/ CliCrash)
  <2>1. ~connected /\ down = <<>> /\ up = <<>>
    BY <1>4 DEF CancelInv
  <2>2. \A t : ~Arrives(t)
    BY <2>1 DEF Arrives
  <2>3. CASE BackfillArrives \/ BackfillRow \/ BackfillTurn \/ BackfillFail
    BY <2>1, <2>3 DEF BackfillArrives, BackfillRow, BackfillTurn, BackfillFail
  <2>. QED
    BY <1>4, <2>1, <2>2, <2>3 DEF Cli, Start, Connect, KeepAlive, CliNew, CliCancel, AgentTakes, AgentAbort,
         Drop, SessionEnds
<1>5. CASE Cli /\ cli # "off" /\ ~(Close \/ CliCrash)
  <2>1. cli' # "off"
    BY <1>5 DEF Cli, Start, Connect, KeepAlive, CliNew, CliCancel, AgentTakes, AgentAbort,
         BackfillArrives, BackfillRow, BackfillTurn, BackfillFail, Drop, SessionEnds
  <2>. QED
    BY <2>1
<1>. QED
  BY <1>1, <1>2, <1>3, <1>4, <1>5 DEF Next

(* What is confirmed by a step was confirmed before, or was still scheduled, *)
(* or its removal had been confirmed.                                        *)
LEMMA ConfirmedBy ==
  ASSUME TypeOK, Next, NEW m \in Msgs, Confirmed(m)'
  PROVE  \/ Confirmed(m) \/ Future(m)
         \/ \E r \in ToSet(up) : r.t = "ack" /\ r.removed /\ m \in r.ids
<1>. USE DEF hubVars, netVars, cliVars, histVars
<1>1. row'[m] = "deleted" /\ outcome'[m] # "offline"
  BY DEF Confirmed
<1>2. ASSUME NEW x \in Msgs, Post(x) PROVE Confirmed(m)
  BY <1>1, <1>2 DEF Post, Confirmed, TypeOK
<1>3. ASSUME NEW x \in Msgs, CancelRequest(x) PROVE Confirmed(m) \/ Future(m)
  <2>1. CASE x = m /\ DeleteQueued(x) /\ outcome' = [outcome EXCEPT ![x] = IF Future(x) THEN "future" ELSE "offline"]
    BY <1>1, <2>1 DEF TypeOK
  <2>2. CASE x # m
    BY <1>1, <1>3, <2>2 DEF CancelRequest, DeleteQueued, Confirmed, TypeOK
  <2>3. CASE UNCHANGED row /\ row[x] # "deleted" /\ x = m
    BY <1>1, <2>3
  <2>. QED
    BY <1>3, <2>1, <2>2, <2>3 DEF CancelRequest
<1>4. ASSUME NEW S, NEW who, MarkInvoked(S, who), outcome'[m] = outcome[m] PROVE Confirmed(m)
  BY <1>1, <1>4 DEF MarkInvoked, Confirmed
<1>5. ASSUME NEW x \in Msgs, SettleUnremoved(x) PROVE Confirmed(m)
  BY <1>1, <1>5 DEF SettleUnremoved, MarkInvoked, Queued, Confirmed, TypeOK
<1>6. CASE HubAck
  <2>1. Head(up) \in Reply /\ Head(up) \in ToSet(up) /\ Head(up).t = "ack"
    BY <1>6, ReceivesElements DEF HubAck
  <2>2. PICK x \in Head(up).ids :
          \/ /\ Head(up).removed /\ DeleteQueued(x)
             /\ outcome' = [outcome EXCEPT ![x] = "acked"]
          \/ SettleUnremoved(x)
          \/ UNCHANGED <<row, outcome>>
    BY <1>6 DEF HubAck
  <2>3. x \in Msgs
    BY <2>1, <2>2 DEF Reply
  <2>4. CASE Head(up).removed /\ x = m
    BY <2>1, <2>4
  <2>5. CASE DeleteQueued(x) /\ outcome' = [outcome EXCEPT ![x] = "acked"] /\ x # m
    BY <1>1, <2>5 DEF DeleteQueued, Confirmed, TypeOK
  <2>6. CASE UNCHANGED <<row, outcome>>
    BY <1>1, <2>6 DEF Confirmed
  <2>. QED
    BY <1>5, <2>2, <2>3, <2>4, <2>5, <2>6
<1>7. CASE HubConsumed \/ HubEnd
  BY <1>4, <1>7 DEF HubConsumed, HubEnd
<1>8. CASE UNCHANGED <<row, outcome>>
  BY <1>1, <1>8 DEF Confirmed
<1>9. \/ UNCHANGED <<row, outcome>> \/ HubAck \/ HubConsumed \/ HubEnd
      \/ \E x \in Msgs : Post(x) \/ CancelRequest(x) \/ SettleUnremoved(x)
  BY DEF Next, Hub, Cli, Repost, Mature, Tick, HubAlive, BackfillServe, HubCrash, CancelTimeout,
         Start, Connect, KeepAlive, CliNew, CliCancel, AgentTakes, AgentAbort, BackfillArrives,
         BackfillRow, BackfillTurn, BackfillFail, Drop, SessionEnds, Close, CliCrash, Gone
<1>. QED
  BY <1>2, <1>3, <1>5, <1>6, <1>7, <1>8, <1>9

(* Only a CLI that took a prompt out of its queue confirms a removal. *)
LEMMA NewAcks ==
  ASSUME TypeOK, FilterInv, Next
  PROVE  \A r \in ToSet(up') : r.t = "ack" /\ r.removed =>
           r \in ToSet(up) \/ r.ids \subseteq ToSet(seen) \ ToSet(queue')
<1>. USE DEF hubVars, netVars, cliVars, histVars
<1>. DEFINE Good(r) == r.t = "ack" /\ r.removed => r \in ToSet(up) \/ r.ids \subseteq ToSet(seen) \ ToSet(queue')
<1>. SUFFICES \A r \in ToSet(up') : Good(r)
  OBVIOUS
<1>. HIDE DEF Good
<1>1. ASSUME NEW r \in Reply, Send(r), Good(r) PROVE \A x \in ToSet(up') : Good(x)
  <2>1. ToSet(up') = ToSet(up) \cup {r}
    BY <1>1, SendElements
  <2>. QED
    BY <1>1, <2>1 DEF Good
<1>2. CASE Connect \/ KeepAlive
  <2>1. Send(Alive) /\ Alive \in Reply /\ Good(Alive)
    BY <1>2, RepliesAreReplies DEF Connect, KeepAlive, Alive, Good
  <2>. QED
    BY <1>1, <2>1
<1>3. CASE SessionEnds
  <2>1. Send(End) /\ End \in Reply /\ Good(End)
    BY <1>3, RepliesAreReplies DEF SessionEnds, End, Good
  <2>. QED
    BY <1>1, <2>1
<1>4. CASE CliCancel
  <2>. DEFINE m == Head(down).m
  <2>1. m \in Msgs
    BY <1>4, CancelRemoves
  <2>2. CancelAck(m, FALSE) \in Reply /\ CancelAck(m, TRUE) \in Reply /\ Good(CancelAck(m, FALSE))
    BY <2>1, RepliesAreReplies DEF CancelAck, Good
  <2>3. m \in ToSet(queue) \ ToSet(queue') => Good(CancelAck(m, TRUE))
    BY DEF FilterInv, CancelAck, Good
  <2>4. \/ Send(CancelAck(m, FALSE))
        \/ Send(CancelAck(m, TRUE)) /\ m \in ToSet(queue) \ ToSet(queue')
    BY <1>4, CancelRemoves
  <2>. HIDE DEF m
  <2>. QED
    BY <1>1, <2>2, <2>3, <2>4
<1>5. CASE AgentTakes
  <2>1. PICK n \in DOMAIN queue : Send(Consumed({queue[i] : i \in 1..n}))
    BY <1>5 DEF AgentTakes
  <2>. DEFINE batch == {queue[i] : i \in 1..n}
  <2>2. batch \in SUBSET Msgs
    BY LenProperties, ElementOfSeq DEF TypeOK
  <2>3. Send(Consumed(batch))
    BY <2>1
  <2>. HIDE DEF batch
  <2>4. Consumed(batch) \in Reply /\ Good(Consumed(batch))
    BY <2>2, RepliesAreReplies DEF Consumed, Good
  <2>. QED
    BY <1>1, <2>3, <2>4
<1>6. CASE Hub
  BY <1>6, HubRan DEF Good
<1>7. CASE Drop \/ Close \/ CliCrash
  <2>1. ToSet(up') = {}
    BY <1>7, EmptySeq DEF Drop, Close, CliCrash, Gone, ToSet
  <2>. QED
    BY <2>1
<1>8. CASE UNCHANGED up
  BY <1>8 DEF Good
<1>9. Hub \/ UNCHANGED up \/ Connect \/ KeepAlive \/ SessionEnds \/ CliCancel \/ AgentTakes \/ Drop \/ Close \/ CliCrash
  BY DEF Next, Cli, Start, CliNew, AgentAbort, BackfillArrives, BackfillRow, BackfillTurn, BackfillFail
<1>. QED
  BY <1>2, <1>3, <1>4, <1>5, <1>6, <1>7, <1>8, <1>9

(* A process forgets nothing of its filter, and queues only what arrives and *)
(* the filter does not know.                                                 *)
LEMMA FilterRemembers ==
  ASSUME TypeOK, FilterHolds, FilterInv, Next, ~Start
  PROVE  /\ ToSet(seen) \subseteq ToSet(seen')
         /\ \A x \in ToSet(queue') : x \in ToSet(queue) \/ (x \in Handed /\ x \notin ToSet(seen))
<1>. USE DEF hubVars, netVars, cliVars, histVars
<1>1. CASE CliNew
  <2>1. Head(down).m \in Msgs /\ Head(down).m \in Handed
    BY <1>1, ArrivesElements, HandedElements DEF CliNew, Packet
  <2>. QED
    BY <1>1, <2>1, AcceptFilters DEF CliNew
<1>2. CASE BackfillRow
  <2>1. Head(page) \in Msgs /\ Head(page) \in Handed
    BY <1>2, TailElements DEF BackfillRow, TypeOK, Handed
  <2>. QED
    BY <1>2, <2>1, AcceptFilters DEF BackfillRow
<1>3. CASE CliCancel
  BY <1>3, CancelRemoves DEF CliCancel
<1>4. CASE AgentTakes
  BY <1>4, TurnTakes DEF AgentTakes
<1>5. CASE AgentAbort \/ Close \/ CliCrash
  <2>1. ToSet(queue') = {} /\ UNCHANGED seen
    BY <1>5, EmptySeq DEF AgentAbort, Close, CliCrash, Gone, ToSet
  <2>. QED
    BY <2>1
<1>6. CASE UNCHANGED <<seen, queue>>
  BY <1>6
<1>7. UNCHANGED <<seen, queue>> \/ CliNew \/ BackfillRow \/ CliCancel \/ AgentTakes \/ AgentAbort \/ Close \/ CliCrash
  BY DEF Next, Hub, Cli, Post, Repost, Mature, Tick, HubAlive, HubConsumed, HubEnd, CancelRequest,
         CancelTimeout, HubAck, BackfillServe, HubCrash,
         Connect, KeepAlive, BackfillArrives, BackfillTurn, BackfillFail, Drop, SessionEnds
<1>. QED
  BY <1>1, <1>2, <1>3, <1>4, <1>5, <1>6, <1>7

LEMMA CancelStep ==
  ASSUME DeliveryInv, FilterHolds, FilterInv, CancelInv, Next
  PROVE  CancelInv'
<1>. USE DEF hubVars, netVars, cliVars, histVars
<1>1. TypeOK
  BY DEF DeliveryInv
<1>2. cli' = "off" => ~connected' /\ down' = <<>> /\ up' = <<>>
  BY OffIsSilent
<1>3. CASE Start
  <2>1. up' = <<>> /\ down' = <<>> /\ queue' = <<>> /\ page' = <<>>
    BY <1>3 DEF Start, CancelInv
  <2>2. ToSet(up') = {} /\ ToSet(queue') = {} /\ Handed' = {}
    BY <2>1, EmptySeq DEF ToSet, Handed
  <2>. QED
    BY <1>2, <2>2 DEF CancelInv
<1>4. CASE ~Start
  <2>1. /\ ToSet(seen) \subseteq ToSet(seen')
        /\ \A x \in ToSet(queue') : x \in ToSet(queue) \/ (x \in Handed /\ x \notin ToSet(seen))
    BY <1>1, <1>4, FilterRemembers
  <2>2. ASSUME NEW r \in ToSet(up'), r.t = "ack", r.removed PROVE r.ids \subseteq ToSet(seen') \ ToSet(queue')
    <3>1. r \in ToSet(up) \/ r.ids \subseteq ToSet(seen) \ ToSet(queue')
      BY <1>1, <2>2, NewAcks
    <3>2. r \in ToSet(up) => r.ids \subseteq ToSet(seen) \ ToSet(queue)
      BY <2>2 DEF CancelInv
    <3>. QED
      BY <2>1, <3>1, <3>2
  <2>3. ASSUME NEW m \in Msgs, Confirmed(m)'
        PROVE  m \notin ToSet(queue') /\ (m \in ToSet(seen') \/ m \notin Handed')
    <3>1. Handed' \subseteq Handed \cup Ready'
      BY <1>1, HubHands, CliHands DEF Next
    <3>2. m \notin Ready'
      BY <2>3 DEF Confirmed, Ready
    <3>3. m \notin ToSet(queue) /\ (m \in ToSet(seen) \/ m \notin Handed)
      <4>1. CASE Confirmed(m)
        BY <4>1 DEF CancelInv
      <4>2. CASE Future(m)
        BY <4>2 DEF DeliveryInv, NothingEarly, Handed
      <4>3. CASE \E r \in ToSet(up) : r.t = "ack" /\ r.removed /\ m \in r.ids
        BY <4>3 DEF CancelInv
      <4>. QED
        BY <1>1, <2>3, <4>1, <4>2, <4>3, ConfirmedBy
    <3>. QED
      BY <2>1, <3>1, <3>2, <3>3
  <2>. QED
    BY <1>2, <2>2, <2>3 DEF CancelInv
<1>. QED
  BY <1>3, <1>4

LEMMA CancelInductive ==
  ASSUME FilterHolds
  PROVE  /\ Init => CancelInv
         /\ DeliveryInv /\ FilterInv /\ CancelInv /\ [Next]_vars => CancelInv'
<1>1. Init => CancelInv
  <2>1. ToSet(<<>>) = {}
    BY EmptySeq DEF ToSet
  <2>. QED
    BY <2>1 DEF Init, CancelInv, Confirmed
<1>2. UNCHANGED vars /\ CancelInv => CancelInv'
  BY DEF vars, hubVars, netVars, cliVars, histVars, CancelInv, Confirmed, Handed
<1>. QED
  BY <1>1, <1>2, CancelStep

(* A cancel that deleted the row because the CLI confirmed the removal, or      *)
(* because the prompt was still scheduled, keeps it away from the agent, in     *)
(* that CLI process and in every later one: an older copy of it that is still   *)
(* on its way meets a filter that knows it, or never reaches a process.         *)
THEOREM CancelsStand ==
  ASSUME FilterHolds
  PROVE  Spec => ConfirmedCancelStands
<1>1. DeliveryInv /\ FilterInv /\ CancelInv /\ Next =>
        \A m \in Msgs : Confirmed(m) => (m \in done' => m \in done)
  <2>. SUFFICES ASSUME DeliveryInv, FilterInv, CancelInv, Next, NEW m \in Msgs, Confirmed(m), m \in done'
                PROVE  m \in done
    OBVIOUS
  <2>. USE DEF hubVars, netVars, cliVars, histVars
  <2>1. m \notin ToSet(queue)
    BY DEF CancelInv
  <2>2. CASE AgentTakes
    BY <2>1, <2>2, TurnTakes DEF DeliveryInv
  <2>3. CASE Start
    BY <2>3 DEF Start
  <2>4. UNCHANGED done \/ AgentTakes \/ Start
    BY DEF Next, Hub, Cli, Post, Repost, Mature, Tick, HubAlive, HubConsumed, HubEnd, CancelRequest,
           CancelTimeout, HubAck, BackfillServe, HubCrash, Connect, KeepAlive, CliNew, CliCancel, AgentAbort,
           BackfillArrives, BackfillRow, BackfillTurn, BackfillFail, Drop, SessionEnds, Close, CliCrash, Gone
  <2>. QED
    BY <2>2, <2>3, <2>4
<1>2. DeliveryInv /\ FilterInv /\ CancelInv /\ [Next]_vars =>
        [\A m \in Msgs : row[m] = "deleted" /\ outcome[m] # "offline" => (m \in done' => m \in done)]_vars
  BY <1>1 DEF Confirmed
<1>3. DeliveryInv => TypeOK
  BY DEF DeliveryInv
<1>. QED
  BY DeliveryInductive, FilterInductive, CancelInductive, <1>2, <1>3, PTL DEF Spec, ConfirmedCancelStands
=============================================================================
