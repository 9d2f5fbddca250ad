------------------------- MODULE VersionedFieldProofs -------------------------
(***************************************************************************)
(* Proofs about VersionedField, for every set of clients and of updates,   *)
(* with or without the lock, and for every budget of faults.               *)
(***************************************************************************)
EXTENDS VersionedField, SequenceTheorems, FiniteSetTheorems, TLAPS

-----------------------------------------------------------------------------
(* The elements of a queue or channel after the operations on it. *)

LEMMA AppendElements ==
  ASSUME NEW S, NEW s \in Seq(S), NEW e \in S
  PROVE  /\ Append(s, e) \in Seq(S)
         /\ ToSet(Append(s, e)) = ToSet(s) \cup {e}
<1>1. Append(s, e) = s \o <<e>> /\ Append(s, e) \in Seq(S) /\ <<e>> \in Seq(S)
  BY AppendIsConcat, AppendProperties
<1>2. Range(<<e>>) = {e}
  BY DEF Range
<1>. QED
  BY <1>1, <1>2, RangeConcatenation DEF ToSet, Range

LEMMA LastOfAppend ==
  ASSUME NEW S, NEW s \in Seq(S), NEW e \in S
  PROVE  e \in ToSet(Append(s, e)) /\ Append(s, e) # <<>> /\ Last(Append(s, e)) = e
<1>1. /\ Len(Append(s, e)) = Len(s) + 1 /\ Append(s, e)[Len(s) + 1] = e
      /\ Append(s, e) \in Seq(S) /\ Len(s) \in Nat
  BY AppendProperties, LenProperties
<1>2. Append(s, e) # <<>>
  BY <1>1, EmptySeq
<1>. QED
  BY <1>1, <1>2, AppendElements DEF Last

LEMMA TailElements ==
  ASSUME NEW S, NEW s \in Seq(S), s # <<>>
  PROVE  /\ Head(s) \in S /\ Head(s) \in ToSet(s)
         /\ Tail(s) \in Seq(S)
         /\ ToSet(Tail(s)) \subseteq ToSet(s)
<1>1. /\ DOMAIN s = 1..Len(s) /\ Len(s) \in Nat \ {0} /\ Head(s) = s[1] /\ Head(s) \in S
      /\ Tail(s) \in Seq(S) /\ DOMAIN Tail(s) = 1..Len(Tail(s)) /\ Len(Tail(s)) = Len(s) - 1
      /\ \A i \in 1..Len(Tail(s)) : Tail(s)[i] = s[i + 1]
  BY HeadTailProperties, LenProperties, EmptySeq
<1>2. 1 \in 1..Len(s) /\ \A i \in 1..Len(Tail(s)) : i + 1 \in 1..Len(s)
  BY <1>1
<1>. QED
  BY <1>1, <1>2 DEF ToSet

-----------------------------------------------------------------------------
(* The inductive argument.  Whatever names the row's current version - a     *)
(* client's copy, the base of a request, the copy an answer carries - was    *)
(* computed from the row's current value, unless that is one which no client *)
(* can read; so the one comparison of versions that lets a value in lets in  *)
(* an extension of the current one, or one that replaces an unreadable one.  *)

Coherent(copy) == /\ copy.version <= row.version
                  /\ copy.version = row.version => copy.value = row.value

RequestsExtend ==
  \A c \in Clients : \A r \in ToSet(up[c]) :
    /\ r.base <= row.version
    /\ r.base = row.version => r.value = Append(row.value, r.job) \/ row.value \in Unreadable
    /\ r.job \in ToSet(r.value) /\ r.value # <<>> /\ Last(r.value) = r.job

AnswersCoherent ==
  \A c \in Clients : \A a \in ToSet(down[c]) :
    Coherent(a.copy) /\ (a.t = "success" => a.job \in Kept)

ColumnInv ==
  TypeOK /\ CurrentCopyIsCurrent /\ RequestsExtend /\ AnswersCoherent /\ NoLostUpdate

LEMMA OwnerType == \A j \in Calls : Owner[j] \in Clients /\ j \in Jobs
BY JobsAssumption DEF Jobs

(* What Return does: its job is done, and no other job becomes done. *)
LEMMA ReturnTypes ==
  ASSUME TypeOK, NEW c \in Clients, NEW j \in Jobs, Return(c, j)
  PROVE  /\ status' \in [Jobs -> Inside \cup {"new", "queued", "done", "lost"}]
         /\ permits' \in [Clients -> Nat] /\ waiters' \in [Clients -> Seq(Calls)]
         /\ \A k \in Jobs : status'[k] = "done" => status[k] = "done" \/ k = j
<1>1. CASE status' = [status EXCEPT ![j] = "done"] /\ UNCHANGED lockVars
  BY <1>1 DEF TypeOK, lockVars
<1>2. CASE /\ waiters[c] # <<>>
           /\ status' = [status EXCEPT ![j] = "done", ![Head(waiters[c])] = "woken"]
           /\ waiters' = [waiters EXCEPT ![c] = Tail(@)]
           /\ UNCHANGED permits
  <2>1. Head(waiters[c]) \in Calls /\ Tail(waiters[c]) \in Seq(Calls)
    BY <1>2, TailElements DEF TypeOK
  <2>. QED
    BY <1>2, <2>1 DEF TypeOK, Inside, Jobs
<1>3. CASE /\ permits' = [permits EXCEPT ![c] = @ + 1]
           /\ status' = [status EXCEPT ![j] = "done"]
           /\ UNCHANGED waiters
  BY <1>3 DEF TypeOK
<1>. QED
  BY <1>1, <1>2, <1>3 DEF Return, Unlock

LEMMA ArrivesElements ==
  ASSUME TypeOK, NEW c \in Clients, NEW types, Arrives(c, types)
  PROVE  /\ down' \in [Clients -> Seq(Answer)]
         /\ \A d \in Clients : ToSet(down'[d]) \subseteq ToSet(down[d])
         /\ Head(down[c]) \in Answer /\ Head(down[c]) \in ToSet(down[c])
         /\ Head(down[c]).t \in types
<1>1. down[c] \in Seq(Answer) /\ down[c] # <<>>
  BY DEF TypeOK, Arrives
<1>. QED
  BY <1>1, TailElements DEF TypeOK, Arrives

(* A client that is handed a coherent copy adopts all of it that it can read. *)
LEMMA AdoptedIsUpToDate ==
  ASSUME TypeOK, CurrentCopyIsCurrent, NEW c \in Clients, NEW copy \in Copy, Coherent(copy), Adopt(c, copy)
  PROVE  view' \in [Clients -> Copy] /\ \A d \in Clients : UpToDate(view'[d])
<1>. DEFINE v == [version |-> copy.version,
                  value |-> IF copy.value \in Unreadable THEN view[c].value ELSE copy.value]
<1>1. view \in [Clients -> Copy] /\ view' = [view EXCEPT ![c] = v]
  BY DEF TypeOK, Adopt
<1>2. v \in Copy
  BY <1>1 DEF Copy
<1>3. UpToDate(v)
  BY DEF Coherent, UpToDate
<1>. QED
  BY <1>1, <1>2, <1>3 DEF CurrentCopyIsCurrent

(* A step that leaves the row alone keeps every copy that was coherent so. *)
LEMMA RowStays ==
  ASSUME ColumnInv, TypeOK', UNCHANGED <<row, overwritten>>,
         \A c \in Clients : UpToDate(view'[c]),
         \A c \in Clients : \A r \in ToSet(up'[c]) :
           \/ r \in ToSet(up[c])
           \/ /\ r.base = view[c].version /\ r.value = Append(view[c].value, r.job)
              /\ r.job \in ToSet(r.value) /\ r.value # <<>> /\ Last(r.value) = r.job,
         \A c \in Clients : \A a \in ToSet(down'[c]) :
           a \in ToSet(down[c]) \/ (a.copy = row /\ a.t # "success"),
         \A u \in Updates : status'[u] = "done" => status[u] = "done" \/ u \in Kept
  PROVE  ColumnInv'
<1>1. row.version \in Nat /\ Kept' = Kept
  BY DEF ColumnInv, TypeOK, Copy, Kept
<1>2. CurrentCopyIsCurrent'
  BY DEF CurrentCopyIsCurrent, UpToDate
<1>3. RequestsExtend'
  BY DEF RequestsExtend, ColumnInv, CurrentCopyIsCurrent, UpToDate
<1>4. AnswersCoherent'
  BY <1>1 DEF AnswersCoherent, ColumnInv, Coherent
<1>5. NoLostUpdate'
  BY <1>1 DEF NoLostUpdate, ColumnInv
<1>. QED
  BY <1>2, <1>3, <1>4, <1>5 DEF ColumnInv

(* A step that stores a value with u in it under the next version, and keeps account *)
(* of what the current one loses.                                                    *)
LEMMA RowGrows ==
  ASSUME ColumnInv, TypeOK', NEW u \in Jobs, NEW v \in Seq(Jobs), u \in ToSet(v),
         row' = [version |-> row.version + 1, value |-> v],
         Kept \subseteq Kept', UNCHANGED view,
         \A c \in Clients : ToSet(up'[c]) \subseteq ToSet(up[c]),
         \A c \in Clients : \A a \in ToSet(down'[c]) :
           a \in ToSet(down[c]) \/ (a.copy = row' /\ a.job = u),
         \A k \in Updates : status'[k] = "done" => status[k] = "done"
  PROVE  ColumnInv'
<1>1. row.version \in Nat /\ row.value \in Seq(Jobs)
  BY DEF ColumnInv, TypeOK, Copy
<1>2. row'.version = row.version + 1 /\ u \in Kept'
  BY <1>1 DEF Kept
<1>3. ASSUME NEW c \in Clients PROVE view[c].version \in Nat
  BY <1>3 DEF ColumnInv, TypeOK, Copy
<1>4. CurrentCopyIsCurrent'
  BY <1>1, <1>2, <1>3 DEF CurrentCopyIsCurrent, ColumnInv, UpToDate
<1>5. RequestsExtend'
  <2>. SUFFICES ASSUME NEW c \in Clients, NEW r \in ToSet(up'[c])
                PROVE  /\ r.base <= row'.version /\ r.base # row'.version
                       /\ r.job \in ToSet(r.value) /\ r.value # <<>> /\ Last(r.value) = r.job
    BY DEF RequestsExtend
  <2>1. r \in ToSet(up[c]) /\ up[c] \in Seq(Request)
    BY DEF ColumnInv, TypeOK
  <2>2. r \in Request
    BY <2>1, ElementOfSeq DEF ToSet
  <2>3. /\ r.base \in Nat /\ r.base <= row.version
        /\ r.job \in ToSet(r.value) /\ r.value # <<>> /\ Last(r.value) = r.job
    BY <2>1, <2>2 DEF ColumnInv, RequestsExtend, Request
  <2>. QED
    BY <1>1, <1>2, <2>3
<1>6. AnswersCoherent'
  <2>1. ASSUME NEW c \in Clients, NEW a \in ToSet(down[c])
        PROVE  /\ a.copy.version \in Nat /\ a.copy.version <= row.version
               /\ a.t = "success" => a.job \in Kept
    <3>1. a \in Answer
      BY <2>1 DEF ColumnInv, TypeOK, ToSet
    <3>. QED
      BY <2>1, <3>1 DEF ColumnInv, AnswersCoherent, Coherent, Answer, Copy
  <2>2. row'.version \in Nat
    BY <1>1, <1>2
  <2>3. ASSUME NEW c \in Clients, NEW a \in ToSet(down'[c])
        PROVE  Coherent(a.copy)' /\ (a.t = "success" => a.job \in Kept')
    <3>1. CASE a \in ToSet(down[c])
      BY <1>1, <1>2, <2>1, <3>1 DEF Coherent
    <3>2. CASE a.copy = row' /\ a.job = u
      BY <1>2, <2>2, <3>2 DEF Coherent
    <3>. QED
      BY <2>3, <3>1, <3>2
  <2>. QED
    BY <2>3 DEF AnswersCoherent
<1>7. NoLostUpdate'
  BY DEF NoLostUpdate, ColumnInv
<1>. QED
  BY <1>4, <1>5, <1>6, <1>7 DEF ColumnInv

-----------------------------------------------------------------------------
(* The steps of the CLI processes. *)

LEMMA CallSteps ==
  ASSUME ColumnInv, NEW j \in Calls, Issue(j) \/ Wake(j) \/ Attempt(j) \/ FlushReturns(j)
  PROVE  ColumnInv' /\ UNCHANGED <<row, overwritten>>
<1>. USE DEF netVars, lockVars
<1>1. TypeOK /\ Owner[j] \in Clients /\ j \in Jobs
  BY OwnerType DEF ColumnInv
<1>2. CASE Issue(j)
  <2>1. /\ status' \in [Jobs -> Inside \cup {"new", "queued", "done", "lost"}]
        /\ permits' \in [Clients -> Nat] /\ waiters' \in [Clients -> Seq(Calls)]
        /\ \A k \in Jobs : status'[k] = "done" => status[k] = "done"
    <3>. DEFINE c == Owner[j]
    <3>1. CASE /\ permits[c] > 0 /\ permits' = [permits EXCEPT ![c] = @ - 1]
               /\ status' = [status EXCEPT ![j] = "ready"] /\ UNCHANGED waiters
      <4>1. permits[c] \in Nat /\ permits[c] - 1 \in Nat
        BY <1>1, <3>1 DEF TypeOK
      <4>2. permits' \in [Clients -> Nat]
        BY <1>1, <3>1, <4>1 DEF TypeOK
      <4>. QED
        BY <1>1, <3>1, <4>2 DEF TypeOK, Inside
    <3>2. CASE /\ waiters' = [waiters EXCEPT ![c] = Append(@, j)]
               /\ status' = [status EXCEPT ![j] = "queued"] /\ UNCHANGED permits
      <4>1. Append(waiters[c], j) \in Seq(Calls)
        BY <1>1, AppendProperties DEF TypeOK
      <4>. QED
        BY <1>1, <3>2, <4>1 DEF TypeOK
    <3>3. CASE status' = [status EXCEPT ![j] = "ready"] /\ UNCHANGED lockVars
      BY <1>1, <3>3 DEF TypeOK, Inside
    <3>. QED
      BY <1>2, <3>1, <3>2, <3>3 DEF Issue, Lock
  <2>2. Append(issued[Owner[j]], j) \in Seq(Calls)
    BY <1>1, AppendProperties DEF TypeOK
  <2>3. TypeOK'
    BY <1>1, <1>2, <2>1, <2>2 DEF Issue, TypeOK
  <2>. QED
    BY <1>2, <2>1, <2>3, RowStays DEF Issue, ColumnInv, CurrentCopyIsCurrent, Jobs, Calls
<1>3. CASE Wake(j)
  <2>1. TypeOK' /\ \A k \in Jobs : status'[k] = "done" => status[k] = "done"
    BY <1>1, <1>3 DEF Wake, TypeOK, Inside
  <2>. QED
    BY <1>3, <2>1, RowStays DEF Wake, ColumnInv, CurrentCopyIsCurrent, Jobs, Calls
<1>4. CASE Attempt(j)
  <2>. DEFINE c == Owner[j]
  <2>. DEFINE r == [job |-> j, base |-> view[c].version, value |-> Append(view[c].value, j)]
  <2>1. view[c] \in Copy /\ up[c] \in Seq(Request)
    BY <1>1 DEF TypeOK
  <2>2. Append(view[c].value, j) \in Seq(Jobs)
    BY <1>1, <2>1, AppendProperties DEF Copy
  <2>3. r \in Request
    BY <1>4, <2>1, <2>2 DEF Attempt, Request, Copy
  <2>. HIDE DEF r
  <2>4. Append(up[c], r) \in Seq(Request) /\ ToSet(Append(up[c], r)) = ToSet(up[c]) \cup {r}
    BY <2>1, <2>3, AppendElements
  <2>5. up' = [up EXCEPT ![c] = Append(up[c], r)]
    BY <1>4 DEF Attempt, r
  <2>6. TypeOK' /\ \A k \in Jobs : status'[k] = "done" => status[k] = "done"
    BY <1>1, <1>4, <2>4, <2>5 DEF Attempt, TypeOK, Inside
  <2>7. \A d \in Clients : \A x \in ToSet(up'[d]) :
          \/ x \in ToSet(up[d])
          \/ /\ x.base = view[d].version /\ x.value = Append(view[d].value, x.job)
             /\ x.job \in ToSet(x.value) /\ x.value # <<>> /\ Last(x.value) = x.job
    <3>1. r.base = view[c].version /\ r.value = Append(view[c].value, r.job)
      BY DEF r
    <3>2. r.job \in ToSet(r.value) /\ r.value # <<>> /\ Last(r.value) = r.job
      BY <1>1, <2>1, <3>1, LastOfAppend DEF r, Copy
    <3>. QED
      BY <1>1, <2>4, <2>5, <3>1, <3>2 DEF TypeOK
  <2>. HIDE DEF c
  <2>. QED
    BY <1>4, <2>6, <2>7, RowStays DEF Attempt, ColumnInv, CurrentCopyIsCurrent, Jobs, Calls
<1>5. CASE FlushReturns(j)
  <2>1. /\ status' \in [Jobs -> Inside \cup {"new", "queued", "done", "lost"}]
        /\ permits' \in [Clients -> Nat] /\ waiters' \in [Clients -> Seq(Calls)]
        /\ \A k \in Jobs : status'[k] = "done" => status[k] = "done" \/ k = j
    BY <1>1, <1>5, ReturnTypes DEF FlushReturns
  <2>2. TypeOK'
    BY <1>1, <1>5, <2>1 DEF FlushReturns, TypeOK
  <2>3. \A u \in Updates : u \in Jobs /\ u # j
    BY <1>5, JobsAssumption DEF FlushReturns, Jobs, Calls
  <2>. QED
    BY <1>5, <2>1, <2>2, <2>3, RowStays DEF FlushReturns, ColumnInv, CurrentCopyIsCurrent
<1>. QED
  BY <1>2, <1>3, <1>4, <1>5 DEF Issue, Wake, Attempt, FlushReturns

LEMMA ClientSteps ==
  ASSUME ColumnInv, NEW c \in Clients,
         CliAck(c) \/ CliPush(c) \/ Connect(c) \/ Drop(c) \/ Restart(c)
  PROVE  ColumnInv' /\ UNCHANGED <<row, overwritten>>
<1>. USE DEF netVars, lockVars
<1>1. TypeOK /\ CurrentCopyIsCurrent /\ row \in Copy
  BY DEF ColumnInv, TypeOK
<1>2. \A u \in Updates : u \in Jobs
  BY DEF Jobs, Calls
<1>3. CASE CliAck(c)
  <2>. DEFINE a == Head(down[c])
  <2>1. /\ down' \in [Clients -> Seq(Answer)]
        /\ \A d \in Clients : ToSet(down'[d]) \subseteq ToSet(down[d])
        /\ a \in Answer /\ a \in ToSet(down[c])
    BY <1>1, <1>3, ArrivesElements DEF CliAck
  <2>2. a.copy \in Copy /\ a.job \in Jobs /\ Coherent(a.copy)
        /\ (a.t = "success" => a.job \in Kept)
    BY <2>1 DEF ColumnInv, AnswersCoherent, Answer
  <2>3. /\ status' \in [Jobs -> Inside \cup {"new", "queued", "done", "lost"}]
        /\ permits' \in [Clients -> Nat] /\ waiters' \in [Clients -> Seq(Calls)]
        /\ \A k \in Jobs : status'[k] = "done" => status[k] = "done" \/ k \in Kept
    <3>1. CASE a.t = "success" /\ Return(c, a.job)
      BY <1>1, <2>2, <3>1, ReturnTypes
    <3>2. CASE status' = [status EXCEPT ![a.job] = "ready"] /\ UNCHANGED lockVars
      BY <1>1, <2>2, <3>2 DEF TypeOK, Inside
    <3>. QED
      BY <1>3, <3>1, <3>2 DEF CliAck
  <2>4. Adopt(c, a.copy) \/ view' = view
    BY <1>3 DEF CliAck
  <2>. HIDE DEF a
  <2>5. view' \in [Clients -> Copy] /\ \A d \in Clients : UpToDate(view'[d])
    BY <1>1, <2>2, <2>4, AdoptedIsUpToDate DEF CurrentCopyIsCurrent, TypeOK
  <2>6. TypeOK'
    BY <1>1, <1>3, <2>1, <2>3, <2>5 DEF CliAck, TypeOK
  <2>. QED
    BY <1>2, <1>3, <2>1, <2>3, <2>5, <2>6, RowStays DEF CliAck
<1>4. CASE CliPush(c)
  <2>. DEFINE a == Head(down[c])
  <2>1. /\ down' \in [Clients -> Seq(Answer)]
        /\ \A d \in Clients : ToSet(down'[d]) \subseteq ToSet(down[d])
        /\ a \in Answer /\ a \in ToSet(down[c])
    BY <1>1, <1>4, ArrivesElements DEF CliPush
  <2>2. a.copy \in Copy /\ Coherent(a.copy)
    BY <2>1 DEF ColumnInv, AnswersCoherent, Answer
  <2>3. Adopt(c, a.copy) \/ view' = view
    BY <1>4 DEF CliPush
  <2>. HIDE DEF a
  <2>4. view' \in [Clients -> Copy] /\ \A d \in Clients : UpToDate(view'[d])
    BY <1>1, <2>2, <2>3, AdoptedIsUpToDate DEF CurrentCopyIsCurrent, TypeOK
  <2>5. TypeOK'
    BY <1>1, <1>4, <2>1, <2>4 DEF CliPush, TypeOK
  <2>. QED
    BY <1>4, <2>1, <2>4, <2>5, RowStays DEF CliPush
<1>5. CASE Connect(c)
  <2>1. TypeOK'
    BY <1>1, <1>5 DEF Connect, TypeOK
  <2>. QED
    BY <1>1, <1>5, <2>1, RowStays DEF Connect, CurrentCopyIsCurrent
<1>6. ASSUME Drop(c) \/ Restart(c)
      PROVE  /\ UNCHANGED <<row, issued, overwritten>>
             /\ connected' \in [Clients -> BOOLEAN] /\ spent' \in [Faults -> Nat]
             /\ up' \in [Clients -> Seq(Request)] /\ down' \in [Clients -> Seq(Answer)]
             /\ \A d \in Clients : ToSet(up'[d]) \subseteq ToSet(up[d])
             /\ \A d \in Clients : ToSet(down'[d]) \subseteq ToSet(down[d])
             /\ \A k \in Jobs : status'[k] = "done" => status[k] = "done"
  <2>1. ToSet(<<>>) = {} /\ <<>> \in Seq(Request) /\ <<>> \in Seq(Answer)
    BY EmptySeq DEF ToSet
  <2>2. up' = [up EXCEPT ![c] = <<>>] /\ down' = [down EXCEPT ![c] = <<>>]
    BY <1>6 DEF Drop, Restart
  <2>3. spent' \in [Faults -> Nat]
    <3>1. Spend("drop") \/ Spend("restart")
      BY <1>6 DEF Drop, Restart
    <3>. QED
      BY <1>1, <3>1 DEF Spend, TypeOK, Faults
  <2>4. \A k \in Jobs : status'[k] = "done" => status[k] = "done"
    BY <1>6 DEF Drop, Restart
  <2>5. connected' \in [Clients -> BOOLEAN] /\ UNCHANGED <<row, issued, overwritten>>
    BY <1>1, <1>6 DEF Drop, Restart, TypeOK
  <2>. QED
    BY <1>1, <2>1, <2>2, <2>3, <2>4, <2>5 DEF TypeOK
<1>7. CASE Drop(c)
  <2>1. status' \in [Jobs -> Inside \cup {"new", "queued", "done", "lost"}]
    BY <1>1, <1>7 DEF Drop, TypeOK, Inside
  <2>2. TypeOK'
    BY <1>1, <1>6, <1>7, <2>1 DEF Drop, TypeOK
  <2>. QED
    BY <1>1, <1>2, <1>6, <1>7, <2>2, RowStays DEF Drop, CurrentCopyIsCurrent
<1>8. CASE Restart(c)
  <2>1. status' \in [Jobs -> Inside \cup {"new", "queued", "done", "lost"}]
    BY <1>1, <1>8 DEF Restart, TypeOK, Inside
  <2>2. view' \in [Clients -> Copy] /\ \A d \in Clients : UpToDate(view'[d])
    <3>. DEFINE v == [version |-> row.version, value |-> IF row.value \in Unreadable THEN <<>> ELSE row.value]
    <3>1. view' = [view EXCEPT ![c] = v]
      BY <1>8 DEF Restart
    <3>2. v \in Copy /\ UpToDate(v)
      BY <1>1, EmptySeq DEF UpToDate, Copy
    <3>. QED
      BY <1>1, <3>1, <3>2 DEF TypeOK, CurrentCopyIsCurrent
  <2>3. permits' \in [Clients -> Nat] /\ waiters' \in [Clients -> Seq(Calls)]
    BY <1>1, <1>8, EmptySeq DEF Restart, TypeOK
  <2>4. TypeOK'
    BY <1>1, <1>6, <1>8, <2>1, <2>2, <2>3 DEF TypeOK
  <2>. QED
    BY <1>2, <1>6, <1>8, <2>2, <2>4, RowStays
<1>. QED
  BY <1>3, <1>4, <1>5, <1>6, <1>7, <1>8 DEF CliAck, CliPush, Connect

-----------------------------------------------------------------------------
(* The steps of the hub. *)

Grows(u) == \/ row'.value = Append(row.value, u)
            \/ /\ row.value \in Unreadable
               /\ row'.value \in Seq(Jobs) /\ row'.value # <<>> /\ Last(row'.value) = u

LEMMA HubUpdateStep ==
  ASSUME ColumnInv, NEW c \in Clients, HubUpdate(c)
  PROVE  /\ ColumnInv'
         /\ UNCHANGED row \/ \E u \in Jobs : Grows(u)
<1>. USE DEF netVars, lockVars
<1>. DEFINE r == Head(up[c])
<1>1. TypeOK /\ row \in Copy /\ up[c] \in Seq(Request) /\ up[c] # <<>>
  BY DEF ColumnInv, TypeOK, HubUpdate
<1>2. /\ r \in Request /\ r \in ToSet(up[c]) /\ Tail(up[c]) \in Seq(Request)
      /\ ToSet(Tail(up[c])) \subseteq ToSet(up[c])
  BY <1>1, TailElements
<1>3. up' = [up EXCEPT ![c] = Tail(up[c])]
  BY DEF HubUpdate
<1>4. /\ up' \in [Clients -> Seq(Request)]
      /\ \A d \in Clients : ToSet(up'[d]) \subseteq ToSet(up[d])
  BY <1>1, <1>2, <1>3 DEF TypeOK
<1>5. r.job \in Jobs /\ r.value \in Seq(Jobs)
  BY <1>2 DEF Request, Jobs, Calls
<1>6. CASE r.base = row.version /\ Store(r.value) /\ Tramples(r.value)
           /\ Answers(c, r.job, [version |-> row.version + 1, value |-> r.value]) /\ UNCHANGED spent
  <2>1. /\ r.value = Append(row.value, r.job) \/ row.value \in Unreadable
        /\ r.job \in ToSet(r.value) /\ r.value # <<>> /\ Last(r.value) = r.job
    BY <1>2, <1>6 DEF ColumnInv, RequestsExtend
  <2>2. row' = [version |-> row.version + 1, value |-> r.value]
    BY <1>6 DEF Store
  <2>3. Kept \subseteq Kept' /\ overwritten' \subseteq Jobs
    <3>1. row.value \in Seq(Jobs) /\ ToSet(row.value) \subseteq Jobs /\ overwritten \subseteq Jobs
      BY <1>1, ElementOfSeq DEF Copy, ToSet, TypeOK
    <3>2. CASE row.value \in Unreadable
      <4>1. overwritten' = overwritten \cup (ToSet(row.value) \ ToSet(r.value)) /\ row'.value = r.value
        BY <1>6, <2>2, <3>2 DEF Tramples
      <4>. HIDE DEF r
      <4>. QED
        BY <3>1, <4>1 DEF Kept
    <3>3. CASE row.value \notin Unreadable
      <4>1. ToSet(row'.value) = ToSet(row.value) \cup {r.job}
        <5>1. row'.value = Append(row.value, r.job)
          BY <2>1, <2>2, <3>3
        <5>. HIDE DEF r
        <5>. QED
          BY <1>5, <3>1, <5>1, AppendElements
      <4>. QED
        BY <1>6, <3>1, <3>3, <4>1 DEF Tramples, Kept
    <3>. QED
      BY <3>2, <3>3
  <2>4. row' \in Copy
    BY <1>1, <1>5, <1>6 DEF Store, Copy
  <2>5. ASSUME NEW d \in Clients, NEW t \in {"success", "push"}
        PROVE  LET x == [t |-> t, job |-> r.job, copy |-> row'] IN
               /\ Append(down[d], x) \in Seq(Answer)
               /\ ToSet(Append(down[d], x)) = ToSet(down[d]) \cup {x}
    <3>1. [t |-> t, job |-> r.job, copy |-> row'] \in Answer
      BY <1>5, <2>4, <2>5 DEF Answer
    <3>2. down[d] \in Seq(Answer)
      BY <1>1 DEF TypeOK
    <3>. QED
      BY <3>1, <3>2, AppendElements
  <2>6. down' = [d \in Clients |->
                   IF d = c THEN Append(down[d], [t |-> "success", job |-> r.job, copy |-> row'])
                   ELSE IF connected[d] THEN Append(down[d], [t |-> "push", job |-> r.job, copy |-> row'])
                   ELSE down[d]]
    BY <1>6 DEF Answers, Store
  <2>7. down' \in [Clients -> Seq(Answer)]
    BY <1>1, <2>5, <2>6 DEF TypeOK
  <2>8. \A d \in Clients : \A a \in ToSet(down'[d]) :
          a \in ToSet(down[d]) \/ (a.copy = row' /\ a.job = r.job)
    BY <2>5, <2>6
  <2>9. TypeOK'
    BY <1>1, <1>4, <1>6, <2>4, <2>7, <2>3 DEF HubUpdate, TypeOK
  <2>10. ColumnInv'
    BY <1>4, <1>5, <2>1, <2>2, <2>3, <2>8, <2>9, RowGrows DEF HubUpdate
  <2>. QED
    BY <1>5, <2>1, <2>2, <2>10 DEF Grows
<1>7. ASSUME NEW t \in {"mismatch", "error"}, Refuses(c, r.job, t), UNCHANGED <<row, overwritten>>,
             spent' \in [Faults -> Nat]
      PROVE  ColumnInv'
  <2>. DEFINE x == [t |-> t, job |-> r.job, copy |-> row]
  <2>1. x \in Answer /\ down[c] \in Seq(Answer)
    BY <1>1, <1>5, <1>7 DEF Answer, TypeOK
  <2>2. Append(down[c], x) \in Seq(Answer) /\ ToSet(Append(down[c], x)) = ToSet(down[c]) \cup {x}
    BY <2>1, AppendElements
  <2>4. down' = [down EXCEPT ![c] = Append(down[c], x)]
    BY <1>7 DEF Refuses
  <2>5. down' \in [Clients -> Seq(Answer)]
    BY <1>1, <2>2, <2>4 DEF TypeOK
  <2>6. \A d \in Clients : \A a \in ToSet(down'[d]) :
          a \in ToSet(down[d]) \/ (a.copy = row /\ a.t # "success")
    BY <1>1, <1>7, <2>2, <2>4 DEF TypeOK
  <2>7. TypeOK'
    BY <1>1, <1>4, <1>7, <2>5 DEF HubUpdate, TypeOK
  <2>. QED
    BY <1>4, <1>7, <2>6, <2>7, RowStays DEF HubUpdate, ColumnInv, CurrentCopyIsCurrent
<1>8. CASE Refuses(c, r.job, "mismatch") /\ UNCHANGED <<row, overwritten, spent>>
  <2>1. spent' \in [Faults -> Nat]
    BY <1>1, <1>8 DEF TypeOK
  <2>. QED
    BY <1>7, <1>8, <2>1
<1>9. CASE Spend("error") /\ Refuses(c, r.job, "error") /\ UNCHANGED <<row, overwritten>>
  <2>1. spent' \in [Faults -> Nat]
    BY <1>1, <1>9 DEF TypeOK, Spend, Faults
  <2>. QED
    BY <1>7, <1>9, <2>1
<1>. QED
  BY <1>6, <1>8, <1>9 DEF HubUpdate

LEMMA HubWriteStep ==
  ASSUME ColumnInv, NEW h \in HubUpdates, HubWrite(h)
  PROVE  ColumnInv' /\ \E u \in Jobs : Grows(u)
<1>. USE DEF netVars, lockVars
<1>1. h \in Jobs /\ \A u \in Updates : u \in Jobs /\ u # h
  BY JobsAssumption DEF Jobs, Calls
<1>2. row' = [version |-> row.version + 1, value |-> Append(row.value, h)]
  BY DEF HubWrite, Store
<1>3. TypeOK /\ row \in Copy
  BY DEF ColumnInv, TypeOK
<1>4. /\ Append(row.value, h) \in Seq(Jobs)
      /\ ToSet(Append(row.value, h)) = ToSet(row.value) \cup {h}
  BY <1>1, <1>3, AppendElements DEF Copy
<1>5. Kept \subseteq Kept' /\ h \in ToSet(Append(row.value, h))
  BY <1>2, <1>4 DEF Kept, HubWrite
<1>6. TypeOK'
  BY <1>1, <1>2, <1>3, <1>4 DEF HubWrite, TypeOK, Copy
<1>7. \A u \in Updates : status'[u] = "done" => status[u] = "done"
  BY <1>1, <1>3 DEF HubWrite, TypeOK
<1>8. ColumnInv'
  BY <1>1, <1>2, <1>4, <1>5, <1>6, <1>7, RowGrows DEF HubWrite
<1>. QED
  BY <1>1, <1>2, <1>8 DEF Grows

-----------------------------------------------------------------------------
LEMMA ColumnInit == Init => ColumnInv
<1>. SUFFICES ASSUME Init PROVE ColumnInv
  OBVIOUS
<1>1. \A S : <<>> \in Seq(S)
  BY EmptySeq
<1>2. Fresh \in Copy
  BY <1>1 DEF Fresh, Copy
<1>3. TypeOK
  BY <1>1, <1>2 DEF Init, TypeOK
<1>4. UpToDate(Fresh)
  BY <1>2 DEF Init, UpToDate, Copy
<1>5. ToSet(<<>>) = {}
  BY EmptySeq DEF ToSet
<1>6. \A u \in Updates : status[u] # "done"
  BY DEF Init, Jobs, Calls
<1>. QED
  BY <1>3, <1>4, <1>5, <1>6
  DEF Init, ColumnInv, CurrentCopyIsCurrent, RequestsExtend, AnswersCoherent, NoLostUpdate

LEMMA ColumnNext ==
  ASSUME ColumnInv, [Next]_vars
  PROVE  ColumnInv' /\ (UNCHANGED row \/ \E u \in Jobs : Grows(u))
<1>1. CASE Next
  BY <1>1, CallSteps, ClientSteps, HubUpdateStep, HubWriteStep DEF Next
<1>2. CASE UNCHANGED vars
  <2>. USE <1>2 DEF vars, netVars, lockVars, ColumnInv
  <2>1. TypeOK'
    BY DEF TypeOK
  <2>2. CurrentCopyIsCurrent' /\ RequestsExtend' /\ AnswersCoherent' /\ NoLostUpdate'
    BY DEF CurrentCopyIsCurrent, RequestsExtend, AnswersCoherent, NoLostUpdate, Coherent, UpToDate, Kept
  <2>. QED
    BY <2>1, <2>2
<1>. QED
  BY <1>1, <1>2

(* Every variable keeps its type. *)
THEOREM ColumnTypes == Spec => []TypeOK
<1>1. ColumnInv => TypeOK
  BY DEF ColumnInv
<1>. QED
  BY ColumnInit, ColumnNext, <1>1, PTL DEF Spec

(* A change whose updateMetadata (or its like) has returned is in the row and *)
(* stays there, or went with a value its writer could not read: for every     *)
(* number of writers, retries and faults and whatever the schema refuses.     *)
THEOREM NothingIsLost == Spec => []NoLostUpdate
<1>1. ColumnInv => NoLostUpdate
  BY DEF ColumnInv
<1>. QED
  BY ColumnInit, ColumnNext, <1>1, PTL DEF Spec

(* A copy that carries the row's version carries the row's value, unless that *)
(* is one which does not parse: comparing the version is enough for           *)
(* updateVersionedField, but for values a client's schema refuses.            *)
THEOREM VersionsAreEnough == Spec => []CurrentCopyIsCurrent
<1>1. ColumnInv => CurrentCopyIsCurrent
  BY DEF ColumnInv
<1>. QED
  BY ColumnInit, ColumnNext, <1>1, PTL DEF Spec

(* The column is a log of updates that only grows, as long as it can be read. *)
THEOREM ColumnImplementsLog == Spec => ColumnIsLog
<1>1. Init => Column!Init
  BY DEF Init, Fresh, Column!Init
<1>2. ColumnInv /\ [Next]_vars => [Column!Next]_(row.value)
  BY ColumnNext DEF Column!Next, Column!Apply, Column!Replace, Column!Last, Last, Grows
<1>. QED
  BY ColumnInit, ColumnNext, <1>1, <1>2, PTL DEF Spec, ColumnIsLog, Column!Spec

-----------------------------------------------------------------------------
(* The order of a session's updates.  A call is issued once; the calls of a   *)
(* process that are under the lock or wait for it are the last ones issued;   *)
(* everything before a call that got the lock is settled; and a request or an *)
(* answer in transit is that of the one call that runs.  So an update that    *)
(* the hub stores has none issued before it still to come.                    *)

Precedes(s, k, j) == \E p, q \in DOMAIN s : p < q /\ s[p] = k /\ s[q] = j

Running(c) == {j \in Of(c) : status[j] \in Inside}

IssuedOwn(c) == ToSet(issued[c]) = {j \in Of(c) : status[j] # "new"}

LockHeld(c) ==
  \/ permits[c] = 1 /\ waiters[c] = <<>> /\ Running(c) = {}
  \/ permits[c] = 0 /\ \E j \in Of(c) : Running(c) = {j}

QueuedWait(c) == ToSet(waiters[c]) = {j \in Of(c) : status[j] = "queued"}

WaitersInOrder(c) ==
  \A p, q \in DOMAIN waiters[c] : p < q => Precedes(issued[c], waiters[c][p], waiters[c][q])

EarlierSettled(c) ==
  \A k, j \in Of(c) :
    Precedes(issued[c], k, j) /\ status[j] # "queued" => status[k] \in {"done", "lost"}

Line(c) == /\ IsInjective(issued[c]) /\ IssuedOwn(c) /\ LockHeld(c)
           /\ QueuedWait(c) /\ WaitersInOrder(c) /\ EarlierSettled(c)

Acks(c) == {p \in DOMAIN down[c] : down[c][p].t # "push"}

Asked(c, j) == j \in Of(c) /\ status[j] = "asked"

OneRequest(c) ==
  /\ Len(up[c]) <= 1
  /\ up[c] # <<>> => Acks(c) = {} /\ Asked(c, Head(up[c]).job)
  /\ \A p \in Acks(c) : Asked(c, down[c][p].job) /\ \A q \in Acks(c) : p = q

(* The values there are: of the row, of the copies, and on the way. *)
Values ==
  {row.value} \cup {view[c].value : c \in Clients}
    \cup {r.value : r \in UNION {ToSet(up[c]) : c \in Clients}}
    \cup {a.copy.value : a \in UNION {ToSet(down[c]) : c \in Clients}}

WasAsked(v) == \A j \in Calls : j \in ToSet(v) => status[j] \notin {"new", "queued"}

InOrder(v) ==
  \A c \in Clients : \A k, j \in Calls : Precedes(issued[c], k, j) =>
    \A a, b \in DOMAIN v : v[a] = k /\ v[b] = j => a < b

OrderInv == /\ \A c \in Clients : Line(c) /\ OneRequest(c)
            /\ \A v \in Values : WasAsked(v) /\ InOrder(v)

LEMMA PrecedesAppend ==
  ASSUME NEW S, NEW s \in Seq(S), NEW x \in S, NEW k, NEW j
  PROVE  Precedes(Append(s, x), k, j) <=> Precedes(s, k, j) \/ (j = x /\ k \in ToSet(s))
<1>1. /\ Len(Append(s, x)) = Len(s) + 1 /\ Append(s, x) \in Seq(S)
      /\ \A i \in 1..Len(s) : Append(s, x)[i] = s[i]
      /\ Append(s, x)[Len(s) + 1] = x
  BY AppendProperties
<1>2. DOMAIN s = 1..Len(s) /\ DOMAIN Append(s, x) = 1..(Len(s) + 1) /\ Len(s) \in Nat
  BY <1>1, LenProperties
<1>3. ASSUME Precedes(Append(s, x), k, j) PROVE Precedes(s, k, j) \/ (j = x /\ k \in ToSet(s))
  <2>1. PICK p, q \in 1..(Len(s) + 1) : p < q /\ Append(s, x)[p] = k /\ Append(s, x)[q] = j
    BY <1>2, <1>3 DEF Precedes
  <2>2. p \in 1..Len(s) /\ s[p] = k
    BY <1>1, <1>2, <2>1
  <2>3. CASE q = Len(s) + 1
    BY <1>1, <1>2, <2>1, <2>2, <2>3 DEF ToSet
  <2>4. CASE q \in 1..Len(s)
    BY <1>1, <1>2, <2>1, <2>2, <2>4 DEF Precedes
  <2>. QED
    BY <1>2, <2>1, <2>3, <2>4
<1>4. ASSUME Precedes(s, k, j) PROVE Precedes(Append(s, x), k, j)
  <2>1. PICK p, q \in 1..Len(s) : p < q /\ s[p] = k /\ s[q] = j
    BY <1>2, <1>4 DEF Precedes
  <2>2. p \in 1..(Len(s) + 1) /\ q \in 1..(Len(s) + 1)
    BY <1>2
  <2>. QED
    BY <1>1, <1>2, <2>1, <2>2 DEF Precedes
<1>5. ASSUME j = x, k \in ToSet(s) PROVE Precedes(Append(s, x), k, j)
  <2>1. PICK p \in 1..Len(s) : s[p] = k
    BY <1>2, <1>5 DEF ToSet
  <2>2. p \in 1..(Len(s) + 1) /\ Len(s) + 1 \in 1..(Len(s) + 1) /\ p < Len(s) + 1
    BY <1>2
  <2>. QED
    BY <1>1, <1>2, <1>5, <2>1, <2>2 DEF Precedes
<1>. QED
  BY <1>3, <1>4, <1>5

(* To precede is an order on what occurs once. *)
LEMMA PrecedesOrder ==
  ASSUME NEW S, NEW s \in Seq(S), IsInjective(s), NEW k, NEW j, Precedes(s, k, j)
  PROVE  k \in ToSet(s) /\ j \in ToSet(s) /\ ~Precedes(s, j, k)
<1>1. DOMAIN s \subseteq Nat
  BY LenProperties
<1>2. k \in ToSet(s) /\ j \in ToSet(s)
  BY DEF Precedes, ToSet
<1>3. ASSUME Precedes(s, j, k) PROVE FALSE
  <2>1. PICK p, q \in DOMAIN s : p < q /\ s[p] = k /\ s[q] = j
    BY DEF Precedes
  <2>2. PICK x, y \in DOMAIN s : x < y /\ s[x] = j /\ s[y] = k
    BY <1>3 DEF Precedes
  <2>3. x = q /\ y = p
    BY <2>1, <2>2 DEF IsInjective
  <2>. QED
    BY <1>1, <2>1, <2>2, <2>3
<1>. QED
  BY <1>2, <1>3

LEMMA BeforeFacts ==
  ASSUME TypeOK, NEW c \in Clients, Line(c), NEW k, NEW j, Precedes(issued[c], k, j)
  PROVE  /\ k \in Of(c) /\ j \in Of(c) /\ k # j /\ ~Precedes(issued[c], j, k)
         /\ status[k] # "new" /\ status[j] # "new"
<1>1. issued[c] \in Seq(Calls) /\ IsInjective(issued[c]) /\ IssuedOwn(c)
  BY DEF TypeOK, Line
<1>2. k \in ToSet(issued[c]) /\ j \in ToSet(issued[c]) /\ ~Precedes(issued[c], j, k)
  BY <1>1, PrecedesOrder
<1>. QED
  BY <1>1, <1>2 DEF IssuedOwn

(* A process whose calls stay as they are, or go from one stage under the lock to another. *)
LEMMA LineStays ==
  ASSUME TypeOK, NEW c \in Clients, Line(c),
         issued'[c] = issued[c], permits'[c] = permits[c], waiters'[c] = waiters[c],
         \A k \in Of(c) : status'[k] = status[k] \/ (status[k] \in Inside /\ status'[k] \in Inside)
  PROVE  Line(c)'
<1>1. \A k \in Of(c) : /\ status'[k] \in Inside <=> status[k] \in Inside
                       /\ status'[k] = "new" <=> status[k] = "new"
                       /\ status'[k] = "queued" <=> status[k] = "queued"
                       /\ status'[k] \in {"done", "lost"} <=> status[k] \in {"done", "lost"}
  BY DEF Inside
<1>2. Running(c)' = Running(c)
  BY <1>1 DEF Running
<1>3. IssuedOwn(c)' /\ LockHeld(c)' /\ QueuedWait(c)' /\ WaitersInOrder(c)'
  BY <1>1, <1>2 DEF Line, IssuedOwn, LockHeld, QueuedWait, WaitersInOrder
<1>4. EarlierSettled(c)'
  BY <1>1 DEF Line, EarlierSettled
<1>. QED
  BY <1>3, <1>4 DEF Line

(* A call is issued: it gets the free lock, or waits behind all the others. *)
LEMMA LineIssue ==
  ASSUME TypeOK, NEW c \in Clients, Line(c), NEW j \in Of(c), status[j] = "new", Lock(c, j),
         issued' = [issued EXCEPT ![c] = Append(@, j)]
  PROVE  Line(c)'
<1>. DEFINE s == issued[c]
<1>1. /\ s \in Seq(Calls) /\ j \in Calls /\ j \in Jobs /\ waiters[c] \in Seq(Calls)
      /\ IsInjective(s) /\ ToSet(s) = {k \in Of(c) : status[k] # "new"}
  BY DEF TypeOK, Line, IssuedOwn, Of, Jobs
<1>2. /\ issued'[c] = Append(s, j) /\ j \notin ToSet(s)
      /\ ToSet(Append(s, j)) = ToSet(s) \cup {j}
      /\ \A k, m : Precedes(Append(s, j), k, m) <=> Precedes(s, k, m) \/ (m = j /\ k \in ToSet(s))
  BY <1>1, AppendElements, PrecedesAppend DEF TypeOK
<1>3. IsInjective(issued[c])'
  <2>1. /\ Len(Append(s, j)) = Len(s) + 1 /\ Append(s, j) \in Seq(Calls)
        /\ \A i \in 1..Len(s) : Append(s, j)[i] = s[i]
        /\ Append(s, j)[Len(s) + 1] = j
    BY <1>1, AppendProperties
  <2>2. DOMAIN s = 1..Len(s) /\ DOMAIN Append(s, j) = 1..(Len(s) + 1) /\ Len(s) \in Nat
    BY <1>1, <2>1, LenProperties
  <2>3. \A i \in 1..Len(s) : s[i] # j
    BY <1>2, <2>2 DEF ToSet
  <2>4. \A i \in 1..(Len(s) + 1) : i \in 1..Len(s) \/ i = Len(s) + 1
    BY <2>2
  <2>. QED
    BY <1>1, <1>2, <2>1, <2>2, <2>3, <2>4 DEF IsInjective
<1>4. \A k, m : Precedes(s, k, m) => k # j /\ m # j
  BY BeforeFacts
<1>5. \A k \in Of(c) : k \in Jobs /\ (k # j => status'[k] = status[k])
  BY DEF Lock, TypeOK, Of, Jobs
<1>6. CASE /\ permits[c] > 0 /\ permits' = [permits EXCEPT ![c] = @ - 1]
           /\ status' = [status EXCEPT ![j] = "ready"] /\ UNCHANGED waiters
  <2>1. permits[c] = 1 /\ waiters[c] = <<>> /\ Running(c) = {}
    BY <1>6 DEF Line, LockHeld
  <2>2. permits'[c] = 0 /\ status'[j] = "ready"
    BY <1>1, <1>6, <2>1 DEF TypeOK
  <2>3. Running(c)' = {j}
    BY <1>5, <2>1, <2>2 DEF Running, Inside
  <2>4. LockHeld(c)'
    BY <2>2, <2>3 DEF LockHeld
  <2>5. IssuedOwn(c)' /\ QueuedWait(c)'
    BY <1>1, <1>2, <1>5, <1>6, <2>2 DEF IssuedOwn, QueuedWait, Line
  <2>6. WaitersInOrder(c)'
    BY <1>6, <2>1, EmptySeq DEF WaitersInOrder
  <2>7. \A k \in ToSet(s) : status[k] \in {"done", "lost"} /\ k # j /\ k \in Of(c)
    <3>1. {k \in Of(c) : status[k] = "queued"} = {}
      BY <2>1, EmptySeq DEF Line, QueuedWait, ToSet
    <3>. QED
      BY <1>1, <1>5, <2>1, <3>1 DEF Running, TypeOK
  <2>8. EarlierSettled(c)'
    BY <1>2, <1>4, <1>5, <2>7 DEF EarlierSettled, Line
  <2>. QED
    BY <1>3, <2>4, <2>5, <2>6, <2>8 DEF Line
<1>7. CASE /\ permits[c] = 0 /\ waiters' = [waiters EXCEPT ![c] = Append(@, j)]
           /\ status' = [status EXCEPT ![j] = "queued"] /\ UNCHANGED permits
  <2>. DEFINE w == waiters[c]
  <2>1. waiters'[c] = Append(w, j) /\ status'[j] = "queued" /\ ToSet(Append(w, j)) = ToSet(w) \cup {j}
    BY <1>1, <1>7, AppendElements DEF TypeOK
  <2>2. Running(c)' = Running(c)
    BY <1>5, <2>1 DEF Running, Inside
  <2>3. LockHeld(c)'
    BY <1>7, <2>2 DEF LockHeld, Line
  <2>4. IssuedOwn(c)' /\ QueuedWait(c)'
    <3>1. IssuedOwn(c)'
      BY <1>1, <1>2, <1>5, <2>1 DEF IssuedOwn, Line
    <3>2. \A k \in Of(c) : status'[k] = "queued" <=> status[k] = "queued" \/ k = j
      BY <1>1, <1>5, <2>1
    <3>3. QueuedWait(c)'
      BY <2>1, <3>2 DEF QueuedWait, Line
    <3>. QED
      BY <3>1, <3>3
  <2>5. WaitersInOrder(c)'
    <3>1. /\ Len(Append(w, j)) = Len(w) + 1 /\ Append(w, j) \in Seq(Calls)
          /\ \A i \in 1..Len(w) : Append(w, j)[i] = w[i]
          /\ Append(w, j)[Len(w) + 1] = j
      BY <1>1, AppendProperties
    <3>2. DOMAIN w = 1..Len(w) /\ DOMAIN Append(w, j) = 1..(Len(w) + 1) /\ Len(w) \in Nat
      BY <1>1, <3>1, LenProperties
    <3>3. \A i \in 1..Len(w) : w[i] \in ToSet(s)
      BY <1>1, <3>2 DEF Line, QueuedWait, ToSet
    <3>. SUFFICES ASSUME NEW p \in 1..(Len(w) + 1), NEW q \in 1..(Len(w) + 1), p < q
                  PROVE  Precedes(Append(s, j), Append(w, j)[p], Append(w, j)[q])
      BY <1>2, <2>1, <3>2 DEF WaitersInOrder
    <3>4. p \in 1..Len(w)
      BY <3>2
    <3>5. CASE q = Len(w) + 1
      BY <1>2, <3>1, <3>3, <3>4, <3>5
    <3>6. CASE q \in 1..Len(w)
      BY <1>2, <3>1, <3>2, <3>4, <3>6 DEF Line, WaitersInOrder
    <3>. QED
      BY <3>2, <3>5, <3>6
  <2>6. EarlierSettled(c)'
    BY <1>2, <1>4, <1>5, <2>1 DEF EarlierSettled, Line
  <2>. QED
    BY <1>3, <2>3, <2>4, <2>5, <2>6 DEF Line
<1>. QED
  BY <1>6, <1>7 DEF Lock

(* The call under the lock returns, and the lock goes to the one that waited longest. *)
LEMMA LineReturn ==
  ASSUME TypeOK, NEW c \in Clients, Line(c), NEW j \in Of(c), status[j] \in Inside, Unlock(c, j),
         issued'[c] = issued[c]
  PROVE  Line(c)'
<1>. DEFINE w == waiters[c]
<1>1. permits[c] = 0 /\ Running(c) = {j}
  BY DEF Line, LockHeld, Running
<1>2. /\ IsInjective(issued[c])' /\ w \in Seq(Calls) /\ j \in Jobs /\ Of(c) \subseteq Jobs
      /\ \A k, m : Precedes(issued[c], k, m) =>
           /\ k \in Of(c) /\ m \in Of(c) /\ k # m /\ ~Precedes(issued[c], m, k)
           /\ status[k] # "new" /\ status[m] # "new"
  BY BeforeFacts DEF Line, TypeOK, Of, Jobs
<1>3. CASE /\ w # <<>> /\ status' = [status EXCEPT ![j] = "done", ![Head(w)] = "woken"]
           /\ waiters' = [waiters EXCEPT ![c] = Tail(@)] /\ UNCHANGED permits
  <2>. DEFINE h == Head(w)
  <2>1. h \in ToSet(w) /\ h \in Of(c) /\ status[h] = "queued" /\ h # j
    BY <1>2, <1>3, TailElements DEF Line, QueuedWait, Inside
  <2>2. /\ status'[j] = "done" /\ status'[h] = "woken"
        /\ \A k \in Of(c) : k # j /\ k # h => status'[k] = status[k]
    BY <1>2, <1>3, <2>1 DEF TypeOK
  <2>3. LockHeld(c)'
    <3>1. Running(c)' = {h}
      BY <1>1, <2>1, <2>2 DEF Running, Inside
    <3>. QED
      BY <1>1, <1>3, <2>1, <3>1 DEF LockHeld
  <2>4. IssuedOwn(c)'
    BY <2>1, <2>2 DEF Line, IssuedOwn, Inside
  <2>5. /\ Len(w) \in Nat /\ Len(w) >= 1 /\ Head(w) = w[1] /\ Len(Tail(w)) = Len(w) - 1
        /\ \A i \in 1..Len(Tail(w)) : Tail(w)[i] = w[i + 1]
        /\ DOMAIN w = 1..Len(w) /\ DOMAIN Tail(w) = 1..Len(Tail(w)) /\ Tail(w) \in Seq(Calls)
    BY <1>2, <1>3, HeadTailProperties, LenProperties, EmptySeq
  <2>6. \A i \in 1..Len(w) : i # 1 => Precedes(issued[c], h, w[i])
    BY <2>5 DEF Line, WaitersInOrder
  <2>7. QueuedWait(c)'
    <3>1. ToSet(Tail(w)) = ToSet(w) \ {h}
      <4>1. ASSUME NEW i \in 1..Len(Tail(w))
            PROVE  Tail(w)[i] \in ToSet(w) /\ Tail(w)[i] # h
        <5>1. i + 1 \in 1..Len(w) /\ i + 1 # 1
          BY <2>5
        <5>. QED
          BY <1>2, <2>5, <2>6, <5>1 DEF ToSet
      <4>2. ASSUME NEW i \in 1..Len(w), w[i] # h
            PROVE  w[i] \in ToSet(Tail(w))
        <5>1. i - 1 \in 1..Len(Tail(w)) /\ Tail(w)[i - 1] = w[i]
          BY <2>5, <4>2
        <5>. QED
          BY <2>5, <5>1 DEF ToSet
      <4>3. \A x : x \in ToSet(w) <=> \E i \in 1..Len(w) : w[i] = x
        BY <2>5 DEF ToSet
      <4>4. \A x : x \in ToSet(Tail(w)) <=> \E i \in 1..Len(Tail(w)) : Tail(w)[i] = x
        BY <2>5 DEF ToSet
      <4>5. \A x : x \in ToSet(Tail(w)) <=> x \in ToSet(w) /\ x # h
        BY <4>1, <4>2, <4>3, <4>4
      <4>. QED
        BY <4>5
    <3>. QED
      BY <1>3, <2>1, <2>2, <3>1 DEF Line, QueuedWait, TypeOK, Inside
  <2>8. WaitersInOrder(c)'
    <3>1. ASSUME NEW p \in DOMAIN Tail(w), NEW q \in DOMAIN Tail(w), p < q
          PROVE  Precedes(issued[c], Tail(w)[p], Tail(w)[q])
      <4>1. p + 1 \in DOMAIN w /\ q + 1 \in DOMAIN w /\ p + 1 < q + 1
        BY <2>5, <3>1
      <4>. QED
        BY <2>5, <4>1 DEF Line, WaitersInOrder
    <3>. QED
      BY <1>3, <3>1 DEF WaitersInOrder, TypeOK
  <2>9. EarlierSettled(c)'
    <3>. SUFFICES ASSUME NEW k \in Of(c), NEW m \in Of(c), Precedes(issued[c], k, m), status'[m] # "queued"
                  PROVE  status'[k] \in {"done", "lost"}
      BY DEF EarlierSettled
    <3>1. CASE m = h
      <4>1. status[k] # "queued"
        <5>. SUFFICES ASSUME status[k] = "queued" PROVE FALSE
          OBVIOUS
        <5>1. PICK i \in 1..Len(w) : w[i] = k
          BY <2>5 DEF Line, QueuedWait, ToSet
        <5>. QED
          BY <1>2, <2>5, <2>6, <3>1, <5>1
      <4>2. k = j \/ status[k] \in {"done", "lost"}
        BY <1>1, <1>2, <4>1 DEF Running, TypeOK
      <4>. QED
        BY <1>2, <2>2, <3>1, <4>2
    <3>2. CASE m # h
      <4>1. status[m] # "queued"
        BY <2>2, <3>2 DEF Inside
      <4>2. status[k] \in {"done", "lost"}
        BY <4>1 DEF Line, EarlierSettled
      <4>. QED
        BY <2>1, <2>2, <4>2
    <3>. QED
      BY <3>1, <3>2
  <2>. QED
    BY <1>2, <2>3, <2>4, <2>7, <2>8, <2>9 DEF Line
<1>4. CASE /\ w = <<>> /\ permits' = [permits EXCEPT ![c] = @ + 1]
           /\ status' = [status EXCEPT ![j] = "done"] /\ UNCHANGED waiters
  <2>1. status'[j] = "done" /\ \A k \in Of(c) : k # j => status'[k] = status[k]
    BY <1>2, <1>4 DEF TypeOK
  <2>2. permits'[c] = 1 /\ Running(c)' = {}
    BY <1>1, <1>4, <2>1 DEF Running, Inside, TypeOK
  <2>3. LockHeld(c)' /\ WaitersInOrder(c)'
    BY <1>4, <2>2 DEF LockHeld, Line, WaitersInOrder
  <2>4. IssuedOwn(c)' /\ QueuedWait(c)'
    BY <1>4, <2>1 DEF Line, IssuedOwn, QueuedWait, Inside
  <2>5. EarlierSettled(c)'
    BY <2>1 DEF Line, EarlierSettled, Inside
  <2>. QED
    BY <1>2, <2>3, <2>4, <2>5 DEF Line
<1>. QED
  BY <1>3, <1>4 DEF Unlock

(* A new process: all that was going on is lost. *)
LEMMA LineRestart ==
  ASSUME TypeOK, NEW c \in Clients, Line(c), Restart(c)
  PROVE  Line(c)'
<1>1. /\ permits'[c] = 1 /\ waiters'[c] = <<>> /\ issued'[c] = issued[c]
      /\ \A k \in Of(c) : status'[k] = IF status[k] \in Inside \cup {"queued"} THEN "lost" ELSE status[k]
  BY DEF Restart, TypeOK, Of, Jobs
<1>2. \A k \in Of(c) : status[k] \in Inside \cup {"new", "queued", "done", "lost"}
  BY DEF TypeOK, Of, Jobs
<1>3. \A k \in Of(c) : /\ status'[k] \in {"new", "done", "lost"}
                       /\ status'[k] = "new" <=> status[k] = "new"
  BY <1>1, <1>2 DEF Inside
<1>4. Running(c)' = {} /\ {k \in Of(c) : status'[k] = "queued"} = {}
  BY <1>3 DEF Running, Inside
<1>5. ToSet(<<>>) = {} /\ DOMAIN <<>> = {}
  BY EmptySeq DEF ToSet
<1>6. IssuedOwn(c)' /\ LockHeld(c)' /\ QueuedWait(c)' /\ WaitersInOrder(c)'
  BY <1>1, <1>3, <1>4, <1>5 DEF Line, IssuedOwn, LockHeld, QueuedWait, WaitersInOrder
<1>7. EarlierSettled(c)'
  BY <1>1, <1>3, BeforeFacts DEF EarlierSettled
<1>. QED
  BY <1>1, <1>6, <1>7 DEF Line

(* The line of every process, whatever step is taken. *)
LEMMA LineStep ==
  ASSUME Locked, TypeOK, \A c \in Clients : Line(c) /\ OneRequest(c), Next, NEW d \in Clients
  PROVE  Line(d)'
<1>. USE DEF netVars, lockVars
<1>1. \A k \in Of(d) : k \in Calls /\ k \in Jobs /\ Owner[k] = d
  BY DEF Of, Jobs
<1>2. ASSUME NEW j \in Calls, Issue(j) \/ Wake(j) \/ Attempt(j) \/ FlushReturns(j)
      PROVE  Line(d)'
  <2>. DEFINE c == Owner[j]
  <2>1. c \in Clients /\ j \in Of(c) /\ j \in Jobs
    BY OwnerType DEF Of
  <2>2. CASE Issue(j)
    <3>1. CASE d = c
      BY <2>1, <2>2, <3>1, LineIssue DEF Issue
    <3>2. CASE d # c
      <4>1. /\ issued'[d] = issued[d] /\ permits'[d] = permits[d] /\ waiters'[d] = waiters[d]
            /\ \A k \in Of(d) : status'[k] = status[k]
        BY <1>1, <2>1, <2>2, <3>2 DEF Issue, Lock, TypeOK
      <4>. QED
        BY <4>1, LineStays
    <3>. QED
      BY <3>1, <3>2
  <2>3. CASE Wake(j) \/ Attempt(j)
    <3>1. \A k \in Of(d) : status'[k] = status[k] \/ (status[k] \in Inside /\ status'[k] \in Inside)
      BY <1>1, <2>1, <2>3 DEF Wake, Attempt, TypeOK, Inside
    <3>. QED
      BY <2>3, <3>1, LineStays DEF Wake, Attempt
  <2>4. CASE FlushReturns(j)
    <3>1. Unlock(c, j) /\ issued' = issued /\ status[j] \in Inside
      BY <2>4 DEF FlushReturns, Return, Inside
    <3>2. CASE d = c
      BY <2>1, <3>1, <3>2, LineReturn
    <3>3. CASE d # c
      <4>1. waiters[c] # <<>> => Head(waiters[c]) \in Of(c)
        BY <2>1, TailElements DEF TypeOK, Line, QueuedWait
      <4>2. permits'[d] = permits[d] /\ waiters'[d] = waiters[d]
        BY <2>1, <3>1, <3>3 DEF Unlock, TypeOK
      <4>3. \A k \in Of(d) : status'[k] = status[k]
        <5>1. \A k \in Of(d) : k # j /\ k \in Jobs /\ (waiters[c] # <<>> => k # Head(waiters[c]))
          BY <1>1, <2>1, <3>3, <4>1 DEF Of
        <5>. QED
          BY <3>1, <5>1 DEF Unlock, TypeOK
      <4>. QED
        BY <3>1, <4>2, <4>3, LineStays
    <3>. QED
      BY <3>2, <3>3
  <2>. QED
    BY <1>2, <2>2, <2>3, <2>4
<1>3. ASSUME NEW c \in Clients, CliAck(c)
      PROVE  Line(d)'
  <2>. DEFINE a == Head(down[c])
  <2>1. Asked(c, a.job) /\ a.job \in Jobs
    <3>1. down[c] \in Seq(Answer) /\ down[c] # <<>> /\ a.t \in {"success", "mismatch", "error"}
      BY <1>3 DEF CliAck, Arrives, TypeOK
    <3>2. 1 \in DOMAIN down[c] /\ a = down[c][1] /\ a \in Answer
      BY <3>1, HeadTailProperties, LenProperties, EmptySeq
    <3>3. 1 \in Acks(c)
      BY <3>1, <3>2 DEF Acks
    <3>. QED
      BY <3>2, <3>3 DEF OneRequest, Answer
  <2>2. CASE Unlock(c, a.job)
    <3>1. a.job \in Of(c) /\ status[a.job] \in Inside /\ issued' = issued
      BY <1>3, <2>1 DEF Asked, CliAck, Inside
    <3>2. CASE d = c
      BY <2>2, <3>1, <3>2, LineReturn
    <3>3. CASE d # c
      <4>1. waiters[c] # <<>> => Head(waiters[c]) \in Of(c)
        BY TailElements DEF TypeOK, Line, QueuedWait
      <4>2. /\ permits'[d] = permits[d] /\ waiters'[d] = waiters[d]
            /\ \A k \in Of(d) : status'[k] = status[k]
        BY <1>1, <2>2, <3>1, <3>3, <4>1 DEF Unlock, TypeOK, Of
      <4>. QED
        BY <3>1, <4>2, LineStays
    <3>. QED
      BY <3>2, <3>3
  <2>3. CASE status' = [status EXCEPT ![a.job] = "ready"] /\ UNCHANGED lockVars
    <3>1. \A k \in Of(d) : status'[k] = status[k] \/ (status[k] \in Inside /\ status'[k] \in Inside)
      BY <1>1, <2>1, <2>3 DEF Asked, TypeOK, Inside
    <3>. QED
      BY <1>3, <2>3, <3>1, LineStays DEF CliAck
  <2>. QED
    BY <1>3, <2>2, <2>3 DEF CliAck, Return
<1>4. ASSUME NEW c \in Clients, CliPush(c) \/ Connect(c) \/ HubUpdate(c)
      PROVE  Line(d)'
  BY <1>4, LineStays DEF CliPush, Connect, HubUpdate
<1>5. ASSUME NEW c \in Clients, Drop(c)
      PROVE  Line(d)'
  <2>1. \A k \in Of(d) : status'[k] = status[k] \/ (status[k] \in Inside /\ status'[k] \in Inside)
    BY <1>1, <1>5 DEF Drop, Inside
  <2>. QED
    BY <1>5, <2>1, LineStays DEF Drop
<1>6. ASSUME NEW c \in Clients, Restart(c)
      PROVE  Line(d)'
  <2>1. CASE d = c
    BY <1>6, <2>1, LineRestart
  <2>2. CASE d # c
    <3>1. /\ issued'[d] = issued[d] /\ permits'[d] = permits[d] /\ waiters'[d] = waiters[d]
          /\ \A k \in Of(d) : status'[k] = status[k]
      BY <1>1, <1>6, <2>2 DEF Restart, TypeOK, Of
    <3>. QED
      BY <3>1, LineStays
  <2>. QED
    BY <2>1, <2>2
<1>7. ASSUME NEW h \in HubUpdates, HubWrite(h)
      PROVE  Line(d)'
  <2>1. \A k \in Of(d) : status'[k] = status[k]
    BY <1>1, <1>7, JobsAssumption DEF HubWrite, TypeOK
  <2>. QED
    BY <1>7, <2>1, LineStays DEF HubWrite
<1>. QED
  BY <1>2, <1>3, <1>4, <1>5, <1>6, <1>7 DEF Next

-----------------------------------------------------------------------------
(* The one request or answer of each process in transit. *)

LEMMA WireStays ==
  ASSUME NEW c \in Clients, OneRequest(c), up'[c] = up[c], Acks(c)' = Acks(c),
         \A p \in Acks(c) : down'[c][p] = down[c][p],
         \A k \in Of(c) : status[k] = "asked" => status'[k] = "asked"
  PROVE  OneRequest(c)'
BY DEF OneRequest, Asked

LEMMA WireEmpty ==
  ASSUME NEW c \in Clients, up'[c] = <<>>, Acks(c)' = {}
  PROVE  OneRequest(c)'
BY EmptySeq DEF OneRequest

(* The acknowledgement or the broadcast at the head of a channel is taken off it. *)
LEMMA AcksTail ==
  ASSUME NEW s \in Seq(Answer), s # <<>>,
         \A p, q \in DOMAIN s : s[p].t # "push" /\ s[q].t # "push" => p = q
  PROVE  /\ Head(s) = s[1] /\ 1 \in DOMAIN s
         /\ Head(s).t # "push" => \A p \in DOMAIN Tail(s) : Tail(s)[p].t = "push"
         /\ \A p \in DOMAIN Tail(s) : p + 1 \in DOMAIN s /\ Tail(s)[p] = s[p + 1]
<1>1. /\ Len(s) \in Nat /\ Len(s) >= 1 /\ Head(s) = s[1] /\ Len(Tail(s)) = Len(s) - 1
      /\ \A i \in 1..Len(Tail(s)) : Tail(s)[i] = s[i + 1]
      /\ DOMAIN s = 1..Len(s) /\ DOMAIN Tail(s) = 1..Len(Tail(s))
  BY HeadTailProperties, LenProperties, EmptySeq
<1>2. \A i \in 1..Len(Tail(s)) : i + 1 \in 1..Len(s) /\ i + 1 # 1
  BY <1>1
<1>3. 1 \in 1..Len(s)
  BY <1>1
<1>. QED
  BY <1>1, <1>2, <1>3

LEMMA WireStep ==
  ASSUME Locked, TypeOK, \A c \in Clients : Line(c) /\ OneRequest(c), Next, NEW d \in Clients
  PROVE  OneRequest(d)'
<1>. USE DEF netVars, lockVars
<1>1. \A k \in Of(d) : k \in Calls /\ k \in Jobs /\ Owner[k] = d
  BY DEF Of, Jobs
<1>2. /\ up[d] \in Seq(Request) /\ down[d] \in Seq(Answer) /\ DOMAIN down[d] = 1..Len(down[d])
      /\ Len(down[d]) \in Nat
  BY LenProperties DEF TypeOK
<1>3. UNCHANGED down => Acks(d)' = Acks(d)
  BY DEF Acks
<1>4. ASSUME NEW j \in Calls, Issue(j) \/ Wake(j) \/ FlushReturns(j)
      PROVE  OneRequest(d)'
  <2>. DEFINE c == Owner[j]
  <2>1. c \in Clients /\ status[j] # "asked" /\ UNCHANGED <<up, down>>
    BY <1>4, OwnerType DEF Issue, Wake, FlushReturns
  <2>2. waiters[c] # <<>> => Head(waiters[c]) \in {k \in Of(c) : status[k] = "queued"}
    BY <2>1, TailElements DEF TypeOK, Line, QueuedWait
  <2>3. \A k \in Of(d) : status[k] = "asked" => status'[k] = "asked"
    BY <1>1, <1>4, <2>1, <2>2 DEF Issue, Wake, FlushReturns, Return, Lock, Unlock, TypeOK
  <2>. QED
    BY <1>3, <2>1, <2>3, WireStays
<1>5. ASSUME NEW j \in Calls, Attempt(j)
      PROVE  OneRequest(d)'
  <2>. DEFINE c == Owner[j]
  <2>. DEFINE r == [job |-> j, base |-> view[c].version, value |-> Append(view[c].value, j)]
  <2>1. c \in Clients /\ j \in Of(c) /\ status[j] = "ready" /\ j \in Jobs /\ up[c] \in Seq(Request)
    BY <1>5, OwnerType DEF Attempt, Of, TypeOK
  <2>2. status' = [status EXCEPT ![j] = "asked"] /\ up' = [up EXCEPT ![c] = Append(@, r)] /\ UNCHANGED down
    BY <1>5 DEF Attempt
  <2>3. CASE d = c
    <3>1. \A k : ~Asked(c, k)
      BY <2>1 DEF Asked, Line, LockHeld, Running, Inside
    <3>2. up[c] = <<>> /\ Acks(c) = {}
      BY <2>1, <3>1 DEF OneRequest
    <3>3. up'[c] = <<r>>
      <4>1. up'[c] = Append(up[c], r)
        BY <2>1, <2>2 DEF TypeOK
      <4>. QED
        BY <3>2, <4>1
    <3>4. Asked(c, j)'
      BY <2>1, <2>2 DEF Asked, TypeOK
    <3>5. Len(<<r>>) = 1 /\ Head(<<r>>).job = j
      OBVIOUS
    <3>6. Len(up'[c]) <= 1 /\ Head(up'[c]).job = j
      BY <3>3, <3>5
    <3>7. Acks(c)' = {}
      BY <1>3, <2>2, <2>3, <3>2
    <3>. QED
      BY <2>3, <3>4, <3>6, <3>7 DEF OneRequest
  <2>4. CASE d # c
    <3>1. up'[d] = up[d] /\ \A k \in Of(d) : status'[k] = status[k]
      BY <1>1, <2>1, <2>2, <2>4 DEF TypeOK
    <3>. QED
      BY <1>3, <2>2, <3>1, WireStays
  <2>. QED
    BY <2>3, <2>4
<1>6. ASSUME NEW c \in Clients, Arrives(c, {"success", "mismatch", "error"}) \/ Arrives(c, {"push"})
      PROVE  /\ Head(down[d]) \in Answer \/ d # c
             /\ Head(down[c]).t # "push" => Asked(c, Head(down[c]).job) /\ up[c] = <<>>
             /\ Head(down[c]).t # "push" /\ d = c => Acks(d)' = {}
             /\ d # c => down'[d] = down[d] /\ Acks(d)' = Acks(d)
             /\ d = c => /\ down'[d] = Tail(down[d])
                         /\ \A p \in DOMAIN Tail(down[d]) :
                              p + 1 \in DOMAIN down[d] /\ Tail(down[d])[p] = down[d][p + 1]
  <2>1. down[c] \in Seq(Answer) /\ down[c] # <<>> /\ down' = [down EXCEPT ![c] = Tail(@)]
    BY <1>6 DEF Arrives, TypeOK
  <2>2. \A p, q \in DOMAIN down[c] : down[c][p].t # "push" /\ down[c][q].t # "push" => p = q
    BY DEF OneRequest, Acks
  <2>3. /\ Head(down[c]) = down[c][1] /\ 1 \in DOMAIN down[c]
        /\ Head(down[c]).t # "push" => \A p \in DOMAIN Tail(down[c]) : Tail(down[c])[p].t = "push"
        /\ \A p \in DOMAIN Tail(down[c]) : p + 1 \in DOMAIN down[c] /\ Tail(down[c])[p] = down[c][p + 1]
    BY <2>1, <2>2, AcksTail
  <2>4. Head(down[c]).t # "push" => Asked(c, Head(down[c]).job) /\ up[c] = <<>>
    BY <2>3 DEF OneRequest, Acks
  <2>5. d = c => down'[d] = Tail(down[d])
    BY <2>1 DEF TypeOK
  <2>6. d # c => down'[d] = down[d]
    BY <2>1 DEF TypeOK
  <2>7. Head(down[c]) \in Answer
    BY <2>1, HeadTailProperties
  <2>. QED
    BY <2>3, <2>4, <2>5, <2>6, <2>7 DEF Acks
<1>7. ASSUME NEW c \in Clients, CliAck(c)
      PROVE  OneRequest(d)'
  <2>1. /\ Arrives(c, {"success", "mismatch", "error"}) /\ up' = up /\ Head(down[c]).t # "push"
    BY <1>7 DEF CliAck, Arrives
  <2>2. CASE d = c
    BY <1>6, <2>1, <2>2, WireEmpty
  <2>3. CASE d # c
    <3>1. Head(down[c]).job \in Of(c)
      BY <1>6, <2>1 DEF Asked
    <3>2. waiters[c] # <<>> => Head(waiters[c]) \in {k \in Of(c) : status[k] = "queued"}
      BY TailElements DEF TypeOK, Line, QueuedWait
    <3>3. \A k \in Of(d) : status'[k] = status[k]
      BY <1>1, <1>7, <2>3, <3>1, <3>2 DEF CliAck, Return, Unlock, TypeOK, Of
    <3>. QED
      BY <1>6, <2>1, <2>3, <3>3, WireStays
  <2>. QED
    BY <2>2, <2>3
<1>8. ASSUME NEW c \in Clients, CliPush(c)
      PROVE  OneRequest(d)'
  <2>1. Arrives(c, {"push"}) /\ up' = up /\ status' = status /\ Head(down[c]).t = "push"
    BY <1>8 DEF CliPush, Arrives
  <2>2. CASE d = c
    <3>1. \A p \in Acks(d)' : p + 1 \in Acks(d) /\ down'[d][p] = down[d][p + 1]
      BY <1>6, <2>1, <2>2 DEF Acks
    <3>2. up[d] # <<>> => Acks(d)' = {}
      BY <3>1 DEF OneRequest
    <3>3. \A p \in Acks(d)' : p \in Nat
      BY <1>2, <1>6, <2>1, <2>2, TailElements, LenProperties DEF Acks, Arrives
    <3>4. \A p, q \in Acks(d)' : p = q
      <4>. SUFFICES ASSUME NEW p \in Acks(d)', NEW q \in Acks(d)' PROVE p = q
        OBVIOUS
      <4>1. p + 1 = q + 1
        BY <3>1 DEF OneRequest
      <4>. QED
        BY <3>3, <4>1
    <3>5. (\A p \in Acks(d) : Asked(d, down[d][p].job))'
      BY <2>1, <3>1 DEF OneRequest, Asked
    <3>6. (Len(up[d]) <= 1 /\ (up[d] # <<>> => Asked(d, Head(up[d]).job)))'
      BY <2>1 DEF OneRequest, Asked
    <3>. QED
      BY <2>1, <3>2, <3>4, <3>5, <3>6 DEF OneRequest
  <2>3. CASE d # c
    BY <1>6, <2>1, <2>3, WireStays
  <2>. QED
    BY <2>2, <2>3
<1>9. ASSUME NEW c \in Clients, Drop(c) \/ Restart(c)
      PROVE  OneRequest(d)'
  <2>1. up' = [up EXCEPT ![c] = <<>>] /\ down' = [down EXCEPT ![c] = <<>>]
    BY <1>9 DEF Drop, Restart
  <2>2. CASE d = c
    <3>1. up'[d] = <<>> /\ down'[d] = <<>>
      BY <2>1, <2>2 DEF TypeOK
    <3>2. Acks(d)' = {}
      BY <3>1, EmptySeq DEF Acks
    <3>. QED
      BY <3>1, <3>2, WireEmpty
  <2>3. CASE d # c
    <3>1. up'[d] = up[d] /\ down'[d] = down[d] /\ \A k \in Of(d) : status'[k] = status[k]
      BY <1>1, <1>9, <2>1, <2>3 DEF Drop, Restart, TypeOK, Of
    <3>2. Acks(d)' = Acks(d)
      BY <3>1 DEF Acks
    <3>. QED
      BY <3>1, <3>2, WireStays
  <2>. QED
    BY <2>2, <2>3
<1>10. ASSUME NEW c \in Clients, Connect(c)
       PROVE  OneRequest(d)'
  BY <1>3, <1>10, WireStays DEF Connect
<1>11. ASSUME NEW h \in HubUpdates, HubWrite(h)
       PROVE  OneRequest(d)'
  <2>1. \A k \in Of(d) : status'[k] = status[k]
    BY <1>1, <1>11, JobsAssumption DEF HubWrite, TypeOK
  <2>. QED
    BY <1>3, <1>11, <2>1, WireStays DEF HubWrite
<1>12. ASSUME NEW x, x \in Answer, down'[d] = Append(down[d], x)
       PROVE  /\ Len(down[d]) + 1 \in DOMAIN down'[d] /\ down'[d][Len(down[d]) + 1] = x
              /\ \A p \in DOMAIN down[d] : down'[d][p] = down[d][p]
              /\ Acks(d)' = IF x.t = "push" THEN Acks(d) ELSE Acks(d) \cup {Len(down[d]) + 1}
  <2>1. /\ Len(down'[d]) = Len(down[d]) + 1 /\ down'[d] \in Seq(Answer)
        /\ \A i \in 1..Len(down[d]) : down'[d][i] = down[d][i]
        /\ down'[d][Len(down[d]) + 1] = x
    BY <1>2, <1>12, AppendProperties
  <2>2. DOMAIN down'[d] = 1..(Len(down[d]) + 1)
    BY <2>1, LenProperties
  <2>3. \A i : i \in 1..(Len(down[d]) + 1) <=> i \in 1..Len(down[d]) \/ i = Len(down[d]) + 1
    BY <1>2
  <2>4. \A p : p \in Acks(d)' <=> p \in DOMAIN down'[d] /\ down'[d][p].t # "push"
    BY DEF Acks
  <2>5. \A p : p \in Acks(d) <=> p \in DOMAIN down[d] /\ down[d][p].t # "push"
    BY DEF Acks
  <2>6. \A p : p \in Acks(d)' <=> p \in Acks(d) \/ (p = Len(down[d]) + 1 /\ x.t # "push")
    BY <1>2, <2>1, <2>2, <2>3, <2>4, <2>5
  <2>. QED
    BY <1>2, <2>1, <2>2, <2>3, <2>6
<1>13. ASSUME NEW c \in Clients, HubUpdate(c)
       PROVE  OneRequest(d)'
  <2>. DEFINE r == Head(up[c])
  <2>1. /\ up[c] \in Seq(Request) /\ up[c] # <<>> /\ up' = [up EXCEPT ![c] = Tail(@)] /\ status' = status
        /\ row \in Copy
    BY <1>13 DEF HubUpdate, TypeOK
  <2>2. r \in Request /\ Tail(up[c]) = <<>> /\ Acks(c) = {} /\ Asked(c, r.job)
    BY <2>1, HeadTailProperties, EmptySeq, LenProperties DEF OneRequest
  <2>3. r.job \in Jobs /\ r.value \in Seq(Jobs)
    BY <2>2 DEF Request, Jobs, Calls
  <2>4. PICK t \in {"success", "mismatch", "error"}, copy \in Copy :
          /\ down'[c] = Append(down[c], [t |-> t, job |-> r.job, copy |-> copy])
          /\ d # c => \/ down'[d] = down[d]
                      \/ down'[d] = Append(down[d], [t |-> "push", job |-> r.job, copy |-> copy])
    <3>1. CASE Answers(c, r.job, [version |-> row.version + 1, value |-> r.value])
      <4>1. [version |-> row.version + 1, value |-> r.value] \in Copy
        BY <2>1, <2>3 DEF Copy
      <4>2. /\ down'[c] = Append(down[c], [t |-> "success", job |-> r.job, copy |->
                            [version |-> row.version + 1, value |-> r.value]])
            /\ d # c => \/ down'[d] = down[d]
                        \/ down'[d] = Append(down[d], [t |-> "push", job |-> r.job, copy |->
                             [version |-> row.version + 1, value |-> r.value]])
        BY <3>1 DEF Answers
      <4>. QED
        BY <4>1, <4>2
    <3>2. CASE \E t \in {"mismatch", "error"} : Refuses(c, r.job, t)
      BY <2>1, <3>2 DEF Refuses, TypeOK
    <3>. QED
      BY <1>13, <3>1, <3>2 DEF HubUpdate
  <2>5. CASE d = c
    <3>. DEFINE x == [t |-> t, job |-> r.job, copy |-> copy]
    <3>1. x \in Answer /\ x.t # "push" /\ x.job = r.job
      BY <2>3 DEF Answer
    <3>. HIDE DEF x
    <3>2. down'[d] = Append(down[d], x)
      BY <2>4, <2>5 DEF x
    <3>3. Acks(d)' = {Len(down[d]) + 1} /\ down'[d][Len(down[d]) + 1] = x
      BY <1>12, <2>2, <2>5, <3>1, <3>2
    <3>4. up'[d] = <<>>
      BY <2>1, <2>2, <2>5 DEF TypeOK
    <3>5. x.job \in Of(d) /\ status'[x.job] = "asked"
      BY <2>1, <2>2, <2>5, <3>1 DEF Asked
    <3>6. (\A p \in Acks(d) : Asked(d, down[d][p].job) /\ \A q \in Acks(d) : p = q)'
      BY <3>3, <3>5 DEF Asked
    <3>7. (Len(up[d]) <= 1 /\ up[d] = <<>>)'
      BY <3>4, EmptySeq
    <3>. QED
      BY <3>6, <3>7 DEF OneRequest
  <2>6. CASE d # c
    <3>. DEFINE x == [t |-> "push", job |-> r.job, copy |-> copy]
    <3>1. x \in Answer /\ x.t = "push"
      BY <2>3 DEF Answer
    <3>. HIDE DEF x
    <3>2. Acks(d)' = Acks(d) /\ \A p \in Acks(d) : down'[d][p] = down[d][p]
      <4>1. CASE down'[d] = down[d]
        BY <4>1 DEF Acks
      <4>2. CASE down'[d] = Append(down[d], x)
        BY <1>12, <3>1, <4>2 DEF Acks
      <4>. QED
        BY <2>4, <2>6, <4>1, <4>2 DEF x
    <3>3. up'[d] = up[d]
      BY <2>1, <2>6 DEF TypeOK
    <3>. QED
      BY <2>1, <3>2, <3>3, WireStays
  <2>. QED
    BY <2>5, <2>6
<1>. QED
  BY <1>4, <1>5, <1>7, <1>8, <1>9, <1>10, <1>11, <1>13 DEF Next

-----------------------------------------------------------------------------
(* The values. *)

LEMMA ValueTypes ==
  ASSUME TypeOK
  PROVE  \A v \in Values : v \in Seq(Jobs)
<1>1. row.value \in Seq(Jobs) /\ \A c \in Clients : view[c].value \in Seq(Jobs)
  BY DEF TypeOK, Copy
<1>2. \A r \in Request : r.value \in Seq(Jobs)
  BY DEF Request
<1>3. \A a \in Answer : a.copy.value \in Seq(Jobs)
  BY DEF Answer, Copy
<1>4. ASSUME NEW c \in Clients, NEW r \in ToSet(up[c]) PROVE r.value \in Seq(Jobs)
  BY <1>2, <1>4, ElementOfSeq DEF TypeOK, ToSet
<1>5. ASSUME NEW c \in Clients, NEW a \in ToSet(down[c]) PROVE a.copy.value \in Seq(Jobs)
  <2>1. down[c] \in Seq(Answer)
    BY DEF TypeOK
  <2>2. a \in Answer
    BY <1>5, <2>1, ElementOfSeq DEF ToSet
  <2>. QED
    BY <1>3, <2>2
<1>. SUFFICES ASSUME NEW v \in Values PROVE v \in Seq(Jobs)
  OBVIOUS
<1>6. \/ v = row.value
      \/ \E c \in Clients : v = view[c].value
      \/ \E c \in Clients : \E r \in ToSet(up[c]) : v = r.value
      \/ \E c \in Clients : \E a \in ToSet(down[c]) : v = a.copy.value
  BY DEF Values
<1>. QED
  BY <1>1, <1>4, <1>5, <1>6

(* u is added to a value, by the hub or by the call that asks for it. *)
Adds(w, u) == /\ w \in Values /\ issued' = issued
              /\ u \in Calls => status[u] = "ready" /\ status'[u] = "asked"

NewValue(v) == \/ v \in Values \/ v = <<>>
               \/ \E w \in Seq(Jobs), u \in Jobs : Adds(w, u) /\ v = Append(w, u)

LEMMA WiredValues ==
  ASSUME NEW c \in Clients
  PROVE  /\ row.value \in Values /\ view[c].value \in Values
         /\ \A r \in ToSet(up[c]) : r.value \in Values
         /\ \A a \in ToSet(down[c]) : a.copy.value \in Values
BY DEF Values

LEMMA ValuesFrom ==
  ASSUME NewValue(row'.value), \A c \in Clients : NewValue(view'[c].value),
         \A c \in Clients : \A r \in ToSet(up'[c]) : NewValue(r.value),
         \A c \in Clients : \A a \in ToSet(down'[c]) : NewValue(a.copy.value)
  PROVE  \A v \in Values' : NewValue(v)
BY DEF Values

(* Every value after a step was there before, or is one with one update added. *)
LEMMA ValuesArise ==
  ASSUME TypeOK, Next
  PROVE  \A v \in Values' : NewValue(v)
<1>. USE DEF netVars, lockVars
<1>1. /\ row \in Copy /\ \A c \in Clients : view[c] \in Copy /\ up[c] \in Seq(Request) /\ down[c] \in Seq(Answer)
      /\ \A v \in Values : NewValue(v)
  BY DEF TypeOK, NewValue
<1>2. /\ NewValue(row.value)
      /\ \A c \in Clients : /\ NewValue(view[c].value)
                            /\ \A r \in ToSet(up[c]) : NewValue(r.value)
                            /\ \A a \in ToSet(down[c]) : NewValue(a.copy.value)
  <2>1. row.value \in Values
    BY DEF Values
  <2>. QED
    BY <1>1, <2>1, WiredValues
<1>3. CASE UNCHANGED <<row, view, up, down>>
  BY <1>2, <1>3, ValuesFrom
<1>4. ASSUME NEW j \in Calls, Attempt(j)
      PROVE  \A v \in Values' : NewValue(v)
  <2>. DEFINE c == Owner[j]
  <2>. DEFINE w == view[c].value
  <2>. DEFINE r == [job |-> j, base |-> view[c].version, value |-> Append(w, j)]
  <2>1. c \in Clients /\ j \in Jobs /\ w \in Seq(Jobs) /\ w \in Values
    BY <1>1, OwnerType, WiredValues DEF Copy
  <2>2. status[j] = "ready" /\ status'[j] = "asked" /\ issued' = issued
    BY <1>4, <2>1 DEF Attempt, TypeOK
  <2>. HIDE DEF w
  <2>3. NewValue(r.value)
    <3>1. Adds(w, j) /\ r.value = Append(w, j)
      BY <2>1, <2>2 DEF Adds
    <3>. QED
      BY <2>1, <3>1 DEF NewValue
  <2>4. r \in Request /\ up' = [up EXCEPT ![c] = Append(up[c], r)] /\ UNCHANGED <<row, view, down>>
    <3>1. Append(w, j) \in Seq(Jobs)
      BY <2>1, AppendProperties
    <3>. QED
      BY <1>1, <1>4, <2>1, <3>1 DEF Attempt, Request, Copy, w
  <2>. HIDE DEF r, c
  <2>5. \A d \in Clients : \A x \in ToSet(up'[d]) : x \in ToSet(up[d]) \/ x = r
    BY <1>1, <2>1, <2>4, AppendElements DEF TypeOK
  <2>. QED
    BY <1>2, <2>3, <2>4, <2>5, ValuesFrom
<1>5. ASSUME NEW c \in Clients, CliAck(c) \/ CliPush(c)
      PROVE  \A v \in Values' : NewValue(v)
  <2>. DEFINE a == Head(down[c])
  <2>1. /\ \A d \in Clients : ToSet(down'[d]) \subseteq ToSet(down[d])
        /\ a \in ToSet(down[c]) /\ UNCHANGED <<row, up>>
    <3>1. Arrives(c, {"success", "mismatch", "error"}) \/ Arrives(c, {"push"})
      BY <1>5 DEF CliAck, CliPush
    <3>2. UNCHANGED <<row, up>>
      BY <1>5 DEF CliAck, CliPush
    <3>. QED
      BY <3>1, <3>2, ArrivesElements
  <2>2. Adopt(c, a.copy) \/ view' = view
    BY <1>5 DEF CliAck, CliPush
  <2>. HIDE DEF a
  <2>3. \A d \in Clients : view'[d].value \in {view[d].value, a.copy.value}
    <3>1. CASE Adopt(c, a.copy)
      <4>. DEFINE v == IF a.copy.value \in Unreadable THEN view[c].value ELSE a.copy.value
      <4>1. view' = [view EXCEPT ![c] = [version |-> a.copy.version, value |-> v]] /\ DOMAIN view = Clients
        BY <3>1 DEF Adopt, TypeOK
      <4>2. v \in {view[c].value, a.copy.value}
        OBVIOUS
      <4>. HIDE DEF v
      <4>3. view'[c].value = v /\ \A d \in Clients : d # c => view'[d] = view[d]
        BY <4>1
      <4>. QED
        BY <4>2, <4>3
    <3>2. CASE view' = view
      BY <3>2
    <3>. QED
      BY <2>2, <3>1, <3>2
  <2>. QED
    BY <1>2, <2>1, <2>3, ValuesFrom
<1>6. ASSUME NEW c \in Clients, Drop(c) \/ Restart(c)
      PROVE  \A v \in Values' : NewValue(v)
  <2>1. /\ up' = [up EXCEPT ![c] = <<>>] /\ down' = [down EXCEPT ![c] = <<>>] /\ UNCHANGED row
        /\ ToSet(<<>>) = {}
    BY <1>6, EmptySeq DEF Drop, Restart, ToSet
  <2>2. \A d \in Clients : ToSet(up'[d]) \subseteq ToSet(up[d]) /\ ToSet(down'[d]) \subseteq ToSet(down[d])
    BY <2>1 DEF TypeOK
  <2>3. \A d \in Clients : view'[d].value \in {view[d].value, row.value, <<>>}
    <3>1. CASE Drop(c)
      BY <3>1 DEF Drop
    <3>2. CASE Restart(c)
      BY <3>2 DEF Restart, TypeOK
    <3>. QED
      BY <1>6, <3>1, <3>2
  <2>4. NewValue(<<>>)
    BY DEF NewValue
  <2>. QED
    BY <1>2, <2>1, <2>2, <2>3, <2>4, ValuesFrom
<1>7. ASSUME NEW c \in Clients, HubUpdate(c)
      PROVE  \A v \in Values' : NewValue(v)
  <2>. DEFINE r == Head(up[c])
  <2>1. /\ r \in ToSet(up[c]) /\ r \in Request /\ ToSet(Tail(up[c])) \subseteq ToSet(up[c])
        /\ up' = [up EXCEPT ![c] = Tail(up[c])] /\ UNCHANGED view
    BY <1>1, <1>7, TailElements DEF HubUpdate
  <2>2. \A d \in Clients : ToSet(up'[d]) \subseteq ToSet(up[d])
    BY <2>1 DEF TypeOK
  <2>3. r.job \in Jobs /\ r.value \in Seq(Jobs) /\ NewValue(r.value)
    BY <1>2, <2>1 DEF Request, Jobs, Calls
  <2>. HIDE DEF r
  <2>4. ASSUME NEW d \in Clients, NEW x \in Answer, NewValue(x.copy.value), down'[d] = Append(down[d], x)
        PROVE  \A a \in ToSet(down'[d]) : NewValue(a.copy.value)
    BY <1>1, <1>2, <2>4, AppendElements
  <2>5. CASE Store(r.value) /\ Answers(c, r.job, [version |-> row.version + 1, value |-> r.value])
    <3>. DEFINE copy == [version |-> row.version + 1, value |-> r.value]
    <3>1. copy \in Copy /\ copy.value = r.value /\ row' = copy
      BY <1>1, <2>3, <2>5 DEF Copy, Store
    <3>. HIDE DEF copy
    <3>2. ASSUME NEW t \in {"success", "push"}
          PROVE  /\ [t |-> t, job |-> r.job, copy |-> copy] \in Answer
                 /\ [t |-> t, job |-> r.job, copy |-> copy].copy = copy
      BY <2>3, <3>1, <3>2 DEF Answer
    <3>3. ASSUME NEW d \in Clients
          PROVE  \/ down'[d] = down[d]
                 \/ \E t \in {"success", "push"} :
                      down'[d] = Append(down[d], [t |-> t, job |-> r.job, copy |-> copy])
      BY <2>5, <3>3 DEF Answers, copy
    <3>4. ASSUME NEW d \in Clients
          PROVE  \A a \in ToSet(down'[d]) : NewValue(a.copy.value)
      <4>1. CASE down'[d] = down[d]
        BY <1>2, <3>4, <4>1
      <4>2. ASSUME NEW t \in {"success", "push"},
                   down'[d] = Append(down[d], [t |-> t, job |-> r.job, copy |-> copy])
            PROVE  \A a \in ToSet(down'[d]) : NewValue(a.copy.value)
        <5>. DEFINE x == [t |-> t, job |-> r.job, copy |-> copy]
        <5>1. x \in Answer /\ NewValue(x.copy.value)
          BY <2>3, <3>1, <3>2, <4>2
        <5>2. down'[d] = Append(down[d], x)
          BY <4>2
        <5>. HIDE DEF x
        <5>. QED
          BY <2>4, <3>4, <5>1, <5>2
      <4>. QED
        BY <3>3, <3>4, <4>1, <4>2
    <3>. QED
      BY <1>2, <2>1, <2>2, <2>3, <3>1, <3>4, ValuesFrom
  <2>6. ASSUME NEW t \in {"mismatch", "error"}, Refuses(c, r.job, t), UNCHANGED row
        PROVE  \A v \in Values' : NewValue(v)
    <3>. DEFINE x == [t |-> t, job |-> r.job, copy |-> row]
    <3>1. x \in Answer /\ NewValue(x.copy.value)
      BY <1>1, <1>2, <2>3, <2>6 DEF Answer
    <3>2. down' = [down EXCEPT ![c] = Append(down[c], x)]
      BY <2>6 DEF Refuses
    <3>. HIDE DEF x
    <3>3. \A d \in Clients : \A a \in ToSet(down'[d]) : NewValue(a.copy.value)
      <4>1. \A d \in Clients : down'[d] = IF d = c THEN Append(down[d], x) ELSE down[d]
        BY <3>2 DEF TypeOK
      <4>. QED
        BY <1>2, <2>4, <3>1, <4>1
    <3>. QED
      BY <1>2, <2>1, <2>2, <2>6, <3>3, ValuesFrom
  <2>. QED
    BY <1>7, <2>5, <2>6 DEF HubUpdate, r
<1>8. ASSUME NEW h \in HubUpdates, HubWrite(h)
      PROVE  \A v \in Values' : NewValue(v)
  <2>1. /\ h \in Jobs /\ h \notin Calls /\ row'.value = Append(row.value, h) /\ issued' = issued
        /\ UNCHANGED <<view, up, down>>
    BY <1>8, JobsAssumption DEF HubWrite, Store, Jobs
  <2>2. row.value \in Seq(Jobs) /\ row.value \in Values
    BY <1>1 DEF Copy, Values
  <2>3. NewValue(row'.value)
    BY <2>1, <2>2 DEF NewValue, Adds
  <2>. QED
    BY <1>2, <2>1, <2>3, ValuesFrom
<1>9. ASSUME NEW j \in Calls, Issue(j) \/ Wake(j) \/ FlushReturns(j)
      PROVE  UNCHANGED <<row, view, up, down>>
  BY <1>9 DEF Issue, Wake, FlushReturns
<1>10. ASSUME NEW c \in Clients, Connect(c)
       PROVE  UNCHANGED <<row, view, up, down>>
  BY <1>10 DEF Connect
<1>. QED
  BY <1>3, <1>4, <1>5, <1>6, <1>7, <1>8, <1>9, <1>10 DEF Next

(* No call becomes new or queued again once it is neither. *)
LEMMA CallsGoOn ==
  ASSUME TypeOK, \A c \in Clients : Line(c), Next
  PROVE  \A k \in Calls : status'[k] \in {"new", "queued"} => status[k] \in {"new", "queued"}
<1>. USE DEF netVars, lockVars
<1>0. TypeOK /\ \A c \in Clients : Line(c)
  OBVIOUS
<1>1. \A c \in Clients : waiters[c] # <<>> => Head(waiters[c]) \in Calls
  BY <1>0, TailElements DEF TypeOK
<1>2. \A k \in Calls : k \in Jobs /\ k \notin HubUpdates
  BY JobsAssumption DEF Jobs
<1>3. ASSUME NEW j \in Jobs, NEW c \in Clients, Return(c, j)
      PROVE  \A k \in Calls : status'[k] \in {"new", "queued"} => status[k] \in {"new", "queued"}
  BY <1>0, <1>1, <1>2, <1>3 DEF Return, Unlock, TypeOK
<1>4. ASSUME NEW j \in Calls, Issue(j) \/ Wake(j) \/ Attempt(j) \/ FlushReturns(j)
      PROVE  \A k \in Calls : status'[k] \in {"new", "queued"} => status[k] \in {"new", "queued"}
  <2>1. CASE FlushReturns(j)
    BY <1>2, <1>3, <1>4, <2>1, OwnerType DEF FlushReturns
  <2>2. CASE Issue(j) \/ Wake(j) \/ Attempt(j)
    BY <1>0, <1>2, <2>2 DEF Issue, Lock, Wake, Attempt, TypeOK
  <2>. QED
    BY <1>4, <2>1, <2>2
<1>5. ASSUME NEW c \in Clients, CliAck(c)
      PROVE  \A k \in Calls : status'[k] \in {"new", "queued"} => status[k] \in {"new", "queued"}
  <2>1. Head(down[c]).job \in Jobs
    BY <1>0, <1>5, ArrivesElements DEF CliAck, Answer
  <2>2. CASE Return(c, Head(down[c]).job)
    BY <1>3, <2>1, <2>2
  <2>3. CASE status' = [status EXCEPT ![Head(down[c]).job] = "ready"]
    BY <1>0, <1>2, <2>1, <2>3 DEF TypeOK
  <2>. QED
    BY <1>5, <2>2, <2>3 DEF CliAck
<1>6. ASSUME NEW c \in Clients, CliPush(c) \/ Connect(c) \/ Drop(c) \/ Restart(c) \/ HubUpdate(c)
      PROVE  \A k \in Calls : status'[k] \in {"new", "queued"} => status[k] \in {"new", "queued"}
  BY <1>2, <1>6 DEF CliPush, Connect, Drop, Restart, HubUpdate
<1>7. ASSUME NEW h \in HubUpdates, HubWrite(h)
      PROVE  \A k \in Calls : status'[k] \in {"new", "queued"} => status[k] \in {"new", "queued"}
  BY <1>0, <1>2, <1>7 DEF HubWrite, TypeOK
<1>. QED
  BY <1>4, <1>5, <1>6, <1>7 DEF Next

(* A value with one update added, by the one call that runs or by the hub, is in order if it was. *)
LEMMA AddedInOrder ==
  ASSUME TypeOK, \A c \in Clients : Line(c), NEW w \in Seq(Jobs), NEW u \in Jobs, Adds(w, u),
         WasAsked(w), InOrder(w)
  PROVE  InOrder(Append(w, u))'
<1>. DEFINE v == Append(w, u)
<1>1. /\ Len(v) = Len(w) + 1 /\ v \in Seq(Jobs)
      /\ \A i \in 1..Len(w) : v[i] = w[i]
      /\ v[Len(w) + 1] = u
  BY AppendProperties
<1>2. DOMAIN w = 1..Len(w) /\ DOMAIN v = 1..(Len(w) + 1) /\ Len(w) \in Nat
  BY <1>1, LenProperties
<1>. HIDE DEF v
<1>. SUFFICES ASSUME NEW c \in Clients, NEW k \in Calls, NEW j \in Calls, Precedes(issued[c], k, j),
                     NEW a \in DOMAIN v, NEW b \in DOMAIN v, v[a] = k, v[b] = j
              PROVE  a < b
  <2>1. issued' = issued
    BY DEF Adds
  <2>. QED
    BY <2>1 DEF InOrder, Precedes, v
<1>3. k # j /\ k \in Of(c) /\ j \in Of(c)
  BY BeforeFacts
<1>4. a \in 1..(Len(w) + 1) /\ b \in 1..(Len(w) + 1)
  BY <1>2
<1>5. CASE a = Len(w) + 1
  <2>1. k = u /\ b \in 1..Len(w)
    BY <1>1, <1>2, <1>3, <1>4, <1>5
  <2>2. j \in ToSet(w)
    BY <1>1, <1>2, <2>1 DEF ToSet
  <2>3. status[j] # "queued"
    BY <2>2 DEF WasAsked
  <2>4. status[k] \in {"done", "lost"}
    BY <1>3, <2>3 DEF Line, EarlierSettled
  <2>. QED
    BY <2>1, <2>4 DEF Adds
<1>6. CASE b = Len(w) + 1 /\ a # b
  BY <1>2, <1>4, <1>6
<1>7. CASE a \in 1..Len(w) /\ b \in 1..Len(w)
  BY <1>1, <1>2, <1>7 DEF InOrder
<1>. QED
  BY <1>2, <1>4, <1>5, <1>6, <1>7

LEMMA ValuesStep ==
  ASSUME Locked, ColumnInv, OrderInv, Next
  PROVE  \A v \in Values' : WasAsked(v)' /\ InOrder(v)'
<1>1. /\ TypeOK /\ \A c \in Clients : Line(c)
      /\ \A v \in Values : v \in Seq(Jobs) /\ WasAsked(v) /\ InOrder(v)
  BY ValueTypes DEF ColumnInv, OrderInv
<1>2. ASSUME NEW v \in Values
      PROVE  WasAsked(v)' /\ InOrder(v)'
  <2>1. WasAsked(v)'
    BY <1>1, <1>2, CallsGoOn DEF WasAsked
  <2>2. \A b \in DOMAIN v : v[b] \in ToSet(v)
    BY DEF ToSet
  <2>3. ASSUME NEW c \in Clients, NEW k \in Calls, NEW j \in Calls, Precedes(issued[c], k, j)', j \in ToSet(v)
        PROVE  Precedes(issued[c], k, j)
    <3>1. CASE UNCHANGED issued
      BY <2>3, <3>1 DEF Precedes
    <3>2. CASE \E x \in Calls : Issue(x)
      <4>1. PICK x \in Calls : Issue(x)
        BY <3>2
      <4>2. x # j
        BY <1>1, <1>2, <2>3, <4>1 DEF Issue, WasAsked
      <4>3. issued'[c] = issued[c] \/ issued'[c] = Append(issued[c], x)
        BY <1>1, <2>3, <4>1, OwnerType DEF Issue, TypeOK
      <4>4. issued[c] \in Seq(Calls) /\ Precedes(issued'[c], k, j)
        BY <1>1, <2>3 DEF TypeOK, Precedes
      <4>5. issued'[c] = Append(issued[c], x) => Precedes(issued[c], k, j) \/ j = x
        BY <4>1, <4>4, PrecedesAppend
      <4>. QED
        BY <4>2, <4>3, <4>4, <4>5
    <3>3. UNCHANGED issued \/ \E x \in Calls : Issue(x)
      BY DEF Next, Wake, Attempt, FlushReturns, CliAck, CliPush, Connect, Drop, Restart, HubUpdate, HubWrite
    <3>. QED
      BY <3>1, <3>2, <3>3
  <2>4. InOrder(v)'
    BY <1>1, <1>2, <2>2, <2>3 DEF InOrder
  <2>. QED
    BY <2>1, <2>4
<1>3. WasAsked(<<>>)' /\ InOrder(<<>>)'
  <2>1. ToSet(<<>>) = {} /\ DOMAIN <<>> = {}
    BY EmptySeq DEF ToSet
  <2>. QED
    BY <2>1 DEF WasAsked, InOrder
<1>4. ASSUME NEW w \in Seq(Jobs), NEW u \in Jobs, Adds(w, u)
      PROVE  WasAsked(Append(w, u))' /\ InOrder(Append(w, u))'
  <2>1. WasAsked(w)' /\ WasAsked(w) /\ InOrder(w)
    BY <1>1, <1>2, <1>4 DEF Adds
  <2>2. ToSet(Append(w, u)) = ToSet(w) \cup {u}
    BY <1>4, AppendElements
  <2>3. WasAsked(Append(w, u))'
    BY <1>4, <2>1, <2>2 DEF WasAsked, Adds
  <2>4. InOrder(Append(w, u))'
    BY <1>1, <1>4, <2>1, AddedInOrder
  <2>. QED
    BY <2>3, <2>4
<1>. QED
  BY <1>1, <1>2, <1>3, <1>4, ValuesArise DEF NewValue

LEMMA OrderInit == Init => OrderInv
<1>. SUFFICES ASSUME Init PROVE OrderInv
  OBVIOUS
<1>1. DOMAIN <<>> = {} /\ ToSet(<<>>) = {} /\ Len(<<>>) = 0
  BY EmptySeq DEF ToSet
<1>2. \A j \in Calls : status[j] = "new"
  BY DEF Init, Jobs
<1>3. row.value = <<>>
  BY DEF Init, Fresh
<1>4. ASSUME NEW c \in Clients PROVE Line(c) /\ OneRequest(c)
  <2>1. /\ issued[c] = <<>> /\ waiters[c] = <<>> /\ permits[c] = 1
        /\ up[c] = <<>> /\ down[c] = <<>>
    BY <1>4 DEF Init
  <2>2. \A j \in Of(c) : status[j] = "new"
    BY <1>2 DEF Of
  <2>3. Running(c) = {} /\ Acks(c) = {}
    BY <1>1, <2>1, <2>2 DEF Running, Inside, Acks
  <2>4. IssuedOwn(c) /\ LockHeld(c) /\ QueuedWait(c) /\ WaitersInOrder(c) /\ IsInjective(issued[c])
    BY <1>1, <2>1, <2>2, <2>3 DEF IssuedOwn, LockHeld, QueuedWait, WaitersInOrder, IsInjective
  <2>5. EarlierSettled(c)
    BY <1>1, <2>1 DEF EarlierSettled, Precedes
  <2>6. OneRequest(c)
    BY <1>1, <2>1, <2>3 DEF OneRequest
  <2>. QED
    BY <2>4, <2>5, <2>6 DEF Line
<1>5. \A v \in Values : v = <<>>
  BY <1>1 DEF Init, Fresh, Values
<1>. QED
  BY <1>1, <1>4, <1>5 DEF OrderInv, WasAsked, InOrder

LEMMA OrderNext ==
  ASSUME Locked, ColumnInv, OrderInv, [Next]_vars
  PROVE  OrderInv'
<1>1. TypeOK
  BY DEF ColumnInv
<1>2. CASE Next
  BY <1>1, <1>2, LineStep, WireStep, ValuesStep DEF OrderInv
<1>3. CASE UNCHANGED vars
  <2>. USE <1>3 DEF vars, netVars, lockVars
  <2>1. \A c \in Clients : Line(c)'
    BY <1>1, LineStays DEF OrderInv
  <2>2. \A c \in Clients : OneRequest(c)'
    BY DEF OrderInv, OneRequest, Asked, Acks
  <2>3. \A v \in Values' : WasAsked(v)' /\ InOrder(v)'
    BY DEF OrderInv, Values, WasAsked, InOrder, Precedes
  <2>. QED
    BY <2>1, <2>2, <2>3 DEF OrderInv
<1>. QED
  BY <1>2, <1>3

LEMMA OrderHolds ==
  ASSUME Locked, ColumnInv, OrderInv
  PROVE  AppliedInOrder
<1>1. TypeOK /\ NoLostUpdate /\ \A c \in Clients : Line(c)
  BY DEF ColumnInv, OrderInv
<1>2. ASSUME NEW c \in Clients, NEW i \in DOMAIN issued[c], NEW j \in DOMAIN issued[c], i < j
      PROVE  /\ Precedes(issued[c], issued[c][i], issued[c][j])
             /\ issued[c][i] \in Of(c) /\ issued[c][j] \in Of(c)
  BY <1>1, <1>2, BeforeFacts DEF Precedes
<1>3. \A c \in Clients : Of(c) \subseteq Calls /\ Of(c) \subseteq Jobs
  BY DEF Of, Jobs
<1>4. LockIsExclusive
  <2>. SUFFICES ASSUME NEW c \in Clients
                PROVE  /\ waiters[c] # <<>> => permits[c] = 0
                       /\ permits[c] + Cardinality(Running(c)) = 1
    BY DEF LockIsExclusive, Running
  <2>1. CASE permits[c] = 1 /\ waiters[c] = <<>> /\ Running(c) = {}
    BY <2>1, FS_EmptySet
  <2>2. CASE permits[c] = 0 /\ \E j \in Of(c) : Running(c) = {j}
    BY <2>2, FS_Singleton
  <2>. QED
    BY <1>1, <2>1, <2>2 DEF Line, LockHeld
<1>5. FlushedIsStored
  <2>. SUFFICES ASSUME NEW c \in Clients, NEW i \in DOMAIN issued[c], NEW j \in DOMAIN issued[c],
                       i < j, status[issued[c][j]] = "done",
                       issued[c][i] \in Updates, status[issued[c][i]] # "lost"
                PROVE  issued[c][i] \in Kept
    BY DEF FlushedIsStored
  <2>1. status[issued[c][i]] = "done"
    BY <1>1, <1>2 DEF Line, EarlierSettled
  <2>. QED
    BY <1>1, <2>1 DEF NoLostUpdate
<1>6. \A c \in Clients : \A i, j \in DOMAIN issued[c] : i < j =>
        \A a, b \in DOMAIN row.value :
          row.value[a] = issued[c][i] /\ row.value[b] = issued[c][j] => a < b
  <2>. SUFFICES ASSUME NEW c \in Clients, NEW i \in DOMAIN issued[c], NEW j \in DOMAIN issued[c], i < j,
                       NEW a \in DOMAIN row.value, NEW b \in DOMAIN row.value,
                       row.value[a] = issued[c][i], row.value[b] = issued[c][j]
                PROVE  a < b
    OBVIOUS
  <2>. QED
    BY <1>2, <1>3 DEF OrderInv, InOrder, Values
<1>. QED
  BY <1>1, <1>4, <1>5, <1>6 DEF AppliedInOrder

(* Behind the lock a process's updates take effect one at a time and in the    *)
(* order of its calls, and a flush that returned has all before it stored: for *)
(* every number of processes that write the column, of updates and of faults,  *)
(* whether or not broadcasts that are not newer are ignored.                   *)
THEOREM LockedIsInOrder ==
  ASSUME Locked
  PROVE  Spec => []AppliedInOrder
<1>1. Init => ColumnInv /\ OrderInv
  BY ColumnInit, OrderInit
<1>2. (ColumnInv /\ OrderInv) /\ [Next]_vars => (ColumnInv /\ OrderInv)'
  BY ColumnNext, OrderNext
<1>3. ColumnInv /\ OrderInv => AppliedInOrder
  BY OrderHolds
<1>. QED
  BY <1>1, <1>2, <1>3, PTL DEF Spec
=============================================================================
