--------------------------- MODULE VersionedField ---------------------------
(***************************************************************************)
(* One versioned column of the hub's database (a session's metadata or     *)
(* agent_state, a machine's metadata or runner_state) and its writers: the *)
(* CLI processes that change it through update-metadata, update-state and  *)
(* their machine-scoped twins, and the hub's own code.  A CLI computes the *)
(* new value from its copy and names the version it was computed from; the *)
(* hub stores it only if that is still the row's version; a refused or     *)
(* lost request is computed again and retried without end.                 *)
(*                                                                         *)
(* A session's client issues its updates through an AsyncLock and adopts a *)
(* broadcast value only when it is newer; a machine's client does neither. *)
(* A value is the sequence of the updates that are folded into it.  The    *)
(* hub stores any value; a client whose schema refuses the one it is sent  *)
(* keeps the value it had and adopts the new version all the same, so that *)
(* version and value may travel apart.                                     *)
(***************************************************************************)
EXTENDS Naturals, Sequences, FiniteSets, SequencesExt

CONSTANTS
  Clients,    \* CLI processes that write the column
  Updates,    \* calls of updateMetadata and its likes, by the clients
  Flushes,    \* calls of flushMetadata
  HubUpdates, \* changes the hub makes itself
  Owner,      \* the client that makes the call
  Locked,     \* whether the client's updates go through an AsyncLock
  NewerOnly,  \* whether a client ignores a broadcast that is not newer
  Unreadable, \* the values that do not parse with the clients' schema
  Limit       \* bound: how often each of Faults may happen

Calls == Updates \cup Flushes
Jobs  == Calls \cup HubUpdates
Faults == {"drop", "error", "restart"}

ASSUME JobsAssumption ==
  /\ Updates \cap Flushes = {} /\ Calls \cap HubUpdates = {}
  /\ Owner \in [Calls -> Clients]
ASSUME ModeAssumption == Locked \in BOOLEAN /\ NewerOnly \in BOOLEAN /\ (Flushes # {} => Locked)
ASSUME LimitAssumption == Limit \in [Faults -> Nat]

VARIABLES
  row,        \* the column and its version
  view,       \* each client's copy of both
  connected, up, down,
  status,     \* where each call stands
  permits, waiters,  \* each client's AsyncLock
  issued,     \* history: the order in which each client made its calls
  overwritten, \* history: what went when a value no client can read was replaced
  spent       \* how often each of Faults has happened

netVars  == <<connected, up, down>>
lockVars == <<permits, waiters>>
vars     == <<row, view, netVars, status, lockVars, issued, overwritten, spent>>

Copy    == [version : Nat, value : Seq(Jobs)]
Request == [job : Updates, base : Nat, value : Seq(Jobs)]
Answer  == [t : {"push", "success", "mismatch", "error"}, job : Jobs, copy : Copy]

Of(c) == {j \in Calls : Owner[j] = c}

(* inside inLock: waiting for the resolver, running, or awaiting an answer *)
Inside == {"woken", "ready", "asked"}

Spend(f) == /\ spent[f] < Limit[f]
            /\ spent' = [spent EXCEPT ![f] = @ + 1]

-----------------------------------------------------------------------------
(* AsyncLock *)

Lock(c, j) ==
  \/ /\ permits[c] > 0
     /\ permits' = [permits EXCEPT ![c] = @ - 1]
     /\ status' = [status EXCEPT ![j] = "ready"]
     /\ UNCHANGED waiters
  \/ /\ permits[c] = 0
     /\ waiters' = [waiters EXCEPT ![c] = Append(@, j)]
     /\ status' = [status EXCEPT ![j] = "queued"]
     /\ UNCHANGED permits

(* mutant: the permit is free again while the next waiter is being woken *)
MutUnlock(c, j) ==
  /\ permits' = [permits EXCEPT ![c] = 1]
  /\ \/ /\ waiters[c] # <<>>
        /\ status' = [status EXCEPT ![j] = "done", ![Head(waiters[c])] = "woken"]
        /\ waiters' = [waiters EXCEPT ![c] = Tail(@)]
     \/ /\ waiters[c] = <<>>
        /\ status' = [status EXCEPT ![j] = "done"]
        /\ UNCHANGED waiters

(* j's function returns: the next waiter takes the permit over *)
Unlock(c, j) ==
  \/ /\ waiters[c] # <<>>
     /\ status' = [status EXCEPT ![j] = "done", ![Head(waiters[c])] = "woken"]
     /\ waiters' = [waiters EXCEPT ![c] = Tail(@)]
     /\ UNCHANGED permits
  \/ /\ waiters[c] = <<>>
     /\ permits' = [permits EXCEPT ![c] = @ + 1]
     /\ status' = [status EXCEPT ![j] = "done"]
     /\ UNCHANGED waiters

Return(c, j) ==
  IF Locked THEN Unlock(c, j)
            ELSE status' = [status EXCEPT ![j] = "done"] /\ UNCHANGED lockVars

-----------------------------------------------------------------------------
(* The CLI process *)

(* updateMetadata, updateAgentState, updateRunnerState, flushMetadata are called *)
Issue(j) ==
  LET c == Owner[j] IN
  /\ status[j] = "new"
  /\ IF Locked THEN Lock(c, j)
               ELSE status' = [status EXCEPT ![j] = "ready"] /\ UNCHANGED lockVars
  /\ issued' = [issued EXCEPT ![c] = Append(@, j)]
  /\ UNCHANGED <<row, view, netVars, overwritten, spent>>

(* the resolver that unlock put on the next tick *)
Wake(j) ==
  /\ status[j] = "woken"
  /\ status' = [status EXCEPT ![j] = "ready"]
  /\ UNCHANGED <<row, view, netVars, lockVars, issued, overwritten, spent>>

(* one turn of the backoff loop up to its await; buffered while disconnected *)
Attempt(j) ==
  LET c == Owner[j] IN
  /\ j \in Updates /\ status[j] = "ready"
  /\ status' = [status EXCEPT ![j] = "asked"]
  /\ up' = [up EXCEPT ![c] = Append(@, [job |-> j, base |-> view[c].version,
                                        value |-> Append(view[c].value, j)])]
  /\ UNCHANGED <<row, view, connected, down, lockVars, issued, overwritten, spent>>

(* drainLock: an empty function under the lock *)
FlushReturns(j) ==
  /\ j \in Flushes /\ status[j] = "ready"
  /\ Return(Owner[j], j)
  /\ UNCHANGED <<row, view, netVars, issued, overwritten, spent>>

Arrives(c, types) ==
  /\ down[c] # <<>> /\ Head(down[c]).t \in types
  /\ down' = [down EXCEPT ![c] = Tail(@)]

(* parseValue and applyValue, then applyVersion: a value that does not parse is left out *)
Adopt(c, copy) ==
  view' = [view EXCEPT ![c] = [version |-> copy.version,
                               value |-> IF copy.value \in Unreadable THEN @.value ELSE copy.value]]

(* mutant: the ack of a refused update leaves the client's copy as it is *)
MutCliAck(c) ==
  /\ Arrives(c, {"success", "mismatch", "error"})
  /\ LET a == Head(down[c]) IN
     \/ /\ a.t = "success"
        /\ Adopt(c, a.copy)
        /\ Return(c, a.job)
     \/ /\ a.t # "success"
        /\ status' = [status EXCEPT ![a.job] = "ready"]
        /\ UNCHANGED <<view, lockVars>>
  /\ UNCHANGED <<row, connected, up, issued, overwritten, spent>>

(* mutant: a refused update takes the version over but never the value *)
MutVersionOnly(c) ==
  /\ Arrives(c, {"success", "mismatch", "error"})
  /\ LET a == Head(down[c]) IN
     \/ /\ a.t = "success"
        /\ Adopt(c, a.copy)
        /\ Return(c, a.job)
     \/ /\ a.t # "success"
        /\ status' = [status EXCEPT ![a.job] = "ready"]
        /\ view' = IF a.t = "mismatch" THEN [view EXCEPT ![c].version = a.copy.version] ELSE view
        /\ UNCHANGED lockVars
  /\ UNCHANGED <<row, connected, up, issued, overwritten, spent>>

(* applyVersionedAck: the copy follows the hub; all but success throws, and backoff retries *)
CliAck(c) ==
  /\ Arrives(c, {"success", "mismatch", "error"})
  /\ LET a == Head(down[c]) IN
     \/ /\ a.t = "success"
        /\ Adopt(c, a.copy)
        /\ Return(c, a.job)
     \/ /\ a.t = "mismatch"
        /\ Adopt(c, a.copy)
        /\ status' = [status EXCEPT ![a.job] = "ready"]
        /\ UNCHANGED lockVars
     \/ /\ a.t = "error"
        /\ status' = [status EXCEPT ![a.job] = "ready"]
        /\ UNCHANGED <<view, lockVars>>
  /\ UNCHANGED <<row, connected, up, issued, overwritten, spent>>

(* 'update' with an update-session or update-machine body *)
CliPush(c) ==
  /\ Arrives(c, {"push"})
  /\ LET copy == Head(down[c]).copy IN
     IF NewerOnly /\ copy.version <= view[c].version THEN UNCHANGED view ELSE Adopt(c, copy)
  /\ UNCHANGED <<row, connected, up, status, lockVars, issued, overwritten, spent>>

Connect(c) ==
  /\ ~connected[c]
  /\ connected' = [connected EXCEPT ![c] = TRUE]
  /\ UNCHANGED <<row, view, up, down, status, lockVars, issued, overwritten, spent>>

(* the socket drops: both directions are lost, the awaited acks are rejected *)
Drop(c) ==
  /\ connected[c] /\ Spend("drop")
  /\ connected' = [connected EXCEPT ![c] = FALSE]
  /\ up' = [up EXCEPT ![c] = <<>>] /\ down' = [down EXCEPT ![c] = <<>>]
  /\ status' = [j \in Jobs |-> IF j \in Of(c) /\ status[j] = "asked" THEN "ready" ELSE status[j]]
  /\ UNCHANGED <<row, view, lockVars, issued, overwritten>>

(* a new CLI process takes over: it starts from the row the hub answers it with, *)
(* or from nothing if that does not parse                                        *)
Restart(c) ==
  /\ Spend("restart")
  /\ view' = [view EXCEPT ![c] = [version |-> row.version,
                 value |-> IF row.value \in Unreadable THEN <<>> ELSE row.value]]
  /\ connected' = [connected EXCEPT ![c] = FALSE]
  /\ up' = [up EXCEPT ![c] = <<>>] /\ down' = [down EXCEPT ![c] = <<>>]
  /\ status' = [j \in Jobs |-> IF j \in Of(c) /\ status[j] \in Inside \cup {"queued"}
                               THEN "lost" ELSE status[j]]
  /\ permits' = [permits EXCEPT ![c] = 1] /\ waiters' = [waiters EXCEPT ![c] = <<>>]
  /\ UNCHANGED <<row, issued, overwritten>>

-----------------------------------------------------------------------------
(* The hub *)

(* updateVersionedField with the version it is given: UPDATE ... WHERE version = expected *)
Store(value) == row' = [version |-> row.version + 1, value |-> value]

(* what the value in place is taken out of the column with *)
Tramples(value) ==
  overwritten' = IF row.value \in Unreadable THEN overwritten \cup (ToSet(row.value) \ ToSet(value))
                                             ELSE overwritten

(* the ack to the writer, the broadcast to the others in the room *)
Answers(c, j, copy) ==
  down' = [d \in Clients |->
             IF d = c THEN Append(down[d], [t |-> "success", job |-> j, copy |-> copy])
             ELSE IF connected[d] THEN Append(down[d], [t |-> "push", job |-> j, copy |-> copy])
             ELSE down[d]]

Refuses(c, j, type) ==
  down' = [down EXCEPT ![c] = Append(@, [t |-> type, job |-> j, copy |-> row])]

(* mutant: the version is not compared *)
MutHubUpdate(c) ==
  /\ connected[c] /\ up[c] # <<>>
  /\ up' = [up EXCEPT ![c] = Tail(@)]
  /\ LET r == Head(up[c]) IN
     /\ Store(r.value) /\ Tramples(r.value)
     /\ Answers(c, r.job, [version |-> row.version + 1, value |-> r.value])
  /\ UNCHANGED <<view, connected, status, lockVars, issued, spent>>

(* update-metadata, update-state, machine-update-metadata, machine-update-state *)
HubUpdate(c) ==
  /\ connected[c] /\ up[c] # <<>>
  /\ up' = [up EXCEPT ![c] = Tail(@)]
  /\ LET r == Head(up[c]) IN
     \/ /\ r.base = row.version
        /\ Store(r.value) /\ Tramples(r.value)
        /\ Answers(c, r.job, [version |-> row.version + 1, value |-> r.value])
        /\ UNCHANGED spent
     \/ /\ r.base # row.version
        /\ Refuses(c, r.job, "mismatch")
        /\ UNCHANGED <<row, overwritten, spent>>
     \/ /\ Spend("error")
        /\ Refuses(c, r.job, "error")
        /\ UNCHANGED <<row, overwritten>>
  /\ UNCHANGED <<view, connected, status, lockVars, issued>>

(* a change of the hub's own, read and written in one turn; no client is told *)
HubWrite(h) ==
  /\ status[h] = "new"
  /\ Store(Append(row.value, h))
  /\ status' = [status EXCEPT ![h] = "done"]
  /\ UNCHANGED <<view, netVars, lockVars, issued, overwritten, spent>>

-----------------------------------------------------------------------------
Fresh == [version |-> 1, value |-> <<>>]

Init ==
  /\ row = Fresh /\ view = [c \in Clients |-> Fresh]
  /\ connected = [c \in Clients |-> FALSE]
  /\ up = [c \in Clients |-> <<>>] /\ down = [c \in Clients |-> <<>>]
  /\ status = [j \in Jobs |-> "new"]
  /\ permits = [c \in Clients |-> 1] /\ waiters = [c \in Clients |-> <<>>]
  /\ issued = [c \in Clients |-> <<>>] /\ overwritten = {}
  /\ spent = [f \in Faults |-> 0]

Next ==
  \/ \E j \in Calls : Issue(j) \/ Wake(j) \/ Attempt(j) \/ FlushReturns(j)
  \/ \E c \in Clients : \/ CliAck(c) \/ CliPush(c) \/ Connect(c) \/ Drop(c) \/ Restart(c)
                        \/ HubUpdate(c)
  \/ \E h \in HubUpdates : HubWrite(h)

Spec == Init /\ [][Next]_vars

(* What the event loops, the backoff timers and socket.io's reconnection guarantee. *)
Fairness ==
  /\ \A j \in Calls : WF_vars(Wake(j)) /\ WF_vars(Attempt(j)) /\ WF_vars(FlushReturns(j))
  /\ \A c \in Clients : /\ WF_vars(CliAck(c)) /\ WF_vars(CliPush(c)) /\ WF_vars(Connect(c))
                        /\ WF_vars(HubUpdate(c))

FairSpec == Spec /\ Fairness
-----------------------------------------------------------------------------
(* The types of the variables. *)
TypeOK ==
  /\ row \in Copy /\ view \in [Clients -> Copy]
  /\ connected \in [Clients -> BOOLEAN]
  /\ up \in [Clients -> Seq(Request)] /\ down \in [Clients -> Seq(Answer)]
  /\ status \in [Jobs -> Inside \cup {"new", "queued", "done", "lost"}]
  /\ permits \in [Clients -> Nat] /\ waiters \in [Clients -> Seq(Calls)]
  /\ issued \in [Clients -> Seq(Calls)] /\ overwritten \subseteq Jobs
  /\ spent \in [Faults -> Nat]

(* A change whose call has returned is in the row for good, however many       *)
(* writers raced it, whichever answers were lost and whoever wrote later.  The  *)
(* only way out of the row is with a value the writer could not read: it writes *)
(* over that one what it makes of the last value it did read.                   *)
Kept == ToSet(row.value) \cup overwritten
NoLostUpdate == \A u \in Updates : status[u] = "done" => u \in Kept

(* Whoever believes to hold the row's current version holds its current value,  *)
(* unless the row holds one that no client can read: what makes comparing the   *)
(* version alone enough, and the one case in which it is not.                   *)
UpToDate(copy) ==
  /\ copy.version <= row.version
  /\ copy.version = row.version => copy.value = row.value \/ row.value \in Unreadable
CurrentCopyIsCurrent == \A c \in Clients : UpToDate(view[c])

(* One function at most runs under a client's lock, a waiter being woken       *)
(* included, and "permits should never be > 0 when there is someone waiting".  *)
LockIsExclusive ==
  \A c \in Clients : Locked =>
    /\ waiters[c] # <<>> => permits[c] = 0
    /\ permits[c] + Cardinality({j \in Of(c) : status[j] \in Inside}) = 1

(* flushMetadata returned: every earlier update of the process was stored. *)
FlushedIsStored ==
  \A c \in Clients : \A i, j \in DOMAIN issued[c] :
    (i < j /\ issued[c][j] \in Flushes /\ status[issued[c][j]] = "done"
       /\ issued[c][i] \in Updates /\ status[issued[c][i]] # "lost")
    => issued[c][i] \in Kept

(* A session's updates take effect one at a time and in the order of the       *)
(* calls, retries included, and a flush that returned has all before it.       *)
AppliedInOrder ==
  /\ TypeOK
  /\ LockIsExclusive
  /\ FlushedIsStored
  /\ \A c \in Clients : \A i, j \in DOMAIN issued[c] : i < j =>
       \A a, b \in DOMAIN row.value :
         row.value[a] = issued[c][i] /\ row.value[b] = issued[c][j] => a < b

(* The column is a log of updates: none is taken out, overwritten or forgotten, *)
(* but for what a writer replaces because it cannot read it.                    *)
Column == INSTANCE UpdateLog WITH log <- row.value
ColumnIsLog == Column!Spec

(* Every call returns, unless its process is replaced first. *)
EveryCallReturns ==
  \A j \in Calls : status[j] \in Inside \cup {"queued"} ~> status[j] \in {"done", "lost"}
=============================================================================
