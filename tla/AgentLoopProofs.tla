--------------------------- MODULE AgentLoopProofs ---------------------------
(***************************************************************************)
(* Three theorems about the process of a session, for any prompts,         *)
(* requests and troubles: what an active session waits for is announced;   *)
(* where the loop looks at the signal it waited on, the remote launcher is *)
(* left only because somebody asked for it; and what the agent waits on,   *)
(* what is pending and what the hub will show of it agree.                 *)
(***************************************************************************)
EXTENDS AgentLoop, SequencesExt, SequenceTheorems, FiniteSetTheorems, TLAPS

-----------------------------------------------------------------------------
(* The elements of a queue or channel after the operations on it. *)

LEMMA AppendElements ==
  ASSUME NEW S, NEW s \in Seq(S), NEW e \in S
  PROVE  /\ Append(s, e) \in Seq(S)
         /\ ToSet(Append(s, e)) = ToSet(s) \cup {e}
<1>1. Append(s, e) = s \o <<e>> /\ Append(s, e) \in Seq(S) /\ <<e>> \in Seq(S)
  BY AppendIsConcat, AppendProperties
<1>2. Range(<<e>>) = {e}
  BY DEF Range
<1>. QED
  BY <1>1, <1>2, RangeConcatenation DEF ToSet, Range

LEMMA TailElements ==
  ASSUME NEW S, NEW s \in Seq(S), s # <<>>
  PROVE  /\ Head(s) \in S /\ Head(s) \in ToSet(s)
         /\ Tail(s) \in Seq(S)
         /\ ToSet(Tail(s)) \subseteq ToSet(s)
<1>1. /\ DOMAIN s = 1..Len(s) /\ Len(s) \in Nat \ {0} /\ Head(s) = s[1] /\ Head(s) \in S
      /\ Tail(s) \in Seq(S) /\ DOMAIN Tail(s) = 1..Len(Tail(s)) /\ Len(Tail(s)) = Len(s) - 1
      /\ \A i \in 1..Len(Tail(s)) : Tail(s)[i] = s[i + 1]
  BY HeadTailProperties, LenProperties, EmptySeq
<1>2. 1 \in 1..Len(s) /\ \A i \in 1..Len(Tail(s)) : i + 1 \in 1..Len(s)
  BY <1>1
<1>. QED
  BY <1>1, <1>2 DEF ToSet

LEMMA ConcatElements ==
  ASSUME NEW S, NEW s \in Seq(S), NEW t \in Seq(S)
  PROVE  /\ s \o t \in Seq(S)
         /\ ToSet(s \o t) = ToSet(s) \cup ToSet(t)
<1>1. s \o t \in Seq(S)
  BY ConcatProperties
<1>2. Range(s \o t) = Range(s) \cup Range(t)
  BY RangeConcatenation
<1>. QED
  BY <1>1, <1>2 DEF ToSet, Range

LEMMA SubSeqElements ==
  ASSUME NEW S, NEW s \in Seq(S), NEW a \in Nat \ {0}, NEW b \in Nat, b <= Len(s)
  PROVE  /\ SubSeq(s, a, b) \in Seq(S)
         /\ ToSet(SubSeq(s, a, b)) \subseteq ToSet(s)
<1>1. Len(s) \in Nat /\ DOMAIN s = 1..Len(s)
  BY LenProperties
<1>2. CASE a <= b
  <2>1. /\ SubSeq(s, a, b) \in Seq(S)
        /\ Len(SubSeq(s, a, b)) = b - a + 1
        /\ \A i \in 1..(b - a + 1) : SubSeq(s, a, b)[i] = s[a + i - 1]
    BY <1>1, <1>2, SubSeqProperties
  <2>2. DOMAIN SubSeq(s, a, b) = 1..(b - a + 1)
    BY <2>1, LenProperties
  <2>3. \A i \in 1..(b - a + 1) : a + i - 1 \in 1..Len(s)
    BY <1>1, <1>2
  <2>. QED
    BY <1>1, <2>1, <2>2, <2>3 DEF ToSet
<1>3. CASE ~(a <= b)
  <2>1. SubSeq(s, a, b) = <<>>
    BY <1>3, SubSeqEmpty
  <2>. QED
    BY <2>1, EmptySeq DEF ToSet
<1>. QED
  BY <1>2, <1>3

LEMMA RemoveAtElements ==
  ASSUME NEW S, NEW s \in Seq(S), NEW i \in DOMAIN s
  PROVE  /\ RemoveAt(s, i) \in Seq(S)
         /\ ToSet(RemoveAt(s, i)) \subseteq ToSet(s)
<1>1. i \in 1..Len(s) /\ Len(s) \in Nat
  BY LenProperties
<1>2. i - 1 \in Nat /\ i - 1 <= Len(s) /\ i + 1 \in Nat \ {0}
  BY <1>1
<1>3. /\ SubSeq(s, 1, i - 1) \in Seq(S)
      /\ ToSet(SubSeq(s, 1, i - 1)) \subseteq ToSet(s)
  BY <1>1, <1>2, SubSeqElements
<1>4. /\ SubSeq(s, i + 1, Len(s)) \in Seq(S)
      /\ ToSet(SubSeq(s, i + 1, Len(s))) \subseteq ToSet(s)
  BY <1>1, <1>2, SubSeqElements
<1>5. \A a, b \in Seq(S) : a \o b \in Seq(S) /\ ToSet(a \o b) = ToSet(a) \cup ToSet(b)
  BY ConcatElements
<1>. QED
  BY <1>3, <1>4, <1>5 DEF RemoveAt

-----------------------------------------------------------------------------
(* What is known of the requests, apart from what the hub shows of them: an *)
(* active session's are known as they are shown, an inactive one's are      *)
(* forgotten, and what is known is announced or about to be.                *)
NoticeInv ==
  /\ active \in BOOLEAN
  /\ active => known = shown
  /\ ~active => known = {}
  /\ timer \/ known \subseteq noticed

(* A request that appears, one that is answered, a session that comes and   *)
(* goes: the check the notifications make of the new state keeps what is    *)
(* known announced or about to be.                                          *)
LEMMA CheckKeepsNotice ==
  ASSUME NoticeInv, NEW isActive \in BOOLEAN, Checked(shown', isActive),
         active' = isActive, noticed' = noticed
  PROVE  NoticeInv'
  BY DEF NoticeInv, Checked

(* What the notifications look at is left alone by the steps of the user,   *)
(* the process and the agent.                                               *)
LEMMA HubLeftAlone ==
  ASSUME [Next]_vars, ~Hub, ~Crash
  PROVE  UNCHANGED <<shown, active, known, timer, noticed>>
<1>1. CASE User
  BY <1>1 DEF User, Send, CancelPrompt, Abort, Switch, ExitFromUi, Answer, Passed, hub
<1>2. CASE Process
  BY <1>2 DEF Process, Receive, SetUp, Top, Resumed, StartPrompt, PromptDone, TurnOver,
              Leave, RunLocal, LocalEnds, HandlePermissionRequest, Stay, hub
<1>3. CASE Agent
  BY <1>3 DEF Agent, AgentReads, AgentEndsTurn, AgentAsks, hub
<1>4. CASE UNCHANGED vars
  BY <1>4 DEF vars, hub
<1>. QED
  BY <1>1, <1>2, <1>3, <1>4 DEF Next

LEMMA NoticeInit == Init => NoticeInv
  BY DEF Init, NoticeInv

LEMMA NoticeStep == NoticeInv /\ [Next]_vars => NoticeInv'
<1>. SUFFICES ASSUME NoticeInv, [Next]_vars PROVE NoticeInv'
  OBVIOUS
<1>1. CASE ApplyUpdate
  <2>1. Checked(shown', active) /\ active' = active /\ noticed' = noticed
    BY <1>1 DEF ApplyUpdate
  <2>. QED
    BY <2>1, CheckKeepsNotice DEF NoticeInv
<1>2. CASE NoticeFires
  BY <1>2 DEF NoticeFires, NoticeInv
<1>3. CASE Inactive
  <2>1. /\ Checked(shown, FALSE) /\ active' = FALSE
        /\ noticed' = noticed /\ shown' = shown
    BY <1>3 DEF Inactive
  <2>2. Checked(shown', FALSE)
    BY <2>1 DEF Checked
  <2>. QED
    BY <2>1, <2>2, CheckKeepsNotice
<1>4. CASE Resume
  <2>1. /\ Checked(shown, TRUE) /\ active' = TRUE
        /\ noticed' = noticed /\ shown' = shown
    BY <1>4 DEF Resume
  <2>2. Checked(shown', TRUE)
    BY <2>1 DEF Checked
  <2>. QED
    BY <2>1, <2>2, CheckKeepsNotice
<1>5. CASE Crash
  BY <1>5 DEF Crash, NoticeInv
<1>6. CASE ~Hub /\ ~Crash
  BY <1>6, HubLeftAlone DEF NoticeInv
<1>. QED
  BY <1>1, <1>2, <1>3, <1>4, <1>5, <1>6 DEF Hub

(* NotificationHub: an active session has no request that is shown, not     *)
(* announced, and not waited for by the debounce timer; for any number of   *)
(* requests and of sessions' comings and goings.                            *)
THEOREM RequestsAreAnnounced == Spec => []NoticeComing
<1>1. NoticeInv => NoticeComing
  BY DEF NoticeInv, NoticeComing
<1>. QED
  BY NoticeInit, NoticeStep, <1>1, PTL DEF Spec
-----------------------------------------------------------------------------
Names == Prompts \cup Requests \cup {None}

(* The loop, between the end of a wait and the look at what ended it.       *)
WaitInv ==
  /\ inbox \in Seq(Calls) /\ queue \in Seq(Names)
  /\ mode \in Modes
  /\ mode = "local" <=> place \in {"enter", "launched"}
  /\ mode = "over" <=> place = "gone"
  /\ waiter <=> place = "wait"
  /\ place = "refused" => aborted
  /\ (place = "woken" /\ queue = <<>>) => (aborted \/ emptied)
  /\ LeavesWhenAsked

(* The parts of WaitInv that a step leaves alone.                           *)
LoopVars == <<inbox, mode, place, queue, waiter, aborted, exitReason, emptied>>

LEMMA WaitStutter == WaitInv /\ UNCHANGED LoopVars => WaitInv'
  BY DEF WaitInv, LoopVars, LeavesWhenAsked

LEMMA WaitInit == Init => WaitInv
<1>1. ASSUME Init PROVE inbox \in Seq(Calls) /\ queue \in Seq(Names)
  BY <1>1 DEF Init
<1>. QED
  BY <1>1 DEF Init, WaitInv, LeavesWhenAsked, None, Modes

(* A call of the hub joins the inbox.                                       *)
LEMMA InboxGrows ==
  ASSUME WaitInv, NEW c \in Calls, inbox' = Append(inbox, c),
         UNCHANGED <<mode, place, queue, waiter, aborted, exitReason, emptied>>
  PROVE  WaitInv'
<1>1. inbox' \in Seq(Calls)
  BY AppendElements DEF WaitInv
<1>. QED
  BY <1>1 DEF WaitInv, LeavesWhenAsked

LEMMA WaitUser ==
  ASSUME WaitInv, User
  PROVE  WaitInv'
<1>1. CASE \E p \in Prompts : Send(p)
  <2>1. PICK p \in Prompts : Send(p)
    BY <1>1
  <2>2. Call("prompt", p) \in Calls
    BY DEF Call, Calls
  <2>. QED
    BY <2>1, <2>2, InboxGrows DEF Send
<1>2. CASE \E p \in Prompts : CancelPrompt(p)
  <2>1. PICK p \in Prompts : CancelPrompt(p)
    BY <1>2
  <2>2. Call("cancel", p) \in Calls
    BY DEF Call, Calls
  <2>. QED
    BY <2>1, <2>2, InboxGrows DEF CancelPrompt, Passed, ghost
<1>3. CASE Abort
  <2>1. Call("abort", None) \in Calls
    BY DEF Call, Calls
  <2>. QED
    BY <1>3, <2>1, InboxGrows DEF Abort, Passed, ghost
<1>4. CASE Switch
  <2>1. Call("switch", None) \in Calls
    BY DEF Call, Calls
  <2>. QED
    BY <1>4, <2>1, InboxGrows DEF Switch, Passed, ghost
<1>5. CASE \E r \in Requests, decision \in {"reply", "stop"} : Answer(r, decision)
  <2>1. PICK r \in Requests, decision \in {"reply", "stop"} : Answer(r, decision)
    BY <1>5
  <2>2. Call(decision, r) \in Calls
    BY DEF Call, Calls
  <2>. QED
    BY <2>1, <2>2, InboxGrows DEF Answer, Passed, ghost
<1>6. CASE ExitFromUi
  <2>1. /\ mode = "remote" /\ place \notin {"leaving", "gone"}
        /\ exitReason' = IF exitReason = None THEN "exit" ELSE exitReason
        /\ queue' = <<>> /\ waiter' = FALSE /\ aborted' = TRUE
        /\ place' = IF place = "wait" THEN "refused" ELSE place
        /\ UNCHANGED <<inbox, mode, emptied>>
    BY <1>6 DEF ExitFromUi, RequestExit, HandleAbort, Reset
  <2>2. queue' \in Seq(Names)
    BY <2>1
  <2>. QED
    BY <2>1, <2>2 DEF WaitInv, LeavesWhenAsked, None
<1>. QED
  BY <1>1, <1>2, <1>3, <1>4, <1>5, <1>6 DEF User

(* A stop, wherever the remote launcher is.                                 *)
LEMMA AbortKeepsWait ==
  ASSUME WaitInv, mode = "remote", HandleAbort, inbox' \in Seq(Calls),
         UNCHANGED <<mode, emptied>>,
         exitReason' = exitReason \/ exitReason' # None
  PROVE  WaitInv'
<1>1. /\ queue' = <<>> /\ waiter' = FALSE /\ aborted' = TRUE
      /\ place' = IF place = "wait" THEN "refused" ELSE place
  BY DEF HandleAbort, Reset
<1>2. queue' \in Seq(Names)
  BY <1>1
<1>. QED
  BY <1>1, <1>2 DEF WaitInv, LeavesWhenAsked

LEMMA WaitReceive ==
  ASSUME WaitInv, Receive
  PROVE  WaitInv'
<1>. DEFINE c == Head(inbox)
<1>1. /\ inbox # <<>> /\ mode # "over" /\ mode' = mode
      /\ inbox' = Tail(inbox)
  BY DEF Receive
<1>2. c \in Calls /\ inbox' \in Seq(Calls) /\ c.what \in Names
  <2>1. inbox \in Seq(Calls)
    BY DEF WaitInv
  <2>2. c \in Calls /\ Tail(inbox) \in Seq(Calls)
    BY <1>1, <2>1, TailElements
  <2>. QED
    BY <1>1, <2>2 DEF Calls, Names
<1>3. CASE c.kind = "prompt" /\ Push(c.what) /\ UNCHANGED <<aborted, emptied>>
  <2>1. queue' \in Seq(Names) /\ queue' # <<>>
    BY <1>2, <1>3, AppendElements, AppendProperties, EmptySeq DEF Push, WaitInv
  <2>2. CASE place = "launched"
    BY <1>1, <1>2, <1>3, <2>1, <2>2 DEF Push, WaitInv, LeavesWhenAsked, None
  <2>3. CASE place # "launched"
    BY <1>1, <1>2, <1>3, <2>1, <2>3 DEF Push, WaitInv, LeavesWhenAsked
  <2>. QED
    BY <2>2, <2>3
<1>4. CASE c.kind = "cancel" /\ CancelByLocalId(c.what) /\ UNCHANGED aborted
  <2>1. queue' \in Seq(Names)
    <3>1. CASE UNCHANGED queue
      BY <3>1 DEF WaitInv
    <3>2. CASE \E i \in DOMAIN queue : queue' = RemoveAt(queue, i)
      BY <3>2, RemoveAtElements DEF WaitInv
    <3>. QED
      BY <1>4, <3>1, <3>2 DEF CancelByLocalId
  <2>2. /\ UNCHANGED <<place, waiter, exitReason>>
        /\ emptied' = (emptied \/ (place = "woken" /\ queue # <<>> /\ queue' = <<>>))
    BY <1>4 DEF CancelByLocalId
  <2>. QED
    BY <1>1, <1>2, <1>4, <2>1, <2>2 DEF WaitInv, LeavesWhenAsked
<1>5. ASSUME UNCHANGED <<place, queue, waiter, aborted, exitReason, emptied>>
      PROVE  WaitInv'
  BY <1>1, <1>2, <1>5 DEF WaitInv, LeavesWhenAsked
<1>6. ASSUME Installed, mode # "remote"
      PROVE  mode = "local" /\ place = "launched"
  BY <1>1, <1>6 DEF WaitInv, Installed, Modes
<1>7. CASE c.kind = "abort" /\ DoAbort /\ UNCHANGED emptied
  <2>1. CASE ~Installed
    BY <1>5, <1>7, <2>1 DEF DoAbort
  <2>2. CASE Installed /\ mode = "remote"
    BY <1>1, <1>2, <1>7, <2>2, AbortKeepsWait DEF DoAbort
  <2>3. CASE Installed /\ mode # "remote"
    <3>1. queue' = <<>> /\ waiter' = FALSE /\ UNCHANGED <<place, aborted>>
      BY <1>7, <2>3 DEF DoAbort, Reset
    <3>2. queue' \in Seq(Names)
      BY <3>1
    <3>. QED
      BY <1>1, <1>2, <1>6, <1>7, <2>3, <3>1, <3>2 DEF WaitInv, LeavesWhenAsked
  <2>. QED
    BY <2>1, <2>2, <2>3
<1>8. CASE c.kind = "switch" /\ DoSwitch /\ UNCHANGED emptied
  <2>1. CASE ~Installed
    BY <1>5, <1>8, <2>1 DEF DoSwitch
  <2>2. CASE Installed /\ mode = "remote"
    BY <1>1, <1>2, <1>8, <2>2, AbortKeepsWait DEF DoSwitch, RequestExit, None
  <2>3. CASE Installed /\ mode # "remote"
    <3>1. UNCHANGED <<place, queue, waiter, aborted>>
      BY <1>8, <2>3 DEF DoSwitch
    <3>. QED
      BY <1>1, <1>2, <1>6, <1>8, <2>3, <3>1 DEF WaitInv, LeavesWhenAsked
  <2>. QED
    BY <2>1, <2>2, <2>3
<1>9. CASE /\ c.kind \in {"reply", "stop"}
           /\ UNCHANGED <<place, queue, waiter, aborted, exitReason, emptied>>
  BY <1>5, <1>9
<1>. QED
  BY <1>3, <1>4, <1>7, <1>8, <1>9 DEF Receive

(* The steps of the loop.  Where it looks at the signal it waited on, a     *)
(* refused wait goes round again; one that was woken for nothing was        *)
(* aborted, or its prompt was cancelled.                                    *)
LEMMA WaitLoop ==
  ASSUME Captures, WaitInv,
         SetUp \/ Top \/ Resumed \/ StartPrompt \/ PromptDone \/ TurnOver \/ Leave
  PROVE  WaitInv'
<1>0. <<>> \in Seq(Names)
  OBVIOUS
<1>1. CASE SetUp
  BY <1>1 DEF SetUp, Stay, WaitInv, LeavesWhenAsked
<1>2. CASE Top
  <2>1. CASE place' = "leaving" /\ exitReason # None /\ UNCHANGED <<queue, waiter>>
    BY <1>2, <2>1 DEF Top, Stay, WaitInv, LeavesWhenAsked
  <2>2. CASE Collect /\ UNCHANGED waiter
    BY <1>0, <1>2, <2>2 DEF Top, Collect, Stay, WaitInv, LeavesWhenAsked
  <2>3. CASE place' = "wait" /\ waiter' = TRUE /\ UNCHANGED queue
    BY <1>2, <2>3 DEF Top, Stay, WaitInv, LeavesWhenAsked
  <2>. QED
    BY <1>2, <2>1, <2>2, <2>3 DEF Top
<1>3. CASE Resumed
  <2>1. CASE place = "woken" /\ queue # <<>> /\ Collect
    BY <1>0, <1>3, <2>1 DEF Resumed, Collect, Stay, WaitInv, LeavesWhenAsked
  <2>2. CASE ((place = "woken" /\ queue = <<>>) \/ place = "refused") /\ NoBatch
    <3>1. aborted \/ emptied
      BY <2>2 DEF WaitInv
    <3>2. /\ place' = IF aborted /\ exitReason = None THEN "top" ELSE "leaving"
          /\ UNCHANGED <<inbox, mode, queue, waiter, exitReason, emptied, aborted>>
      BY <1>3, <2>2 DEF Resumed, NoBatch, Stay
    <3>. QED
      BY <2>2, <3>1, <3>2 DEF WaitInv, LeavesWhenAsked
  <2>. QED
    BY <1>3, <2>1, <2>2 DEF Resumed
<1>4. CASE StartPrompt
  BY <1>4 DEF StartPrompt, Stay, WaitInv, LeavesWhenAsked
<1>5. CASE PromptDone
  BY <1>5 DEF PromptDone, WaitInv, LeavesWhenAsked
<1>6. CASE TurnOver
  BY <1>6 DEF TurnOver, Stay, WaitInv, LeavesWhenAsked
<1>7. CASE Leave
  BY <1>7 DEF Leave, WaitInv, LeavesWhenAsked, Modes
<1>. QED
  BY <1>1, <1>2, <1>3, <1>4, <1>5, <1>6, <1>7

LEMMA WaitElsewhere ==
  ASSUME WaitInv,
         RunLocal \/ LocalEnds \/ HandlePermissionRequest \/ Agent \/ Hub \/ Crash
  PROVE  WaitInv'
<1>0. <<>> \in Seq(Names) /\ <<>> \in Seq(Calls)
  OBVIOUS
<1>1. CASE RunLocal
  BY <1>1 DEF RunLocal, ToRemote, ghost, WaitInv, LeavesWhenAsked, Modes
<1>2. CASE LocalEnds
  BY <1>2 DEF LocalEnds, ToRemote, ToEnd, ghost, WaitInv, LeavesWhenAsked, Modes
<1>3. CASE HandlePermissionRequest
  BY <1>3, WaitStutter DEF HandlePermissionRequest, cli, ghost, LoopVars
<1>4. CASE Agent
  BY <1>4, WaitStutter DEF Agent, AgentReads, AgentAsks, AgentEndsTurn, cli, ghost, LoopVars
<1>5. CASE ApplyUpdate \/ NoticeFires \/ Inactive
  BY <1>5, WaitStutter DEF ApplyUpdate, NoticeFires, Inactive, cli, ghost, LoopVars
<1>6. CASE Resume
  BY <1>0, <1>6 DEF Resume, WaitInv, LeavesWhenAsked, Modes
<1>7. CASE Crash
  BY <1>0, <1>7 DEF Crash, WaitInv, LeavesWhenAsked, Modes
<1>. QED
  BY <1>1, <1>2, <1>3, <1>4, <1>5, <1>6, <1>7 DEF Hub

LEMMA WaitStep == Captures /\ WaitInv /\ [Next]_vars => WaitInv'
<1>. SUFFICES ASSUME Captures, WaitInv, [Next]_vars PROVE WaitInv'
  OBVIOUS
<1>1. CASE User
  BY <1>1, WaitUser
<1>2. CASE Receive
  BY <1>2, WaitReceive
<1>3. CASE SetUp \/ Top \/ Resumed \/ StartPrompt \/ PromptDone \/ TurnOver \/ Leave
  BY <1>3, WaitLoop
<1>4. CASE RunLocal \/ LocalEnds \/ HandlePermissionRequest \/ Agent \/ Hub \/ Crash
  BY <1>4, WaitElsewhere
<1>5. CASE UNCHANGED vars
  BY <1>5, WaitStutter DEF vars, cli, ghost, LoopVars
<1>. QED
  BY <1>1, <1>2, <1>3, <1>4, <1>5 DEF Next, Process

(* runMainLoop of the launchers that look at the signal they waited on: the *)
(* remote launcher does not end unless an exit or a switch was asked for,   *)
(* whatever stops, cancellations and prompts cross the end of a wait, but   *)
(* for the prompt that was cancelled after it had woken the wait.           *)
THEOREM LeftOnlyWhenAsked ==
  ASSUME Captures
  PROVE  Spec => []LeavesWhenAsked
<1>1. WaitInv => LeavesWhenAsked
  BY DEF WaitInv
<1>2. WaitInv /\ [Next]_vars => WaitInv'
  BY WaitStep
<1>. QED
  BY WaitInit, <1>1, <1>2, PTL DEF Spec
-----------------------------------------------------------------------------
(* What the agent asks, what is pending, and what the hub shows of it.      *)

UpdateSet    == [kind : {"add", "remove", "cancel"}, what : Names]
ToAgentSet   == [kind : {"prompt", "cancel", "answer"}, what : Names]
FromAgentSet == [kind : {"ask", "done"}, what : Names]

(* Requests have names of their own: a request that a killed process left   *)
(* on the hub is none of those that a later one asks or publishes.          *)
Fresh ==
  /\ shown \cup stale \subseteq asked /\ asked \subseteq Requests
  /\ \A u \in ToSet(updates) : u.kind = "add" => u.what \in asked \ stale
  /\ \A c \in ToSet(fromAgent) : c.kind = "ask" => c.what \in asked \ stale

Answerable(r) ==
  \/ Call("ask", r) \in ToSet(fromAgent)
  \/ r \in pending
  \/ Call("answer", r) \in ToSet(toAgent)
  \/ Call("cancel", None) \in ToSet(toAgent)

RequestInv ==
  /\ updates \in Seq(UpdateSet) /\ toAgent \in Seq(ToAgentSet) /\ fromAgent \in Seq(FromAgentSet)
  /\ pending \subseteq Requests /\ IsFiniteSet(pending)
  /\ agent \in [turn : BOOLEAN, told : BOOLEAN, asks : SUBSET Requests]
  /\ Fresh
  /\ \A r \in agent.asks : Answerable(r)
  /\ WillShow \ stale = pending

ReqVars == <<pending, updates, agent, toAgent, fromAgent, shown, stale, asked>>

LEMMA RequestStutter == RequestInv /\ UNCHANGED ReqVars => RequestInv'
<1>. SUFFICES ASSUME RequestInv, UNCHANGED ReqVars PROVE RequestInv'
  OBVIOUS
<1>1. WillShow' = WillShow
  BY DEF ReqVars, WillShow
<1>2. \A r \in Requests : Answerable(r)' = Answerable(r)
  BY DEF ReqVars, Answerable
<1>. QED
  BY <1>1, <1>2 DEF ReqVars, RequestInv, Fresh

LEMMA ContainsIs ==
  ASSUME NEW S, NEW s \in Seq(S), NEW e
  PROVE  Contains(s, e) <=> e \in ToSet(s)
BY LenProperties DEF Contains, ToSet

(* The sequence of a finite set has that set's elements. *)
LEMMA SetToSeqElements ==
  ASSUME NEW S, IsFiniteSet(S)
  PROVE  SetToSeq(S) \in Seq(S) /\ ToSet(SetToSeq(S)) = S
<1>. DEFINE n == Cardinality(S)
<1>1. n \in Nat /\ IsFiniteSet(1..n) /\ Cardinality(1..n) = n
  BY FS_CardinalityType, FS_Interval
<1>2. PICK g : g \in Bijection(1..n, S)
  BY FS_CardinalityType DEF ExistsBijection
<1>3. g \in [1..n -> S] /\ IsInjective(g)
  BY <1>2 DEF Bijection, Injection
<1>. DEFINE f == SetToSeq(S)
<1>4. f \in [1..n -> S] /\ IsInjective(f)
  BY <1>3 DEF SetToSeq
<1>. HIDE DEF f
<1>5. f \in Surjection(1..n, S)
  BY <1>1, <1>4, FS_Injection DEF Injection
<1>6. \A e \in S : \E i \in 1..n : f[i] = e
  BY <1>5 DEF Surjection
<1>7. f \in Seq(S)
  BY <1>1, <1>4 DEF Seq
<1>. QED
  BY <1>4, <1>6, <1>7 DEF ToSet, f

LEMMA RespondElements ==
  ASSUME NEW rs \in SUBSET Requests, IsFiniteSet(rs)
  PROVE  /\ Respond(rs) \in Seq(ToAgentSet)
         /\ \A r \in rs : Call("answer", r) \in ToSet(Respond(rs))
<1>. DEFINE T == {Call("answer", r) : r \in rs}
            f == [r \in rs |-> Call("answer", r)]
<1>1. f \in Surjection(rs, T)
  BY DEF Surjection
<1>2. IsFiniteSet(T)
  BY <1>1, FS_Surjection
<1>3. T \subseteq ToAgentSet
  BY DEF Call, ToAgentSet, Names
<1>4. Respond(rs) \in Seq(T) /\ ToSet(Respond(rs)) = T
  BY <1>2, SetToSeqElements DEF Respond
<1>5. Respond(rs) \in Seq(ToAgentSet)
  BY <1>3, <1>4, SeqMonotonic
<1>. QED
  BY <1>4, <1>5

(* What an update adds to what the hub will show, and what it hides of it.  *)
LEMMA ShowAppend ==
  ASSUME updates \in Seq(UpdateSet), NEW u \in UpdateSet,
         updates' = Append(updates, u), UNCHANGED shown
  PROVE  WillShow' = {r \in Requests : u = Update("add", r) \/ (r \in WillShow /\ ~Hides(u, r))}
<1>. DEFINE n == Len(updates) + 1
<1>1. /\ DOMAIN updates = 1..Len(updates) /\ DOMAIN updates' = 1..n /\ Len(updates) \in Nat
      /\ updates'[n] = u /\ \A i \in 1..Len(updates) : updates'[i] = updates[i]
  BY AppendProperties, LenProperties
<1>2. \A i : i \in DOMAIN updates' <=> i \in DOMAIN updates \/ i = n
  BY <1>1
<1>3. n \notin DOMAIN updates /\ \A i \in DOMAIN updates : n > i /\ ~(i > n)
  BY <1>1
<1>4. \A r : ~(u = Update("add", r) /\ Hides(u, r))
  BY DEF Update, Hides
<1>. SUFFICES ASSUME NEW r \in Requests
              PROVE  r \in WillShow' <=> u = Update("add", r) \/ (r \in WillShow /\ ~Hides(u, r))
  BY DEF WillShow
<1>. DEFINE Late(s, i) == \A j \in DOMAIN s : j > i => ~Hides(s[j], r)
<1>5. \A i \in DOMAIN updates : Late(updates', i) <=> Late(updates, i) /\ ~Hides(u, r)
  BY <1>1, <1>2, <1>3
<1>6. Late(updates', n)
  BY <1>1, <1>2, <1>3
<1>7. (\A j \in DOMAIN updates' : ~Hides(updates'[j], r))
        <=> (\A j \in DOMAIN updates : ~Hides(updates[j], r)) /\ ~Hides(u, r)
  BY <1>1, <1>2
<1>8. (\E i \in DOMAIN updates' : updates'[i] = Update("add", r) /\ Late(updates', i))
        <=> \/ u = Update("add", r)
            \/ (\E i \in DOMAIN updates : updates[i] = Update("add", r) /\ Late(updates, i)) /\ ~Hides(u, r)
  BY <1>1, <1>2, <1>5, <1>6
<1>. QED
  BY <1>4, <1>7, <1>8 DEF WillShow

(* The hub applies an update: what it will show stays the same. *)
LEMMA ShowApplied ==
  ASSUME updates \in Seq(UpdateSet), updates # <<>>, updates' = Tail(updates),
         shown' = Applied(Head(updates), shown)
  PROVE  WillShow' = WillShow
<1>. DEFINE u == Head(updates)
            n == Len(updates)
<1>1. /\ n \in Nat /\ n >= 1 /\ u = updates[1] /\ u \in UpdateSet
      /\ DOMAIN updates = 1..n /\ DOMAIN updates' = 1..(n - 1)
      /\ \A i \in 1..(n - 1) : updates'[i] = updates[i + 1]
  BY HeadTailProperties, LenProperties, EmptySeq
<1>. SUFFICES ASSUME NEW r \in Requests PROVE r \in WillShow' <=> r \in WillShow
  BY DEF WillShow
<1>2. r \in shown' <=> u = Update("add", r) \/ (r \in shown /\ ~Hides(u, r))
  BY <1>1 DEF Applied, Hides, Update, UpdateSet
<1>3. 1 \in 1..n /\ \A j \in 1..n : j = 1 \/ (j - 1 \in 1..(n - 1) /\ (j - 1) + 1 = j)
  BY <1>1
<1>4. \A k \in 1..(n - 1) : k + 1 \in 1..n /\ k + 1 > 1
  BY <1>1
<1>. DEFINE Kept(s)    == \A j \in DOMAIN s : ~Hides(s[j], r)
            Late(s, i) == \A j \in DOMAIN s : j > i => ~Hides(s[j], r)
            Told(s, i) == s[i] = Update("add", r) /\ Late(s, i)
<1>5. Kept(updates) <=> ~Hides(u, r) /\ Kept(updates')
  <2>1. ASSUME Kept(updates) PROVE ~Hides(u, r) /\ Kept(updates')
    BY <1>1, <1>3, <1>4, <2>1
  <2>2. ASSUME ~Hides(u, r), Kept(updates'), NEW j \in 1..n PROVE ~Hides(updates[j], r)
    <3>1. CASE j = 1
      BY <1>1, <2>2, <3>1
    <3>2. CASE j # 1
      <4>1. j - 1 \in 1..(n - 1) /\ updates'[j - 1] = updates[j]
        BY <1>1, <1>3, <3>2
      <4>. QED
        BY <1>1, <2>2, <4>1
    <3>. QED
      BY <3>1, <3>2
  <2>. QED
    BY <1>1, <2>1, <2>2
<1>6. ASSUME NEW i \in 0..(n - 1) PROVE Late(updates, i + 1) <=> Late(updates', i)
  <2>1. ASSUME Late(updates, i + 1), NEW k \in 1..(n - 1), k > i PROVE ~Hides(updates'[k], r)
    <3>1. k + 1 \in 1..n /\ k + 1 > i + 1 /\ updates'[k] = updates[k + 1]
      BY <1>1, <1>4, <2>1
    <3>. QED
      BY <1>1, <2>1, <3>1
  <2>2. ASSUME Late(updates', i), NEW j \in 1..n, j > i + 1 PROVE ~Hides(updates[j], r)
    <3>1. j - 1 \in 1..(n - 1) /\ j - 1 > i /\ updates'[j - 1] = updates[j]
      BY <1>1, <1>3, <2>2
    <3>. QED
      BY <1>1, <2>2, <3>1
  <2>. QED
    BY <1>1, <2>1, <2>2
<1>7. Late(updates, 1) <=> Kept(updates')
  <2>1. 0 \in 0..(n - 1) /\ 0 + 1 = 1 /\ \A k \in 1..(n - 1) : k > 0
    BY <1>1
  <2>2. Late(updates', 0) <=> Kept(updates')
    BY <1>1, <2>1
  <2>3. Late(updates, 0 + 1) <=> Late(updates', 0)
    BY <1>6, <2>1
  <2>. QED
    BY <2>1, <2>2, <2>3
<1>8. \A i \in 1..(n - 1) : Told(updates', i) <=> Told(updates, i + 1)
  BY <1>1, <1>6
<1>9. Told(updates, 1) <=> u = Update("add", r) /\ Kept(updates')
  BY <1>1, <1>7
<1>10. r \in WillShow <=> (r \in shown /\ Kept(updates)) \/ \E i \in 1..n : Told(updates, i)
  BY <1>1 DEF WillShow
<1>11. r \in WillShow' <=> (r \in shown' /\ Kept(updates')) \/ \E i \in 1..(n - 1) : Told(updates', i)
  BY <1>1 DEF WillShow
<1>. HIDE DEF Kept, Late, Told
<1>12. (\E i \in 1..n : Told(updates, i)) <=> Told(updates, 1) \/ \E i \in 1..(n - 1) : Told(updates', i)
  <2>1. ASSUME NEW i \in 1..n, Told(updates, i)
        PROVE  Told(updates, 1) \/ \E k \in 1..(n - 1) : Told(updates', k)
    <3>1. CASE i = 1
      BY <2>1, <3>1
    <3>2. CASE i # 1
      <4>1. i - 1 \in 1..(n - 1) /\ (i - 1) + 1 = i
        BY <1>3, <3>2
      <4>2. Told(updates', i - 1)
        BY <1>8, <2>1, <4>1
      <4>. QED
        BY <4>1, <4>2
    <3>. QED
      BY <3>1, <3>2
  <2>2. ASSUME NEW k \in 1..(n - 1), Told(updates', k) PROVE \E i \in 1..n : Told(updates, i)
    <3>1. k + 1 \in 1..n /\ Told(updates, k + 1)
      BY <1>4, <1>8, <2>2
    <3>. QED
      BY <3>1
  <2>. QED
    BY <1>3, <2>1, <2>2
<1>. QED
  BY <1>2, <1>5, <1>9, <1>10, <1>11, <1>12

(* An update about nothing but r. *)
LEMMA UpdateFacts ==
  /\ \A r \in Requests : /\ Update("add", r) \in UpdateSet /\ Update("remove", r) \in UpdateSet
                         /\ Call("answer", r) \in ToAgentSet /\ Call("ask", r) \in FromAgentSet
  /\ Update("cancel", None) \in UpdateSet /\ Call("cancel", None) \in ToAgentSet
  /\ Call("prompt", None) \in ToAgentSet /\ Call("done", None) \in FromAgentSet
BY DEF Update, Call, UpdateSet, ToAgentSet, FromAgentSet, Names

LEMMA ToldMore ==
  \A s, t \in Seq(ToAgentSet) :
    s \o t \in Seq(ToAgentSet) /\ ToSet(s \o t) = ToSet(s) \cup ToSet(t)
BY ConcatElements

LEMMA HeadOrTail ==
  ASSUME NEW S, NEW s \in Seq(S), s # <<>>, NEW e \in ToSet(s)
  PROVE  e = Head(s) \/ e \in ToSet(Tail(s))
<1>1. /\ DOMAIN s = 1..Len(s) /\ Len(s) \in Nat /\ Head(s) = s[1]
      /\ DOMAIN Tail(s) = 1..(Len(s) - 1)
      /\ \A i \in 1..(Len(s) - 1) : Tail(s)[i] = s[i + 1]
  BY HeadTailProperties, LenProperties, EmptySeq
<1>2. PICK i \in 1..Len(s) : e = s[i]
  BY <1>1 DEF ToSet
<1>3. CASE i # 1
  <2>1. i - 1 \in 1..(Len(s) - 1) /\ (i - 1) + 1 = i
    BY <1>1, <1>3
  <2>2. Tail(s)[i - 1] = e
    BY <1>1, <1>2, <2>1
  <2>. QED
    BY <1>1, <2>1, <2>2 DEF ToSet
<1>. QED
  BY <1>1, <1>2, <1>3

(* Every request of the agent is dropped, and the agent is told or answered. *)
LEMMA RequestCancel ==
  ASSUME RequestInv, CancelAll, UNCHANGED <<agent, fromAgent, shown, stale, asked>>,
         toAgent' \in Seq(ToAgentSet), ToSet(toAgent) \subseteq ToSet(toAgent'),
         \/ Call("cancel", None) \in ToSet(toAgent')
         \/ \A r \in pending : Call("answer", r) \in ToSet(toAgent')
  PROVE  RequestInv'
<1>. DEFINE u == Update("cancel", None)
<1>1. /\ updates' \in Seq(UpdateSet) /\ ToSet(updates') = ToSet(updates) \cup {u}
  BY UpdateFacts, AppendElements DEF RequestInv, CancelAll
<1>2. WillShow' = {}
  <2>1. \A r : u # Update("add", r) /\ Hides(u, r)
    BY DEF Update, Hides
  <2>. QED
    BY <2>1, UpdateFacts, ShowAppend DEF RequestInv, CancelAll
<1>3. pending' = {} /\ IsFiniteSet(pending')
  BY FS_EmptySet DEF CancelAll
<1>4. Fresh'
  BY <1>1 DEF RequestInv, Fresh, Update
<1>5. \A r \in agent.asks : Answerable(r)'
  BY DEF RequestInv, Answerable
<1>. QED
  BY <1>1, <1>2, <1>3, <1>4, <1>5 DEF RequestInv

LEMMA RequestAbort ==
  ASSUME RequestInv, HandleAbort, UNCHANGED <<agent, fromAgent, shown, stale, asked>>
  PROVE  RequestInv'
<1>1. CASE place = "setup"
  BY <1>1, RequestStutter DEF HandleAbort, perm, ReqVars
<1>2. CASE place # "setup"
  <2>. DEFINE c == <<Call("cancel", None)>>
  <2>1. /\ c \in Seq(ToAgentSet) /\ ToSet(c) = {Call("cancel", None)}
        /\ Respond(pending) \in Seq(ToAgentSet) /\ toAgent \in Seq(ToAgentSet)
    BY UpdateFacts, RespondElements DEF RequestInv, ToSet
  <2>. HIDE DEF c
  <2>2. /\ toAgent \o c \in Seq(ToAgentSet)
        /\ ToSet(toAgent \o c) = ToSet(toAgent) \cup {Call("cancel", None)}
    BY <2>1, ConcatElements
  <2>3. /\ (toAgent \o c) \o Respond(pending) \in Seq(ToAgentSet)
        /\ ToSet((toAgent \o c) \o Respond(pending)) = ToSet(toAgent \o c) \cup ToSet(Respond(pending))
    BY <2>1, <2>2, ToldMore
  <2>4. toAgent' = (toAgent \o c) \o Respond(pending) /\ CancelAll
    BY <1>2 DEF HandleAbort, c
  <2>. QED
    BY <2>2, <2>3, <2>4, RequestCancel
<1>. QED
  BY <1>1, <1>2

(* The user's answer, which with "stop" cancels the turn first. *)
LEMMA RequestAnswer ==
  ASSUME RequestInv, NEW r, NEW decision, Permission(r, decision),
         UNCHANGED <<agent, fromAgent, shown, stale, asked>>
  PROVE  RequestInv'
<1>1. CASE r \notin pending
  BY <1>1, RequestStutter DEF Permission, perm, ReqVars
<1>2. CASE r \in pending
  <2>. DEFINE u == Update("remove", r)
              c == IF decision = "stop" THEN <<Call("cancel", None)>> ELSE <<>>
              a == Respond({r})
  <2>1. r \in Requests /\ pending' = pending \ {r} /\ updates' = Append(updates, u)
        /\ toAgent' = (toAgent \o c) \o a
    BY <1>2 DEF Permission, RequestInv
  <2>2. c \in Seq(ToAgentSet)
    BY UpdateFacts
  <2>3. a \in Seq(ToAgentSet) /\ Call("answer", r) \in ToSet(a)
    BY <2>1, RespondElements, FS_Singleton
  <2>. HIDE DEF c, a
  <2>4. toAgent \o c \in Seq(ToAgentSet) /\ ToSet(toAgent \o c) = ToSet(toAgent) \cup ToSet(c)
    BY <2>2, ConcatElements DEF RequestInv
  <2>5. /\ toAgent' \in Seq(ToAgentSet)
        /\ ToSet(toAgent') = ToSet(toAgent \o c) \cup ToSet(a)
    BY <2>1, <2>3, <2>4, ToldMore
  <2>6. updates' \in Seq(UpdateSet) /\ ToSet(updates') = ToSet(updates) \cup {u}
    BY <2>1, UpdateFacts, AppendElements DEF RequestInv
  <2>7. WillShow' = WillShow \ {r}
    <3>1. \A q : u # Update("add", q) /\ (Hides(u, q) <=> q = r)
      BY DEF Update, Hides
    <3>2. WillShow \subseteq Requests
      BY DEF WillShow
    <3>. QED
      BY <2>1, <3>1, <3>2, UpdateFacts, ShowAppend DEF RequestInv
  <2>8. IsFiniteSet(pending')
    BY <2>1, FS_RemoveElement DEF RequestInv
  <2>9. Fresh'
    BY <2>6 DEF RequestInv, Fresh, Update
  <2>10. \A q \in agent.asks : Answerable(q)'
    BY <2>1, <2>3, <2>4, <2>5 DEF RequestInv, Answerable
  <2>. QED
    BY <2>1, <2>5, <2>6, <2>7, <2>8, <2>9, <2>10 DEF RequestInv
<1>. QED
  BY <1>1, <1>2

(* The agent's question is left to the user, or answered at once. *)
LEMMA RequestHandled ==
  ASSUME RequestInv, HandlePermissionRequest
  PROVE  RequestInv'
<1>. DEFINE c == Head(fromAgent)
            r == c.what
<1>1. /\ fromAgent # <<>> /\ c.kind = "ask" /\ fromAgent' = Tail(fromAgent)
      /\ UNCHANGED <<agent, shown, stale, asked>>
  BY DEF HandlePermissionRequest, hub, ghost
<1>2. /\ c \in FromAgentSet /\ c \in ToSet(fromAgent) /\ fromAgent' \in Seq(FromAgentSet)
      /\ ToSet(fromAgent') \subseteq ToSet(fromAgent)
  BY <1>1, TailElements DEF RequestInv
<1>3. r \in asked \ stale /\ r \in Requests /\ c = Call("ask", r)
  BY <1>1, <1>2 DEF RequestInv, Fresh, FromAgentSet, Call
<1>4. \A q \in Requests : Call("ask", q) \in ToSet(fromAgent) => q = r \/ Call("ask", q) \in ToSet(fromAgent')
  <2>1. \A q : Call("ask", q) = c => q = r
    BY DEF Call
  <2>2. \A e \in ToSet(fromAgent) : e = c \/ e \in ToSet(fromAgent')
    BY <1>1, HeadOrTail DEF RequestInv
  <2>. QED
    BY <2>1, <2>2
<1>5. CASE AddPendingRequest(r) /\ UNCHANGED toAgent
  <2>. DEFINE u == Update("add", r)
  <2>1. updates' \in Seq(UpdateSet) /\ ToSet(updates') = ToSet(updates) \cup {u}
    BY <1>3, <1>5, UpdateFacts, AppendElements DEF RequestInv, AddPendingRequest
  <2>2. WillShow' = WillShow \cup {r}
    <3>1. \A q : (u = Update("add", q) <=> q = r) /\ ~Hides(u, q)
      BY DEF Update, Hides
    <3>2. WillShow \subseteq Requests
      BY DEF WillShow
    <3>. QED
      BY <1>1, <1>3, <1>5, <3>1, <3>2, UpdateFacts, ShowAppend DEF RequestInv, AddPendingRequest
  <2>3. pending' = pending \cup {r} /\ IsFiniteSet(pending')
    BY <1>5, FS_AddElement DEF RequestInv, AddPendingRequest
  <2>4. Fresh'
    BY <1>1, <1>2, <1>3, <2>1 DEF RequestInv, Fresh, Update
  <2>5. \A q \in agent.asks : Answerable(q)'
    BY <1>1, <1>4, <1>5, <2>3 DEF RequestInv, Answerable
  <2>. QED
    BY <1>1, <1>2, <1>3, <1>5, <2>1, <2>2, <2>3, <2>4, <2>5 DEF RequestInv
<1>6. CASE toAgent' = toAgent \o Respond({r}) /\ UNCHANGED perm
  <2>1. Respond({r}) \in Seq(ToAgentSet) /\ Call("answer", r) \in ToSet(Respond({r}))
    BY <1>3, RespondElements, FS_Singleton
  <2>2. toAgent' \in Seq(ToAgentSet) /\ ToSet(toAgent') = ToSet(toAgent) \cup ToSet(Respond({r}))
    BY <1>6, <2>1, ToldMore DEF RequestInv
  <2>3. WillShow' = WillShow
    BY <1>1, <1>6 DEF perm, WillShow
  <2>4. Fresh'
    BY <1>1, <1>2, <1>6 DEF RequestInv, Fresh, perm
  <2>5. \A q \in agent.asks : Answerable(q)'
    BY <1>1, <1>4, <1>6, <2>1, <2>2 DEF RequestInv, Answerable, perm
  <2>. QED
    BY <1>1, <1>2, <1>6, <2>2, <2>3, <2>4, <2>5 DEF RequestInv, perm
<1>. QED
  BY <1>5, <1>6 DEF HandlePermissionRequest

(* The agent reads what it was told, asks, or ends its turn. *)
LEMMA RequestAgent ==
  ASSUME RequestInv, Agent
  PROVE  RequestInv'
<1>1. UNCHANGED <<pending, updates, shown, stale>> /\ WillShow' = WillShow
  BY DEF Agent, AgentReads, AgentAsks, AgentEndsTurn, perm, hub, WillShow
<1>2. CASE AgentReads
  <2>. DEFINE c == Head(toAgent)
  <2>1. /\ toAgent # <<>> /\ toAgent' = Tail(toAgent) /\ UNCHANGED <<fromAgent, asked>>
        /\ c \in ToAgentSet /\ c \in ToSet(toAgent) /\ toAgent' \in Seq(ToAgentSet)
    BY <1>2, TailElements DEF AgentReads, RequestInv, ghost
  <2>2. \A e \in ToSet(toAgent) : e = c \/ e \in ToSet(toAgent')
    BY <2>1, HeadOrTail DEF RequestInv
  <2>3. /\ agent' \in [turn : BOOLEAN, told : BOOLEAN, asks : SUBSET Requests]
        /\ \A r \in agent'.asks : r \in agent.asks /\ c.kind = "answer" /\ c.what # r
    <3>1. CASE c.kind = "prompt"
      BY <1>2, <3>1 DEF AgentReads, Idle
    <3>2. CASE c.kind = "cancel"
      BY <1>2, <3>2 DEF AgentReads, RequestInv
    <3>3. CASE c.kind = "answer"
      BY <1>2, <3>3 DEF AgentReads, RequestInv
    <3>. QED
      BY <2>1, <3>1, <3>2, <3>3 DEF ToAgentSet
  <2>4. \A r \in agent'.asks : Answerable(r)'
    <3>1. \A r \in agent'.asks : Call("answer", r) # c /\ Call("cancel", None) # c
      BY <2>3 DEF Call
    <3>. QED
      BY <1>1, <2>1, <2>2, <2>3, <3>1 DEF RequestInv, Answerable
  <2>. QED
    BY <1>1, <2>1, <2>3, <2>4 DEF RequestInv, Fresh
<1>3. CASE \E r \in Requests : AgentAsks(r)
  <2>1. PICK r \in Requests : AgentAsks(r)
    BY <1>3
  <2>. DEFINE c == Call("ask", r)
  <2>2. /\ r \notin asked /\ asked' = asked \cup {r} /\ UNCHANGED toAgent
        /\ fromAgent' = Append(fromAgent, c)
        /\ agent' = [agent EXCEPT !.asks = @ \cup {r}]
    BY <2>1 DEF AgentAsks
  <2>3. fromAgent' \in Seq(FromAgentSet) /\ ToSet(fromAgent') = ToSet(fromAgent) \cup {c}
    BY <2>2, UpdateFacts, AppendElements DEF RequestInv
  <2>4. /\ agent' \in [turn : BOOLEAN, told : BOOLEAN, asks : SUBSET Requests]
        /\ agent'.asks = agent.asks \cup {r}
    BY <2>2 DEF RequestInv
  <2>5. Fresh'
    BY <1>1, <2>2, <2>3 DEF RequestInv, Fresh, Call
  <2>6. \A q \in agent'.asks : Answerable(q)'
    BY <1>1, <2>2, <2>3, <2>4 DEF RequestInv, Answerable
  <2>. QED
    BY <1>1, <2>2, <2>3, <2>4, <2>5, <2>6 DEF RequestInv
<1>4. CASE AgentEndsTurn
  <2>. DEFINE c == Call("done", None)
  <2>1. /\ UNCHANGED <<toAgent, asked>> /\ agent' = Idle /\ fromAgent' = Append(fromAgent, c)
    BY <1>4 DEF AgentEndsTurn, ghost
  <2>2. fromAgent' \in Seq(FromAgentSet) /\ ToSet(fromAgent') = ToSet(fromAgent) \cup {c}
    BY <2>1, UpdateFacts, AppendElements DEF RequestInv
  <2>3. Fresh'
    BY <1>1, <2>1, <2>2 DEF RequestInv, Fresh, Call
  <2>. QED
    BY <1>1, <2>1, <2>2, <2>3 DEF RequestInv, Idle
<1>. QED
  BY <1>2, <1>3, <1>4 DEF Agent

(* The hub applies the first update. *)
LEMMA RequestApplied ==
  ASSUME RequestInv, ApplyUpdate
  PROVE  RequestInv'
<1>. DEFINE u == Head(updates)
<1>1. /\ updates # <<>> /\ updates' = Tail(updates) /\ shown' = Applied(u, shown)
      /\ stale' = stale \cap shown' /\ UNCHANGED <<pending, agent, toAgent, fromAgent, asked>>
  BY DEF ApplyUpdate, acp, ghost
<1>2. /\ u \in UpdateSet /\ u \in ToSet(updates) /\ updates' \in Seq(UpdateSet)
      /\ ToSet(updates') \subseteq ToSet(updates)
  BY <1>1, TailElements DEF RequestInv
<1>3. WillShow' = WillShow
  BY <1>1, ShowApplied DEF RequestInv
<1>4. shown' \subseteq asked
  BY <1>1, <1>2 DEF RequestInv, Fresh, Applied, UpdateSet
<1>5. Fresh'
  BY <1>1, <1>2, <1>4 DEF RequestInv, Fresh
<1>6. ASSUME NEW r \in WillShow, r \in stale PROVE r \in shown'
  <2>1. CASE \E i \in DOMAIN updates' : updates'[i] = Update("add", r)
    <3>1. Update("add", r) \in ToSet(updates)
      BY <1>2, <2>1 DEF ToSet
    <3>. QED
      BY <1>6, <3>1 DEF RequestInv, Fresh, Update
  <2>2. CASE ~\E i \in DOMAIN updates' : updates'[i] = Update("add", r)
    BY <1>3, <1>6, <2>2 DEF WillShow
  <2>. QED
    BY <2>1, <2>2
<1>7. WillShow \ stale' = pending
  BY <1>1, <1>6 DEF RequestInv
<1>8. \A r \in agent.asks : Answerable(r)'
  BY <1>1 DEF RequestInv, Answerable
<1>. QED
  BY <1>1, <1>2, <1>3, <1>5, <1>7, <1>8 DEF RequestInv

(* The launcher starts a prompt, learns of its end, and is left. *)
LEMMA RequestLauncher ==
  ASSUME RequestInv, StartPrompt \/ PromptDone \/ TurnOver \/ Leave \/ Crash
  PROVE  RequestInv'
<1>1. CASE StartPrompt
  <2>1. /\ toAgent' = Append(toAgent, Call("prompt", None))
        /\ UNCHANGED <<pending, updates, agent, fromAgent, shown, stale, asked>>
    BY <1>1 DEF StartPrompt, Stay, perm, hub
  <2>2. toAgent' \in Seq(ToAgentSet) /\ ToSet(toAgent) \subseteq ToSet(toAgent')
    BY <2>1, UpdateFacts, AppendElements DEF RequestInv
  <2>3. WillShow' = WillShow
    BY <2>1 DEF WillShow
  <2>. QED
    BY <2>1, <2>2, <2>3 DEF RequestInv, Fresh, Answerable
<1>2. CASE PromptDone
  <2>1. /\ fromAgent # <<>> /\ Head(fromAgent).kind = "done" /\ fromAgent' = Tail(fromAgent)
        /\ UNCHANGED <<pending, updates, agent, toAgent, shown, stale, asked>>
    BY <1>2 DEF PromptDone, perm, hub
  <2>2. fromAgent' \in Seq(FromAgentSet) /\ ToSet(fromAgent') \subseteq ToSet(fromAgent)
    BY <2>1, TailElements DEF RequestInv
  <2>3. \A r : Call("ask", r) \in ToSet(fromAgent) => Call("ask", r) \in ToSet(fromAgent')
    <3>1. \A r : Call("ask", r) # Head(fromAgent)
      BY <2>1 DEF Call
    <3>2. \A e \in ToSet(fromAgent) : e = Head(fromAgent) \/ e \in ToSet(fromAgent')
      BY <2>1, HeadOrTail DEF RequestInv
    <3>. QED
      BY <3>1, <3>2
  <2>4. WillShow' = WillShow
    BY <2>1 DEF WillShow
  <2>. QED
    BY <2>1, <2>2, <2>3, <2>4 DEF RequestInv, Fresh, Answerable
<1>3. CASE TurnOver
  <2>1. /\ CancelAll /\ toAgent' = toAgent \o Respond(pending)
        /\ UNCHANGED <<agent, fromAgent, shown, stale, asked>>
    BY <1>3 DEF TurnOver, Stay, hub
  <2>2. /\ Respond(pending) \in Seq(ToAgentSet)
        /\ \A r \in pending : Call("answer", r) \in ToSet(Respond(pending))
    BY RespondElements DEF RequestInv
  <2>3. /\ toAgent' \in Seq(ToAgentSet)
        /\ ToSet(toAgent') = ToSet(toAgent) \cup ToSet(Respond(pending))
    BY <2>1, <2>2, ToldMore DEF RequestInv
  <2>. QED
    BY <2>1, <2>2, <2>3, RequestCancel
<1>4. CASE Leave
  <2>. DEFINE u == Update("cancel", None)
  <2>1. /\ pending' = {} /\ updates' = Append(updates, u) /\ agent' = Idle
        /\ toAgent' = <<>> /\ fromAgent' = <<>> /\ UNCHANGED <<shown, stale, asked>>
    BY <1>4 DEF Leave, CancelAll, hub
  <2>2. updates' \in Seq(UpdateSet) /\ ToSet(updates') = ToSet(updates) \cup {u}
    BY <2>1, UpdateFacts, AppendElements DEF RequestInv
  <2>3. WillShow' = {}
    <3>1. \A r : u # Update("add", r) /\ Hides(u, r)
      BY DEF Update, Hides
    <3>. QED
      BY <2>1, <3>1, UpdateFacts, ShowAppend DEF RequestInv
  <2>4. Fresh'
    BY <2>1, <2>2 DEF RequestInv, Fresh, Update, ToSet
  <2>. QED
    BY <2>1, <2>2, <2>3, <2>4, FS_EmptySet DEF RequestInv, Idle
<1>5. CASE Crash
  <2>1. /\ pending' = {} /\ updates' = <<>> /\ agent' = Idle
        /\ toAgent' = <<>> /\ fromAgent' = <<>> /\ stale' = shown /\ UNCHANGED <<shown, asked>>
    BY <1>5 DEF Crash
  <2>2. WillShow' \subseteq shown
    BY <2>1 DEF WillShow
  <2>3. Fresh'
    BY <2>1 DEF RequestInv, Fresh, ToSet
  <2>. QED
    BY <2>1, <2>2, <2>3, FS_EmptySet DEF RequestInv, Idle
<1>. QED
  BY <1>1, <1>2, <1>3, <1>4, <1>5

LEMMA RequestReceived ==
  ASSUME RequestInv, Receive
  PROVE  RequestInv'
<1>. DEFINE c == Head(inbox)
<1>1. UNCHANGED <<agent, fromAgent, shown, stale, asked>>
  BY DEF Receive, hub
<1>2. CASE UNCHANGED <<perm, toAgent>>
  BY <1>1, <1>2, RequestStutter DEF perm, ReqVars
<1>3. CASE DoAbort
  BY <1>1, <1>2, <1>3, RequestAbort DEF DoAbort
<1>4. CASE DoSwitch
  BY <1>1, <1>2, <1>4, RequestAbort DEF DoSwitch, RequestExit
<1>5. CASE Permission(c.what, c.kind)
  BY <1>1, <1>5, RequestAnswer
<1>. QED
  BY <1>2, <1>3, <1>4, <1>5 DEF Receive

LEMMA RequestInit == Init => RequestInv
<1>. SUFFICES ASSUME Init PROVE RequestInv
  OBVIOUS
<1>1. updates = <<>> /\ toAgent = <<>> /\ fromAgent = <<>> /\ WillShow = {}
  BY DEF Init, WillShow
<1>2. Fresh
  BY <1>1 DEF Init, Fresh, ToSet
<1>. QED
  BY <1>1, <1>2, FS_EmptySet DEF Init, RequestInv, Idle

LEMMA RequestStep == RequestInv /\ [Next]_vars => RequestInv'
<1>. SUFFICES ASSUME RequestInv, [Next]_vars PROVE RequestInv'
  OBVIOUS
<1>1. CASE User
  <2>1. CASE ExitFromUi
    BY <2>1, RequestAbort DEF ExitFromUi, RequestExit, hub
  <2>2. CASE ~ExitFromUi
    BY <1>1, <2>2, RequestStutter
       DEF User, Send, CancelPrompt, Abort, Switch, Answer, Passed, perm, acp, hub, ghost, ReqVars
  <2>. QED
    BY <2>1, <2>2
<1>2. CASE Receive
  BY <1>2, RequestReceived
<1>3. CASE SetUp \/ Top \/ Resumed \/ RunLocal \/ LocalEnds
  BY <1>3, RequestStutter DEF SetUp, Top, Resumed, RunLocal, LocalEnds, Stay, perm, acp, hub, ghost, ReqVars
<1>4. CASE StartPrompt \/ PromptDone \/ TurnOver \/ Leave \/ Crash
  BY <1>4, RequestLauncher
<1>5. CASE HandlePermissionRequest
  BY <1>5, RequestHandled
<1>6. CASE Agent
  BY <1>6, RequestAgent
<1>7. CASE ApplyUpdate
  BY <1>7, RequestApplied
<1>8. CASE NoticeFires \/ Inactive \/ Resume
  BY <1>8, RequestStutter DEF NoticeFires, Inactive, Resume, perm, acp, ghost, ReqVars
<1>9. CASE UNCHANGED vars
  BY <1>9, RequestStutter DEF vars, perm, acp, hub, ghost, ReqVars
<1>. QED
  BY <1>1, <1>2, <1>3, <1>4, <1>5, <1>6, <1>7, <1>8, <1>9 DEF Next, Process, Hub

-----------------------------------------------------------------------------
(* The types of the loop: a prompt on its way is one of the prompts.        *)
LoopTypes ==
  /\ inbox \in Seq(Calls) /\ \A c \in ToSet(inbox) : c.kind = "prompt" => c.what \in Prompts
  /\ mode \in Modes /\ place \in Places /\ exitReason \in {None, "switch", "exit"}
  /\ mode = "local" <=> place \in {"enter", "launched"}
  /\ mode = "over" <=> place = "gone"
  /\ queue \in Seq(Prompts)
  /\ waiter \in BOOLEAN /\ aborted \in BOOLEAN /\ (waiter <=> place = "wait")
  /\ fate \in [Prompts -> Fates]

LoopTypeVars == <<inbox, mode, place, queue, waiter, aborted, exitReason, fate>>

LEMMA TypesStutter == LoopTypes /\ UNCHANGED LoopTypeVars => LoopTypes'
BY DEF LoopTypes, LoopTypeVars

LEMMA MarkedTypes ==
  ASSUME LoopTypes, NEW f \in Fates, NEW P
  PROVE  Marked(P, f) \in [Prompts -> Fates]
BY DEF LoopTypes, Marked

(* A call of the hub joins the inbox. *)
LEMMA CallArrives ==
  ASSUME LoopTypes, NEW c \in Calls, c.kind = "prompt" => c.what \in Prompts,
         inbox' = Append(inbox, c), fate' \in [Prompts -> Fates],
         UNCHANGED <<mode, place, queue, waiter, aborted, exitReason>>
  PROVE  LoopTypes'
<1>1. inbox' \in Seq(Calls) /\ ToSet(inbox') = ToSet(inbox) \cup {c}
  BY AppendElements DEF LoopTypes
<1>. QED
  BY <1>1 DEF LoopTypes

LEMMA CallTypes ==
  /\ \A p \in Prompts : /\ Call("prompt", p) \in Calls /\ Call("cancel", p) \in Calls
                        /\ Call("prompt", p).what = p
  /\ Call("abort", None) \in Calls /\ Call("switch", None) \in Calls
  /\ \A r \in Requests : Call("reply", r) \in Calls /\ Call("stop", r) \in Calls
  /\ \A k, x : Call(k, x).kind = k
BY DEF Call, Calls

LEMMA TypesAbort ==
  ASSUME LoopTypes, mode = "remote", HandleAbort, UNCHANGED mode,
         inbox' \in Seq(Calls), ToSet(inbox') \subseteq ToSet(inbox),
         exitReason' \in {None, "switch", "exit"}
  PROVE  LoopTypes'
<1>1. /\ queue' = <<>> /\ waiter' = FALSE /\ aborted' = TRUE
      /\ place' = IF place = "wait" THEN "refused" ELSE place
      /\ fate' \in [Prompts -> Fates]
  BY MarkedTypes DEF HandleAbort, Reset, Fates
<1>2. queue' \in Seq(Prompts)
  BY <1>1
<1>. QED
  BY <1>1, <1>2 DEF LoopTypes, Places

LEMMA TypesUser ==
  ASSUME LoopTypes, User
  PROVE  LoopTypes'
<1>1. CASE \E p \in Prompts : Send(p)
  <2>1. PICK p \in Prompts : Send(p)
    BY <1>1
  <2>2. fate' \in [Prompts -> Fates]
    BY <2>1 DEF Send, LoopTypes, Fates
  <2>. QED
    BY <2>1, <2>2, CallTypes, CallArrives DEF Send
<1>2. CASE \E p \in Prompts : CancelPrompt(p)
  <2>1. PICK p \in Prompts : CancelPrompt(p)
    BY <1>2
  <2>2. Call("cancel", p) \in Calls /\ Call("cancel", p).kind # "prompt"
    BY CallTypes
  <2>. QED
    BY <2>1, <2>2, CallArrives DEF CancelPrompt, Passed, ghost, LoopTypes
<1>3. CASE Abort
  <2>1. Call("abort", None) \in Calls /\ Call("abort", None).kind # "prompt"
    BY CallTypes
  <2>. QED
    BY <1>3, <2>1, CallArrives DEF Abort, Passed, ghost, LoopTypes
<1>4. CASE Switch
  <2>1. Call("switch", None) \in Calls /\ Call("switch", None).kind # "prompt"
    BY CallTypes
  <2>. QED
    BY <1>4, <2>1, CallArrives DEF Switch, Passed, ghost, LoopTypes
<1>5. CASE \E r \in Requests, decision \in {"reply", "stop"} : Answer(r, decision)
  <2>1. PICK r \in Requests, decision \in {"reply", "stop"} : Answer(r, decision)
    BY <1>5
  <2>2. Call(decision, r) \in Calls /\ Call(decision, r).kind # "prompt"
    BY CallTypes
  <2>. QED
    BY <2>1, <2>2, CallArrives DEF Answer, Passed, ghost, LoopTypes
<1>6. CASE ExitFromUi
  <2>1. exitReason' \in {None, "switch", "exit"}
    BY <1>6 DEF ExitFromUi, RequestExit, LoopTypes
  <2>. QED
    BY <1>6, <2>1, TypesAbort DEF ExitFromUi, RequestExit, LoopTypes
<1>. QED
  BY <1>1, <1>2, <1>3, <1>4, <1>5, <1>6 DEF User

LEMMA TypesReceive ==
  ASSUME LoopTypes, Receive
  PROVE  LoopTypes'
<1>. DEFINE c == Head(inbox)
<1>1. /\ inbox # <<>> /\ mode # "over" /\ mode' = mode /\ inbox' = Tail(inbox)
      /\ inbox \in Seq(Calls)
  BY DEF Receive, LoopTypes
<1>2. c \in ToSet(inbox) /\ inbox' \in Seq(Calls) /\ ToSet(inbox') \subseteq ToSet(inbox)
  BY <1>1, TailElements
<1>3. ASSUME UNCHANGED <<place, queue, waiter, aborted, exitReason, fate>>
      PROVE  LoopTypes'
  BY <1>1, <1>2, <1>3 DEF LoopTypes
<1>4. Installed => place # "gone" /\ (mode # "remote" => mode = "local" /\ place = "launched")
  BY <1>1 DEF LoopTypes, Installed, Modes
<1>5. CASE c.kind = "prompt" /\ Push(c.what) /\ UNCHANGED <<aborted, fate>>
  <2>1. queue' \in Seq(Prompts)
    BY <1>2, <1>5, AppendElements DEF Push, LoopTypes
  <2>. QED
    BY <1>1, <1>2, <1>5, <2>1 DEF Push, LoopTypes, Places
<1>6. CASE c.kind = "cancel" /\ CancelByLocalId(c.what) /\ UNCHANGED aborted
  <2>1. UNCHANGED <<place, waiter, exitReason>>
    BY <1>6 DEF CancelByLocalId
  <2>2. CASE UNCHANGED <<queue, fate>>
    BY <1>3, <1>6, <2>1, <2>2
  <2>3. CASE \E i \in DOMAIN queue : queue' = RemoveAt(queue, i) /\ fate' = [fate EXCEPT ![c.what] = "cancelled"]
    <3>1. queue' \in Seq(Prompts)
      BY <2>3, RemoveAtElements DEF LoopTypes
    <3>2. fate' \in [Prompts -> Fates]
      BY <2>3 DEF LoopTypes, Fates
    <3>. QED
      BY <1>1, <1>2, <1>6, <2>1, <3>1, <3>2 DEF LoopTypes
  <2>. QED
    BY <1>6, <2>2, <2>3 DEF CancelByLocalId
<1>7. CASE c.kind = "abort" /\ DoAbort
  <2>1. CASE ~Installed
    BY <1>3, <1>7, <2>1 DEF DoAbort
  <2>2. CASE Installed /\ mode = "remote"
    BY <1>1, <1>2, <1>7, <2>2, TypesAbort DEF DoAbort, LoopTypes
  <2>3. CASE Installed /\ mode # "remote"
    <3>1. /\ queue' = <<>> /\ waiter' = FALSE /\ UNCHANGED <<place, aborted>>
          /\ exitReason' \in {None, "switch", "exit"}
      BY <1>7, <2>3 DEF DoAbort, Reset, LoopTypes
    <3>2. fate' \in [Prompts -> Fates]
      BY <1>7, <2>3, MarkedTypes DEF DoAbort, Reset, Fates
    <3>3. queue' \in Seq(Prompts)
      BY <3>1
    <3>. QED
      BY <1>1, <1>2, <1>4, <2>3, <3>1, <3>2, <3>3 DEF LoopTypes
  <2>. QED
    BY <2>1, <2>2, <2>3
<1>8. CASE c.kind = "switch" /\ DoSwitch
  <2>1. CASE ~Installed
    BY <1>3, <1>8, <2>1 DEF DoSwitch
  <2>2. CASE Installed /\ mode = "remote"
    <3>1. exitReason' \in {None, "switch", "exit"}
      BY <1>8, <2>2 DEF DoSwitch, RequestExit, LoopTypes
    <3>. QED
      BY <1>1, <1>2, <1>8, <2>2, <3>1, TypesAbort DEF DoSwitch, RequestExit
  <2>3. CASE Installed /\ mode # "remote"
    BY <1>1, <1>2, <1>8, <2>3 DEF DoSwitch, LoopTypes
  <2>. QED
    BY <2>1, <2>2, <2>3
<1>9. CASE UNCHANGED <<place, queue, waiter, aborted, exitReason, fate>>
  BY <1>3, <1>9
<1>. QED
  BY <1>5, <1>6, <1>7, <1>8, <1>9 DEF Receive

(* The steps of the launchers and of the rest. *)
LEMMA TypesLoop ==
  ASSUME LoopTypes,
         \/ SetUp \/ Top \/ Resumed \/ StartPrompt \/ PromptDone \/ TurnOver \/ Leave
         \/ RunLocal \/ LocalEnds \/ Resume \/ Crash
  PROVE  LoopTypes'
<1>0. <<>> \in Seq(Prompts) /\ <<>> \in Seq(Calls) /\ ToSet(<<>>) = {}
  BY DEF ToSet
<1>1. CASE SetUp
  BY <1>1 DEF SetUp, Stay, LoopTypes, Places
<1>2. CASE Top
  <2>1. CASE place' = "leaving" /\ UNCHANGED <<queue, waiter, fate>>
    BY <1>2, <2>1 DEF Top, Stay, LoopTypes, Places
  <2>2. CASE Collect /\ UNCHANGED waiter
    BY <1>0, <1>2, <2>2, MarkedTypes DEF Top, Collect, Stay, LoopTypes, Places, Fates
  <2>3. CASE place' = "wait" /\ waiter' = TRUE /\ UNCHANGED <<queue, fate>>
    BY <1>2, <2>3 DEF Top, Stay, LoopTypes, Places
  <2>. QED
    BY <1>2, <2>1, <2>2, <2>3 DEF Top
<1>3. CASE Resumed
  <2>1. CASE Collect
    BY <1>0, <1>3, <2>1, MarkedTypes DEF Resumed, Collect, Stay, LoopTypes, Places, Fates
  <2>2. CASE NoBatch
    BY <1>3, <2>2 DEF Resumed, NoBatch, Stay, LoopTypes, Places
  <2>. QED
    BY <1>3, <2>1, <2>2 DEF Resumed
<1>4. CASE StartPrompt
  <2>1. fate' \in [Prompts -> Fates]
    BY <1>4 DEF StartPrompt, LoopTypes, Fates
  <2>. QED
    BY <1>4, <2>1 DEF StartPrompt, Stay, LoopTypes, Places
<1>5. CASE PromptDone
  BY <1>5 DEF PromptDone, LoopTypes, Places
<1>6. CASE TurnOver
  BY <1>6 DEF TurnOver, Stay, LoopTypes, Places
<1>7. CASE Leave
  BY <1>7 DEF Leave, LoopTypes, Places, Modes
<1>8. CASE RunLocal
  BY <1>8 DEF RunLocal, ToRemote, ghost, LoopTypes, Places, Modes
<1>9. CASE LocalEnds
  BY <1>9 DEF LocalEnds, ToRemote, ToEnd, ghost, LoopTypes, Places, Modes
<1>10. CASE Resume
  <2>1. fate' \in [Prompts -> Fates]
    BY <1>10 DEF Resume, LoopTypes, Fates
  <2>. QED
    BY <1>0, <1>10, <2>1 DEF Resume, LoopTypes, Places, Modes
<1>11. CASE Crash
  <2>1. fate' \in [Prompts -> Fates]
    BY <1>11 DEF Crash, LoopTypes, Fates
  <2>. QED
    BY <1>0, <1>11, <2>1 DEF Crash, LoopTypes, Places, Modes
<1>. QED
  BY <1>1, <1>2, <1>3, <1>4, <1>5, <1>6, <1>7, <1>8, <1>9, <1>10, <1>11

LEMMA TypesInit == Init => LoopTypes
<1>. SUFFICES ASSUME Init PROVE LoopTypes
  OBVIOUS
<1>1. /\ inbox = <<>> /\ inbox \in Seq(Calls) /\ queue \in Seq(Prompts) /\ ToSet(inbox) = {}
      /\ fate \in [Prompts -> Fates]
  BY DEF Init, ToSet, Fates
<1>. QED
  BY <1>1 DEF Init, LoopTypes, Modes, Places

LEMMA TypesStep == LoopTypes /\ [Next]_vars => LoopTypes'
<1>. SUFFICES ASSUME LoopTypes, [Next]_vars PROVE LoopTypes'
  OBVIOUS
<1>1. CASE User
  BY <1>1, TypesUser
<1>2. CASE Receive
  BY <1>2, TypesReceive
<1>3. CASE \/ SetUp \/ Top \/ Resumed \/ StartPrompt \/ PromptDone \/ TurnOver \/ Leave
           \/ RunLocal \/ LocalEnds \/ Resume \/ Crash
  BY <1>3, TypesLoop
<1>4. CASE HandlePermissionRequest \/ Agent \/ ApplyUpdate \/ NoticeFires \/ Inactive
  BY <1>4, TypesStutter DEF HandlePermissionRequest, Agent, AgentReads, AgentAsks, AgentEndsTurn,
                            ApplyUpdate, NoticeFires, Inactive, cli, ghost, LoopTypeVars
<1>5. CASE UNCHANGED vars
  BY <1>5, TypesStutter DEF vars, cli, ghost, LoopTypeVars
<1>. QED
  BY <1>1, <1>2, <1>3, <1>4, <1>5 DEF Next, Process, Hub

LEMMA TimerStep == timer \in BOOLEAN /\ [Next]_vars => timer' \in BOOLEAN
<1>. SUFFICES ASSUME timer \in BOOLEAN, [Next]_vars PROVE timer' \in BOOLEAN
  OBVIOUS
<1>1. CASE Hub
  BY <1>1 DEF Hub, ApplyUpdate, NoticeFires, Inactive, Resume, Checked
<1>2. CASE Crash
  BY <1>2 DEF Crash
<1>. QED
  BY <1>1, <1>2, HubLeftAlone

(* BasePermissionHandler and the agent state: whatever is stopped, answered,  *)
(* switched or killed in between, a question the agent waits on can still be  *)
(* answered, and once the updates under way are applied the hub shows what is *)
(* pending in the process and what a process that was killed left behind.     *)
THEOREM RequestsAlwaysAgree == Spec => []RequestsAgree
<1>. DEFINE Inv == LoopTypes /\ RequestInv /\ NoticeInv /\ timer \in BOOLEAN
<1>1. Init => Inv
  BY TypesInit, RequestInit, NoticeInit DEF Init
<1>2. Inv /\ [Next]_vars => Inv'
  BY TypesStep, RequestStep, NoticeStep, TimerStep
<1>3. ASSUME Inv PROVE RequestsAgree
  <2>1. shown \subseteq Requests /\ known \subseteq Requests
    BY <1>3 DEF RequestInv, Fresh, NoticeInv
  <2>2. TypeOK
    BY <1>3, <2>1 DEF TypeOK, LoopTypes, RequestInv, NoticeInv
  <2>3. /\ \A r : Contains(fromAgent, Call("ask", r)) <=> Call("ask", r) \in ToSet(fromAgent)
        /\ \A r : Contains(toAgent, Call("answer", r)) <=> Call("answer", r) \in ToSet(toAgent)
        /\ Contains(toAgent, Call("cancel", None)) <=> Call("cancel", None) \in ToSet(toAgent)
    BY <1>3, ContainsIs DEF RequestInv
  <2>4. WillShow \ stale = pending /\ \A r \in agent.asks : Answerable(r)
    BY <1>3 DEF RequestInv
  <2>. QED
    BY <2>2, <2>3, <2>4 DEF RequestsAgree, Answerable
<1>. QED
  BY <1>1, <1>2, <1>3, PTL DEF Spec
=============================================================================
