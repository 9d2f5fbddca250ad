-------------------------- MODULE SessionAliveProofs --------------------------
(***************************************************************************)
(* Proofs about SessionAlive, for every set of prompts, every number of    *)
(* changes of the mode, every bound on the messages under way and every    *)
(* budget of troubles.                                                     *)
(***************************************************************************)
EXTENDS SessionAlive, SequenceTheorems, TLAPS

-----------------------------------------------------------------------------
(* The inductive argument.  What can still change the mode the hub shows is  *)
(* under way in the order in which the process had it, up to the mode the    *)
(* process has now: keep-alives that no change of the hub made old, and the  *)
(* answer to a call that was not given up.  Unless a change went to the      *)
(* cache only while a process lived or started, all of it is as late as the  *)
(* mode that is shown.                                                       *)

AliveMsg    == [t : {"alive"}, thinking : BOOLEAN, mode : Modes \cup {Unsaid}, old : BOOLEAN]
ConsumedMsg == [t : {"consumed"}, p : Prompts, clear : BOOLEAN]
AckMsg      == [t : {"ack"}, call : Calls, mode : Modes, late : BOOLEAN]
EndMsg      == [t : {"end"}]
Message     == AliveMsg \cup ConsumedMsg \cup AckMsg \cup EndMsg

LiveAck(m) == m.t = "ack" /\ ~m.late
Telling(m) == \/ m.t = "alive" /\ m.mode # Unsaid /\ ~m.old
              \/ LiveAck(m) /\ m.call = "config"

(* what s tells is in order and not beyond top, and not before low *)
Ordered(s, top) ==
  \A i \in DOMAIN s : Telling(s[i]) =>
    /\ s[i].mode <= top
    /\ \A j \in DOMAIN s : (i < j /\ Telling(s[j])) => s[i].mode <= s[j].mode
Above(s, low) == \A i \in DOMAIN s : Telling(s[i]) => low <= s[i].mode

(* one answer at most to each call that is awaited and was heard *)
Answered(s, awaited, unheard) ==
  \A i \in DOMAIN s : LiveAck(s[i]) =>
    /\ s[i].call \in awaited \ unheard
    /\ \A j \in DOMAIN s : (LiveAck(s[j]) /\ s[j].call = s[i].call) => i = j

Starting == spawn.st \in {"spawning", "forgotten"}

Types == TypeOK /\ wire \in Seq(Message)

Current ==
  /\ Above(wire, view.mode)
  /\ proc.st # "gone" => view.mode <= proc.mode
  /\ Starting => view.mode <= spawn.mode

ModeInv ==
  /\ pref = view.mode
  /\ view.mode <= changes /\ proc.mode <= changes /\ spawn.mode <= changes
  /\ Ordered(wire, proc.mode)
  /\ Answered(wire, pending, asked)
  /\ Starting => proc.st = "gone" /\ wire = <<>>
  /\ ~untold => Current

Turn == view.turn => view.thinking \/ lapsed

AliveInv == Types /\ Turn /\ ModeInv
-----------------------------------------------------------------------------
(* The messages.                                                             *)

LEMMA MadeMessages ==
  /\ \A b \in BOOLEAN, m \in Modes \cup {Unsaid} : KeepAlive(b, m) \in Message
  /\ \A p \in Prompts, b \in BOOLEAN : Consumed(p, b) \in Message
  /\ \A c \in Calls, m \in Modes : Ack(c, m) \in Message
  /\ SessionEnd \in Message
BY DEF KeepAlive, Consumed, Ack, SessionEnd, Message, AliveMsg, ConsumedMsg, AckMsg, EndMsg

LEMMA MessageKinds ==
  ASSUME NEW m \in Message
  PROVE  /\ m.t \in {"alive", "consumed", "ack", "end"}
         /\ m.t = "alive" => m \in AliveMsg
         /\ m.t = "consumed" => m \in ConsumedMsg
         /\ m.t = "ack" => m \in AckMsg
BY DEF Message, AliveMsg, ConsumedMsg, AckMsg, EndMsg

LEMMA TellingMode == ASSUME NEW m \in Message, Telling(m) PROVE m.mode \in Modes
BY MessageKinds DEF Telling, LiveAck, AliveMsg, AckMsg

LEMMA ModesAreNumbers == Modes \subseteq Int /\ 0 \in Modes
BY BoundsAssumption DEF Modes

(* What is marked keeps its place and its mode. *)
LEMMA MarkOldKeeps ==
  ASSUME NEW s \in Seq(Message)
  PROVE  /\ MarkOld(s) \in Seq(Message) /\ Len(MarkOld(s)) = Len(s)
         /\ DOMAIN MarkOld(s) = DOMAIN s
         /\ \A i \in DOMAIN s :
              /\ LiveAck(MarkOld(s)[i]) <=> LiveAck(s[i])
              /\ s[i].t = "ack" => MarkOld(s)[i] = s[i]
              /\ Telling(MarkOld(s)[i]) => LiveAck(s[i]) /\ Telling(s[i]) /\ MarkOld(s)[i] = s[i]
<1>1. DOMAIN s = 1..Len(s) /\ Len(s) \in Nat /\ \A i \in DOMAIN s : s[i] \in Message
  BY LenProperties, ElementOfSeq
<1>2. ASSUME NEW i \in DOMAIN s PROVE MarkOld(s)[i] \in Message
  BY <1>1, <1>2, MessageKinds DEF MarkOld, Message, AliveMsg
<1>3. ASSUME NEW i \in DOMAIN s
      PROVE  /\ LiveAck(MarkOld(s)[i]) <=> LiveAck(s[i])
             /\ s[i].t = "ack" => MarkOld(s)[i] = s[i]
             /\ Telling(MarkOld(s)[i]) => LiveAck(s[i]) /\ Telling(s[i]) /\ MarkOld(s)[i] = s[i]
  <2>1. CASE s[i].t = "alive"
    <3>1. s[i] \in AliveMsg
      BY <1>1, <2>1, MessageKinds
    <3>2. MarkOld(s)[i].t = "alive" /\ MarkOld(s)[i].old
      BY <2>1, <3>1 DEF MarkOld, AliveMsg
    <3>. QED
      BY <2>1, <3>2 DEF LiveAck, Telling
  <2>2. CASE s[i].t # "alive"
    BY <2>2 DEF MarkOld, LiveAck, Telling
  <2>. QED
    BY <2>1, <2>2
<1>4. MarkOld(s) = [i \in 1..Len(s) |-> MarkOld(s)[i]]
  BY <1>1 DEF MarkOld
<1>5. MarkOld(s) \in Seq(Message) /\ Len(MarkOld(s)) = Len(s)
  BY <1>1, <1>2, <1>4, IsASeq DEF MarkOld
<1>. QED
  BY <1>3, <1>5, <1>1 DEF MarkOld

LEMMA MarkLateKeeps ==
  ASSUME NEW s \in Seq(Message), NEW c \in Calls
  PROVE  /\ MarkLate(s, c) \in Seq(Message) /\ Len(MarkLate(s, c)) = Len(s)
         /\ DOMAIN MarkLate(s, c) = DOMAIN s
         /\ \A i \in DOMAIN s :
              /\ LiveAck(MarkLate(s, c)[i]) =>
                   LiveAck(s[i]) /\ s[i].call # c /\ MarkLate(s, c)[i] = s[i]
              /\ Telling(MarkLate(s, c)[i]) => Telling(s[i]) /\ MarkLate(s, c)[i] = s[i]
<1>1. DOMAIN s = 1..Len(s) /\ Len(s) \in Nat /\ \A i \in DOMAIN s : s[i] \in Message
  BY LenProperties, ElementOfSeq
<1>2. ASSUME NEW i \in DOMAIN s PROVE MarkLate(s, c)[i] \in Message
  BY <1>1, <1>2, MessageKinds DEF MarkLate, Message, AckMsg
<1>3. ASSUME NEW i \in DOMAIN s
      PROVE  /\ LiveAck(MarkLate(s, c)[i]) =>
                  LiveAck(s[i]) /\ s[i].call # c /\ MarkLate(s, c)[i] = s[i]
             /\ Telling(MarkLate(s, c)[i]) => Telling(s[i]) /\ MarkLate(s, c)[i] = s[i]
  <2>1. CASE s[i].t = "ack" /\ s[i].call = c
    <3>1. s[i] \in AckMsg
      BY <1>1, <2>1, MessageKinds
    <3>2. MarkLate(s, c)[i].t = "ack" /\ MarkLate(s, c)[i].late
      BY <2>1, <3>1 DEF MarkLate, AckMsg
    <3>. QED
      BY <2>1, <3>2 DEF LiveAck, Telling
  <2>2. CASE ~(s[i].t = "ack" /\ s[i].call = c)
    <3>1. MarkLate(s, c)[i] = s[i]
      BY <2>2 DEF MarkLate
    <3>. QED
      BY <2>2, <3>1 DEF LiveAck, Telling
  <2>. QED
    BY <2>1, <2>2
<1>4. MarkLate(s, c) = [i \in 1..Len(s) |-> MarkLate(s, c)[i]]
  BY <1>1 DEF MarkLate
<1>5. MarkLate(s, c) \in Seq(Message) /\ Len(MarkLate(s, c)) = Len(s)
  BY <1>1, <1>2, <1>4, IsASeq DEF MarkLate
<1>. QED
  BY <1>3, <1>5, <1>1 DEF MarkLate
-----------------------------------------------------------------------------
(* What the steps do to the messages under way keeps them in order.          *)

LEMMA TailKeeps ==
  ASSUME NEW s \in Seq(Message), s # <<>>
  PROVE  /\ Head(s) \in Message /\ Head(s) = s[1] /\ 1 \in DOMAIN s
         /\ Tail(s) \in Seq(Message) /\ Len(Tail(s)) = Len(s) - 1 /\ Len(s) \in Nat
         /\ \A i \in DOMAIN Tail(s) : i + 1 \in DOMAIN s /\ Tail(s)[i] = s[i + 1] /\ i \in Int /\ i >= 1
<1>1. /\ Len(s) \in Nat /\ Len(s) >= 1
      /\ Head(s) = s[1] /\ Head(s) \in Message
      /\ Tail(s) \in Seq(Message) /\ Len(Tail(s)) = Len(s) - 1
      /\ \A i \in 1..Len(Tail(s)) : Tail(s)[i] = s[i + 1]
  BY HeadTailProperties, LenProperties, EmptySeq
<1>2. DOMAIN s = 1..Len(s) /\ DOMAIN Tail(s) = 1..Len(Tail(s))
  BY <1>1, LenProperties
<1>. QED
  BY <1>1, <1>2

LEMMA TailOrdered ==
  ASSUME NEW s \in Seq(Message), s # <<>>, NEW top, Ordered(s, top)
  PROVE  /\ Ordered(Tail(s), top)
         /\ \A low : Above(s, low) => Above(Tail(s), low)
         /\ Telling(Head(s)) => Head(s).mode <= top /\ Above(Tail(s), Head(s).mode)
<1>1. \A i \in DOMAIN Tail(s) : i + 1 \in DOMAIN s /\ Tail(s)[i] = s[i + 1] /\ 1 < i + 1
  BY TailKeeps
<1>2. \A i, j \in DOMAIN Tail(s) : i < j => i + 1 < j + 1
  BY TailKeeps
<1>3. Head(s) = s[1] /\ 1 \in DOMAIN s
  BY TailKeeps
<1>. QED
  BY <1>1, <1>2, <1>3 DEF Ordered, Above

LEMMA TailAnswered ==
  ASSUME NEW s \in Seq(Message), s # <<>>, NEW a, NEW u, Answered(s, a, u)
  PROVE  /\ Answered(Tail(s), a, u)
         /\ LiveAck(Head(s)) => /\ Head(s).call \in a
                                /\ Answered(Tail(s), a \ {Head(s).call}, u)
<1>1. \A i \in DOMAIN Tail(s) : i + 1 \in DOMAIN s /\ Tail(s)[i] = s[i + 1] /\ i + 1 # 1
  BY TailKeeps
<1>2. \A i, j \in DOMAIN Tail(s) : i + 1 = j + 1 => i = j
  BY TailKeeps
<1>3. Head(s) = s[1] /\ 1 \in DOMAIN s
  BY TailKeeps
<1>. QED
  BY <1>1, <1>2, <1>3 DEF Answered

LEMMA ConcatMessages ==
  ASSUME NEW s \in Seq(Message), NEW ms \in Seq(Message)
  PROVE  /\ s \o ms \in Seq(Message) /\ Len(s \o ms) = Len(s) + Len(ms)
         /\ \A i \in DOMAIN (s \o ms) :
              \/ i \in DOMAIN s /\ (s \o ms)[i] = s[i] /\ i <= Len(s)
              \/ /\ i - Len(s) \in DOMAIN ms /\ (s \o ms)[i] = ms[i - Len(s)]
                 /\ i \in Int /\ i > Len(s)
         /\ Len(s) \in Nat /\ Len(ms) \in Nat
<1>1. /\ s \o ms \in Seq(Message)
      /\ Len(s \o ms) = Len(s) + Len(ms)
      /\ \A i \in 1..(Len(s) + Len(ms)) :
           (s \o ms)[i] = IF i <= Len(s) THEN s[i] ELSE ms[i - Len(s)]
  BY ConcatProperties
<1>2. /\ Len(s) \in Nat /\ Len(ms) \in Nat
      /\ DOMAIN s = 1..Len(s) /\ DOMAIN ms = 1..Len(ms)
      /\ DOMAIN (s \o ms) = 1..(Len(s) + Len(ms))
  BY <1>1, LenProperties
<1>3. \A i \in 1..(Len(s) + Len(ms)) : ~(i <= Len(s)) => i - Len(s) \in 1..Len(ms)
  BY <1>2
<1>. QED
  BY <1>1, <1>2, <1>3

LEMMA ConcatOrdered ==
  ASSUME NEW s \in Seq(Message), NEW ms \in Seq(Message), NEW top \in Int, NEW new \in Int,
         Ordered(s, top), top <= new,
         \A i \in DOMAIN ms : Telling(ms[i]) => ms[i].mode = new
  PROVE  /\ Ordered(s \o ms, new)
         /\ \A low : (Above(s, low) /\ low <= new) => Above(s \o ms, low)
<1>1. ASSUME NEW i \in DOMAIN (s \o ms), Telling((s \o ms)[i])
      PROVE  /\ (s \o ms)[i].mode <= new /\ (s \o ms)[i].mode \in Int
             /\ \/ (s \o ms)[i].mode = new
                \/ i <= Len(s) /\ i \in DOMAIN s /\ (s \o ms)[i] = s[i]
  <2>1. CASE i \in DOMAIN s /\ (s \o ms)[i] = s[i] /\ i <= Len(s)
    <3>1. s[i] \in Message /\ s[i].mode \in Int
      BY <1>1, <2>1, ElementOfSeq, LenProperties, TellingMode, ModesAreNumbers
    <3>. QED
      BY <1>1, <2>1, <3>1 DEF Ordered
  <2>2. CASE i - Len(s) \in DOMAIN ms /\ (s \o ms)[i] = ms[i - Len(s)]
    BY <1>1, <2>2
  <2>. QED
    BY <2>1, <2>2, ConcatMessages
<1>2. ASSUME NEW i \in DOMAIN (s \o ms), Telling((s \o ms)[i]),
             NEW j \in DOMAIN (s \o ms), i < j, Telling((s \o ms)[j])
      PROVE  (s \o ms)[i].mode <= (s \o ms)[j].mode
  <2>1. CASE (s \o ms)[j].mode = new
    BY <1>1, <1>2, <2>1
  <2>2. CASE j <= Len(s) /\ j \in DOMAIN s /\ (s \o ms)[j] = s[j]
    <3>1. (i \in DOMAIN s /\ (s \o ms)[i] = s[i]) \/ (i \in Int /\ i > Len(s))
      BY <1>2, ConcatMessages
    <3>2. j \in Int /\ Len(s) \in Int
      BY <2>2, LenProperties
    <3>3. i \in DOMAIN s /\ (s \o ms)[i] = s[i]
      BY <1>2, <2>2, <3>1, <3>2
    <3>. QED
      BY <1>2, <2>2, <3>3 DEF Ordered
  <2>. QED
    BY <1>1, <1>2, <2>1, <2>2
<1>3. Ordered(s \o ms, new)
  BY <1>1, <1>2 DEF Ordered
<1>4. ASSUME NEW low, Above(s, low), low <= new PROVE Above(s \o ms, low)
  BY <1>1, <1>4 DEF Above
<1>. QED
  BY <1>3, <1>4

(* The answers that are sent: at most one, and last, to a call that was heard. *)
LEMMA ConcatAnswered ==
  ASSUME NEW s \in Seq(Message), NEW ms \in Seq(Message), NEW a, NEW u, NEW v, v \subseteq u,
         Answered(s, a, u),
         \A i \in DOMAIN ms : LiveAck(ms[i]) =>
           i = Len(ms) /\ ms[i].call \in a /\ ms[i].call \in u \ v
  PROVE  Answered(s \o ms, a, v)
<1>1. SUFFICES ASSUME NEW i \in DOMAIN (s \o ms), LiveAck((s \o ms)[i])
               PROVE  /\ (s \o ms)[i].call \in a \ v
                      /\ \A j \in DOMAIN (s \o ms) :
                           (LiveAck((s \o ms)[j]) /\ (s \o ms)[j].call = (s \o ms)[i].call) => i = j
  BY DEF Answered
<1>2. ASSUME NEW k \in DOMAIN (s \o ms), LiveAck((s \o ms)[k])
      PROVE  \/ /\ k \in DOMAIN s /\ (s \o ms)[k] = s[k]
                /\ s[k].call \in a \ u
             \/ /\ k = Len(s) + Len(ms) /\ (s \o ms)[k].call \in (a \cap u) \ v
  <2>1. CASE k \in DOMAIN s /\ (s \o ms)[k] = s[k]
    BY <1>2, <2>1 DEF Answered
  <2>2. CASE k - Len(s) \in DOMAIN ms /\ (s \o ms)[k] = ms[k - Len(s)] /\ k \in Int
    <3>1. k - Len(s) = Len(ms) /\ ms[k - Len(s)].call \in (a \cap u) \ v
      BY <1>2, <2>2
    <3>2. Len(s) \in Nat /\ Len(ms) \in Nat
      BY LenProperties
    <3>3. k = Len(s) + Len(ms)
      BY <2>2, <3>1, <3>2
    <3>. QED
      BY <2>2, <3>1, <3>3
  <2>. QED
    BY <1>2, <2>1, <2>2, ConcatMessages
<1>3. (s \o ms)[i].call \in a \ v
  BY <1>1, <1>2
<1>4. ASSUME NEW j \in DOMAIN (s \o ms), LiveAck((s \o ms)[j]), (s \o ms)[j].call = (s \o ms)[i].call
      PROVE  i = j
  <2>1. CASE i \in DOMAIN s /\ (s \o ms)[i] = s[i] /\ s[i].call \notin u
    <3>1. j \in DOMAIN s /\ (s \o ms)[j] = s[j]
      BY <1>2, <1>4, <2>1
    <3>. QED
      BY <1>1, <1>4, <2>1, <3>1 DEF Answered
  <2>2. CASE i = Len(s) + Len(ms) /\ (s \o ms)[i].call \in u
    BY <1>2, <1>4, <2>2
  <2>. QED
    BY <1>1, <1>2, <2>1, <2>2
<1>. QED
  BY <1>3, <1>4
-----------------------------------------------------------------------------
(* The types.                                                                *)

LEMMA EmitTypes ==
  ASSUME Types, NEW ms \in Seq(Message), Emit(ms)
  PROVE  wire' \in Seq(Message) /\ Len(wire') <= MaxWire
BY ConcatMessages DEF Types, TypeOK, Emit

LEMMA SpendTypes == ASSUME Types, NEW f \in Troubles, Spend(f) PROVE spent' \in [Troubles -> Nat]
BY DEF Types, TypeOK, Spend

LEMMA ChangeTypes == ASSUME Types, Change PROVE changes' \in Modes /\ changes' = changes + 1
BY BoundsAssumption DEF Types, TypeOK, Change, Modes

LEMMA TroubleNames == {"stall", "drop", "crash", "restart", "timeout", "resume", "archive"} = Troubles
BY DEF Troubles

LEMMA EmitAliveTypes ==
  ASSUME Types, NEW b \in BOOLEAN, EmitAlive(b)
  PROVE  wire' \in Seq(Message) /\ Len(wire') <= MaxWire
<1>1. proc.mode \in Modes
  BY DEF Types, TypeOK
<1>2. <<KeepAlive(b, proc.mode)>> \in Seq(Message)
  BY <1>1, MadeMessages
<1>3. CASE Emit(<<KeepAlive(b, proc.mode)>>)
  BY <1>2, <1>3, EmitTypes
<1>4. CASE UNCHANGED wire
  BY <1>4 DEF Types, TypeOK
<1>. QED
  BY <1>3, <1>4 DEF EmitAlive

LEMMA ApplyConfigTypes ==
  ASSUME Types, NEW m \in Modes, NEW s \in Seq(Message), Len(s) <= MaxWire, ApplyConfig(m, s)
  PROVE  /\ view' = [view EXCEPT !.mode = m] /\ pref' = m
         /\ wire' \in Seq(Message) /\ Len(wire') <= MaxWire
<1>1. view' = [view EXCEPT !.mode = m] /\ pref' = m /\ wire' = MarkOld(s)
  BY DEF ApplyConfig
<1>2. MarkOld(s) \in Seq(Message) /\ Len(MarkOld(s)) = Len(s)
  BY MarkOldKeeps
<1>. QED
  BY <1>1, <1>2

LEMMA EndViewTypes ==
  ASSUME Types, EndView
  PROVE  /\ view' \in [active : BOOLEAN, silent : BOOLEAN, thinking : BOOLEAN, turn : BOOLEAN,
                        held : BOOLEAN, mode : Modes]
         /\ view'.mode = view.mode /\ lapsed' \in BOOLEAN
         /\ Turn => Turn'
BY DEF Types, TypeOK, EndView, Turn

LEMMA AliveTypes ==
  ASSUME Types, NEW m \in AliveMsg, Alive(m)
  PROVE  /\ view' \in [active : BOOLEAN, silent : BOOLEAN, thinking : BOOLEAN, turn : BOOLEAN,
                        held : BOOLEAN, mode : Modes]
         /\ pref' \in Modes /\ untold' \in BOOLEAN /\ lapsed' \in BOOLEAN
         /\ Turn => Turn'
<1>. DEFINE preserve == ~m.thinking /\ view.held
            thinking == m.thinking \/ preserve
            rolled   == preserve /\ queued # {}
            ended    == view.thinking /\ ~thinking
            mode     == IF m.mode = Unsaid \/ m.old THEN view.mode ELSE m.mode
<1>1. /\ view' = [active |-> TRUE, silent |-> FALSE, thinking |-> thinking, mode |-> mode,
                  held |-> view.held /\ ~m.thinking, turn |-> rolled \/ (view.turn /\ ~ended)]
      /\ pref' = IF m.mode = Unsaid \/ m.old THEN pref ELSE m.mode
      /\ untold' = (untold /\ mode = view.mode)
      /\ lapsed' = (lapsed /\ ~rolled /\ ~ended)
  BY DEF Alive
<1>2. /\ m.thinking \in BOOLEAN /\ view.held \in BOOLEAN /\ view.turn \in BOOLEAN
      /\ view.thinking \in BOOLEAN /\ mode \in Modes /\ untold \in BOOLEAN /\ lapsed \in BOOLEAN
      /\ pref \in Modes
  BY DEF AliveMsg, Types, TypeOK
<1>3. /\ view'.turn = (rolled \/ (view.turn /\ ~ended)) /\ view'.thinking = thinking
  BY <1>1
<1>4. Turn => Turn'
  BY <1>1, <1>2, <1>3 DEF Turn
<1>5. pref' \in Modes
  BY <1>1, <1>2 DEF AliveMsg
<1>. HIDE DEF mode
<1>. QED
  BY <1>1, <1>2, <1>4, <1>5
LEMMA NothingOnTheWire == wire' = <<>> => wire' \in Seq(Message) /\ Len(wire') <= MaxWire
<1>1. <<>> \in Seq(Message) /\ Len(<<>>) = 0
  OBVIOUS
<1>. QED
  BY <1>1, BoundsAssumption

LEMMA TypesInit == Init => Types /\ Turn
<1>1. ASSUME Init PROVE /\ view \in [active : BOOLEAN, silent : BOOLEAN, thinking : BOOLEAN,
                                      turn : BOOLEAN, held : BOOLEAN, mode : Modes]
                         /\ ~view.turn
  BY <1>1, ModesAreNumbers DEF Init
<1>2. ASSUME Init PROVE wire \in Seq(Message) /\ Len(wire) <= MaxWire
  <2>1. wire = <<>> /\ <<>> \in Seq(Message) /\ Len(<<>>) = 0
    BY <1>2 DEF Init
  <2>. QED
    BY <2>1, BoundsAssumption
<1>3. ASSUME Init PROVE spent \in [Troubles -> Nat]
  BY <1>3 DEF Init
<1>4. ASSUME Init
      PROVE  proc \in [st : Living \cup {"closing", "gone"}, mode : Modes, up : BOOLEAN]
  BY <1>4, ModesAreNumbers DEF Init, Living
<1>5. ASSUME Init
      PROVE  spawn \in [st : {"none", "spawning", "forgotten", "waiting", "seen"}, mode : Modes]
  BY <1>5, ModesAreNumbers DEF Init
<1>. QED
  BY <1>1, <1>2, <1>3, <1>4, <1>5, ModesAreNumbers DEF Init, Types, TypeOK, Turn

LEMMA TypesNext == ASSUME Types, Turn, [Next]_vars PROVE Types' /\ Turn'
<1>1. ASSUME NEW p \in Prompts, SendMessage(p) PROVE Types' /\ Turn'
  BY <1>1 DEF SendMessage, MarkMessageQueued, Types, TypeOK, Turn, hubVars, rowVars, callVars, procVars
<1>2. CASE CallConfig
  BY <1>2 DEF CallConfig, Call, Calls, Types, TypeOK, Turn, hubVars, rowVars, callVars, procVars
<1>3. CASE ConfigInactive
  <2>1. changes' \in Modes /\ wire \in Seq(Message) /\ Len(wire) <= MaxWire
    BY <1>3, ChangeTypes DEF ConfigInactive, Types, TypeOK
  <2>2. /\ view' = [view EXCEPT !.mode = changes'] /\ pref' = changes'
        /\ wire' \in Seq(Message) /\ Len(wire') <= MaxWire
    BY <1>3, <2>1, ApplyConfigTypes DEF ConfigInactive
  <2>. QED
    BY <1>3, <2>1, <2>2 DEF ConfigInactive, Types, TypeOK, Turn, hubVars, rowVars, callVars, procVars
<1>4. CASE ArchiveSession
  <2>1. spent' \in [Troubles -> Nat]
    BY <1>4, SpendTypes, TroubleNames DEF ArchiveSession
  <2>2. CASE Call("kill") /\ UNCHANGED <<view, lapsed>>
    BY <1>4, <2>1, <2>2 DEF ArchiveSession, Call, Calls, Types, TypeOK, Turn, hubVars, rowVars, callVars, procVars
  <2>3. CASE EndView /\ UNCHANGED <<pending, asked>>
    BY <1>4, <2>1, <2>3, EndViewTypes DEF ArchiveSession, Types, TypeOK, Turn, hubVars, rowVars, callVars, procVars
  <2>. QED
    BY <1>4, <2>2, <2>3 DEF ArchiveSession
<1>5. CASE ResumeSession
  <2>1. spent' \in [Troubles -> Nat]
    BY <1>5, SpendTypes, TroubleNames DEF ResumeSession
  <2>. QED
    BY <1>5, <2>1 DEF ResumeSession, Types, TypeOK, Turn, hubVars, rowVars, callVars, procVars
<1>6. CASE Handle
  <2>. DEFINE m == Head(wire)
  <2>1. /\ wire # <<>> /\ m \in Message /\ Tail(wire) \in Seq(Message)
        /\ Len(Tail(wire)) <= MaxWire /\ MaxWire \in Int
    BY <1>6, TailKeeps, BoundsAssumption DEF Handle, Types, TypeOK
  <2>2. UNCHANGED <<posted, spawn, asked, procVars, changes, spent>>
    BY <1>6 DEF Handle
  <2>3. CASE m.t = "alive" /\ Alive(m) /\ wire' = Tail(wire) /\ UNCHANGED <<queued, pending>>
    <3>1. m \in AliveMsg
      BY <2>1, <2>3, MessageKinds
    <3>2. HIDE DEF m
    <3>3. /\ view' \in [active : BOOLEAN, silent : BOOLEAN, thinking : BOOLEAN, turn : BOOLEAN,
                         held : BOOLEAN, mode : Modes]
          /\ pref' \in Modes /\ untold' \in BOOLEAN /\ lapsed' \in BOOLEAN /\ Turn'
      BY <3>1, <2>3, AliveTypes
    <3>. QED
      BY <2>1, <2>2, <2>3, <3>3 DEF Types, TypeOK, procVars
  <2>4. CASE /\ m.t = "consumed" /\ queued' = queued \ {m.p}
             /\ view' = [view EXCEPT !.held = @ /\ ~m.clear]
             /\ wire' = Tail(wire) /\ UNCHANGED <<pref, untold, lapsed, pending>>
    <3>1. m.clear \in BOOLEAN
      BY <2>1, <2>4, MessageKinds DEF ConsumedMsg
    <3>2. HIDE DEF m
    <3>. QED
      BY <2>1, <2>2, <2>4, <3>1 DEF Types, TypeOK, Turn, hubVars, rowVars, callVars, procVars
  <2>5. CASE /\ EndView /\ queued' = {} /\ wire' = Tail(wire)
             /\ UNCHANGED <<pref, untold, pending>>
    BY <2>1, <2>2, <2>5, EndViewTypes DEF Types, TypeOK, Turn, hubVars, rowVars, callVars, procVars
  <2>6. CASE /\ m.t = "ack" /\ pending' = pending \ {m.call}
             /\ ApplyConfig(m.mode, Tail(wire)) /\ untold' = FALSE /\ UNCHANGED <<lapsed, queued>>
    <3>1. m.mode \in Modes
      BY <2>1, <2>6, MessageKinds DEF AckMsg
    <3>2. HIDE DEF m
    <3>3. /\ view' = [view EXCEPT !.mode = m.mode] /\ pref' = m.mode
          /\ wire' \in Seq(Message) /\ Len(wire') <= MaxWire
      BY <2>1, <2>6, <3>1, ApplyConfigTypes
    <3>. QED
      BY <2>2, <2>6, <3>1, <3>3 DEF Types, TypeOK, Turn, hubVars, rowVars, callVars, procVars
  <2>7. CASE /\ pending' = pending \ {m.call} /\ EndView
             /\ wire' = Tail(wire) /\ UNCHANGED <<pref, untold, queued>>
    <3>1. HIDE DEF m
    <3>. QED
      BY <2>1, <2>2, <2>7, EndViewTypes DEF Types, TypeOK, Turn, hubVars, rowVars, callVars, procVars
  <2>8. CASE wire' = Tail(wire) /\ UNCHANGED <<hubVars, queued, pending>>
    BY <2>1, <2>2, <2>8 DEF Types, TypeOK, Turn, hubVars, rowVars, callVars, procVars
  <2>. QED
    BY <1>6, <2>3, <2>4, <2>5, <2>6, <2>7, <2>8 DEF Handle
<1>7. CASE FallSilent
  <2>1. spent' \in [Troubles -> Nat]
    BY <1>7, SpendTypes, TroubleNames DEF FallSilent, Types, TypeOK
  <2>. QED
    BY <1>7, <2>1 DEF FallSilent, Types, TypeOK, Turn, hubVars, rowVars, callVars, procVars
<1>8. CASE ExpireInactive
  BY <1>8 DEF ExpireInactive, Types, TypeOK, Turn, hubVars, rowVars, callVars, procVars
<1>9. CASE GraceEnds
  BY <1>9 DEF GraceEnds, Types, TypeOK, Turn, hubVars, rowVars, callVars, procVars
<1>10. CASE Waited
  BY <1>10 DEF Waited, Types, TypeOK, Turn, hubVars, rowVars, callVars, procVars
<1>11. CASE MarkSessionActive
  BY <1>11 DEF MarkSessionActive, Types, TypeOK, Turn, hubVars, rowVars, callVars, procVars
<1>12. CASE HubRestart
  <2>1. spent' \in [Troubles -> Nat]
    BY <1>12, SpendTypes, TroubleNames DEF HubRestart
  <2>2. wire' \in Seq(Message) /\ Len(wire') <= MaxWire
    BY <1>12, NothingOnTheWire DEF HubRestart
  <2>3. spawn' \in [st : {"none", "spawning", "forgotten", "waiting", "seen"}, mode : Modes]
    BY <1>12 DEF HubRestart, Types, TypeOK
  <2>4. proc' \in [st : Living \cup {"closing", "gone"}, mode : Modes, up : BOOLEAN]
    BY <1>12 DEF HubRestart, Types, TypeOK
  <2>5. /\ view' \in [active : BOOLEAN, silent : BOOLEAN, thinking : BOOLEAN, turn : BOOLEAN,
                       held : BOOLEAN, mode : Modes]
        /\ ~view'.turn
    BY <1>12 DEF HubRestart, Reload, Types, TypeOK
  <2>. QED
    BY <1>12, <2>1, <2>2, <2>3, <2>4, <2>5 DEF HubRestart, Types, TypeOK, Turn, hubVars, rowVars, callVars, procVars
<1>13. ASSUME NEW c \in Calls, CallTimesOut(c) PROVE Types' /\ Turn'
  <2>1. spent' \in [Troubles -> Nat]
    BY <1>13, SpendTypes, TroubleNames DEF CallTimesOut, Types, TypeOK
  <2>2. wire' \in Seq(Message) /\ Len(wire') <= MaxWire
    BY <1>13, MarkLateKeeps DEF CallTimesOut, Types, TypeOK
  <2>. QED
    BY <1>13, <2>1, <2>2 DEF CallTimesOut, Types, TypeOK, Turn, hubVars, rowVars, callVars, procVars
<1>14. CASE Start
  <2>1. spawn.mode \in Modes
    BY DEF Types, TypeOK
  <2>6. KeepAlive(FALSE, Unsaid) \in Message /\ KeepAlive(FALSE, spawn.mode) \in Message
    BY <2>1, MadeMessages
  <2>2. <<KeepAlive(FALSE, Unsaid), KeepAlive(FALSE, spawn.mode)>> \in Seq(Message)
    BY <2>6 DEF KeepAlive
  <2>3. wire' \in Seq(Message) /\ Len(wire') <= MaxWire
    BY <1>14, <2>2, EmitTypes DEF Start
  <2>4. proc' \in [st : Living \cup {"closing", "gone"}, mode : Modes, up : BOOLEAN]
    BY <1>14, <2>1 DEF Start, Living
  <2>5. spawn' \in [st : {"none", "spawning", "forgotten", "waiting", "seen"}, mode : Modes]
    BY <1>14 DEF Start, Types, TypeOK
  <2>. QED
    BY <1>14, <2>3, <2>4, <2>5 DEF Start, Types, TypeOK, Turn, hubVars, rowVars, callVars, procVars
<1>15. CASE SpawnFails
  <2>1. spent' \in [Troubles -> Nat]
    BY <1>15, SpendTypes, TroubleNames DEF SpawnFails
  <2>. QED
    BY <1>15, <2>1 DEF SpawnFails, Types, TypeOK, Turn, hubVars, rowVars, callVars, procVars
<1>16. CASE Interval
  <2>1. wire' \in Seq(Message) /\ Len(wire') <= MaxWire
    BY <1>16, EmitAliveTypes DEF Interval
  <2>. QED
    BY <1>16, <2>1 DEF Interval, Types, TypeOK, Turn, hubVars, rowVars, callVars, procVars
<1>17. CASE BeginTurn
  <2>1. wire' \in Seq(Message) /\ Len(wire') <= MaxWire
    BY <1>17, EmitAliveTypes DEF BeginTurn
  <2>2. proc' \in [st : Living \cup {"closing", "gone"}, mode : Modes, up : BOOLEAN]
    BY <1>17 DEF BeginTurn, Types, TypeOK, Living
  <2>. QED
    BY <1>17, <2>1, <2>2 DEF BeginTurn, Types, TypeOK, Turn, hubVars, rowVars, callVars, procVars
<1>18. CASE EndTurn
  <2>1. wire' \in Seq(Message) /\ Len(wire') <= MaxWire
    BY <1>18, EmitAliveTypes DEF EndTurn
  <2>2. proc' \in [st : Living \cup {"closing", "gone"}, mode : Modes, up : BOOLEAN]
    BY <1>18 DEF EndTurn, Types, TypeOK, Living
  <2>. QED
    BY <1>18, <2>1, <2>2 DEF EndTurn, Types, TypeOK, Turn, hubVars, rowVars, callVars, procVars
<1>19. CASE LocalChange
  <2>1. changes' \in Modes
    BY <1>19, ChangeTypes DEF LocalChange
  <2>. QED
    BY <1>19, <2>1 DEF LocalChange, Types, TypeOK, Turn, hubVars, rowVars, callVars, procVars
<1>20. CASE ApplyCall
  <2>1. changes' \in Modes /\ "config" \in Calls
    BY <1>20, ChangeTypes DEF ApplyCall, Calls
  <2>4. KeepAlive(proc.st = "thinking", changes') \in Message /\ Ack("config", changes') \in Message
    BY <2>1, MadeMessages
  <2>2. <<KeepAlive(proc.st = "thinking", changes'), Ack("config", changes')>> \in Seq(Message)
    BY <2>4
  <2>3. wire' \in Seq(Message) /\ Len(wire') <= MaxWire
    BY <1>20, <2>2, EmitTypes DEF ApplyCall
  <2>. QED
    BY <1>20, <2>1, <2>3 DEF ApplyCall, Types, TypeOK, Turn, hubVars, rowVars, callVars, procVars
<1>21. CASE KillCall
  <2>1. proc.mode \in Modes /\ "kill" \in Calls
    BY DEF Types, TypeOK, Calls
  <2>2. <<Ack("kill", proc.mode)>> \in Seq(Message)
    BY <2>1, MadeMessages
  <2>3. wire' \in Seq(Message) /\ Len(wire') <= MaxWire
    BY <1>21, <2>2, EmitTypes DEF KillCall
  <2>. QED
    BY <1>21, <2>1, <2>3 DEF KillCall, Types, TypeOK, Turn, hubVars, rowVars, callVars, procVars
<1>22. CASE Leave
  <2>1. <<SessionEnd>> \in Seq(Message)
    BY MadeMessages
  <2>2. wire' \in Seq(Message) /\ Len(wire') <= MaxWire
    <3>1. CASE Emit(<<SessionEnd>>)
      BY <2>1, <3>1, EmitTypes
    <3>2. CASE wire' = <<>>
      BY <3>2, NothingOnTheWire
    <3>. QED
      BY <1>22, <3>1, <3>2 DEF Leave
  <2>. QED
    BY <1>22, <2>2 DEF Leave, Types, TypeOK, Turn, hubVars, rowVars, callVars, procVars
<1>23. CASE Crash
  <2>1. spent' \in [Troubles -> Nat]
    BY <1>23, SpendTypes, TroubleNames DEF Crash
  <2>3. wire' \in Seq(Message) /\ Len(wire') <= MaxWire
    <3>1. CASE UNCHANGED wire
      BY <3>1 DEF Types, TypeOK
    <3>2. CASE wire' = <<>>
      BY <3>2, NothingOnTheWire
    <3>. QED
      BY <1>23, <3>1, <3>2 DEF Crash
  <2>. QED
    BY <1>23, <2>1, <2>3 DEF Crash, Types, TypeOK, Turn, hubVars, rowVars, callVars, procVars
<1>24. CASE Disconnect
  <2>1. spent' \in [Troubles -> Nat]
    BY <1>24, SpendTypes, TroubleNames DEF Disconnect
  <2>3. wire' \in Seq(Message) /\ Len(wire') <= MaxWire
    <3>1. CASE UNCHANGED wire
      BY <3>1 DEF Types, TypeOK
    <3>2. CASE wire' = <<>>
      BY <3>2, NothingOnTheWire
    <3>. QED
      BY <1>24, <3>1, <3>2 DEF Disconnect
  <2>. QED
    BY <1>24, <2>1, <2>3 DEF Disconnect, Types, TypeOK, Turn, hubVars, rowVars, callVars, procVars
<1>25. CASE Reconnect
  <2>1. KeepAlive(FALSE, Unsaid) \in Message
    BY MadeMessages
  <2>3. <<KeepAlive(FALSE, Unsaid)>> \in Seq(Message)
    BY <2>1 DEF KeepAlive
  <2>2. wire' \in Seq(Message) /\ Len(wire') <= MaxWire
    BY <1>25, <2>3, EmitTypes DEF Reconnect
  <2>. QED
    BY <1>25, <2>2 DEF Reconnect, Types, TypeOK, Turn, hubVars, rowVars, callVars, procVars
<1>26. ASSUME NEW p \in Prompts, Dequeue(p) PROVE Types' /\ Turn'
  <2>1. Consumed(p, FALSE) \in Message
    BY <1>26, MadeMessages
  <2>4. <<Consumed(p, FALSE)>> \in Seq(Message)
    BY <2>1 DEF Consumed
  <2>2. wire' \in Seq(Message) /\ Len(wire') <= MaxWire
    BY <1>26, <2>4, EmitTypes DEF Dequeue
  <2>3. proc' \in [st : Living \cup {"closing", "gone"}, mode : Modes, up : BOOLEAN]
    BY <1>26 DEF Dequeue, Types, TypeOK, Living
  <2>. QED
    BY <1>26, <2>2, <2>3 DEF Dequeue, Types, TypeOK, Turn, hubVars, rowVars, callVars, procVars
<1>27. ASSUME NEW p \in Prompts, Command(p) PROVE Types' /\ Turn'
  <2>1. Consumed(p, TRUE) \in Message
    BY <1>27, MadeMessages
  <2>4. <<Consumed(p, TRUE)>> \in Seq(Message)
    BY <2>1 DEF Consumed
  <2>2. wire' \in Seq(Message) /\ Len(wire') <= MaxWire
    BY <1>27, <2>4, EmitTypes DEF Command
  <2>. QED
    BY <1>27, <2>2 DEF Command, Types, TypeOK, Turn, hubVars, rowVars, callVars, procVars
<1>28. CASE UNCHANGED vars
  BY <1>28 DEF vars, Types, TypeOK, Turn, hubVars, rowVars, callVars, procVars
<1>. QED
  BY <1>1, <1>2, <1>3, <1>4, <1>5, <1>6, <1>7, <1>8, <1>9, <1>10, <1>11, <1>12, <1>13, <1>14,
     <1>15, <1>16, <1>17, <1>18, <1>19, <1>20, <1>21, <1>22, <1>23, <1>24, <1>25, <1>26, <1>27,
     <1>28
     DEF Next, User, Hub, Cli
-----------------------------------------------------------------------------
(* The mode.  First what marking and cutting do to the order.                *)

LEMMA MarkOldOrdered ==
  ASSUME NEW s \in Seq(Message)
  PROVE  /\ \A top : Ordered(s, top) => Ordered(MarkOld(s), top)
         /\ \A low : Above(s, low) => Above(MarkOld(s), low)
         /\ \A a, u : Answered(s, a, u) => Answered(MarkOld(s), a, u)
<1>1. DOMAIN MarkOld(s) = DOMAIN s
  BY MarkOldKeeps
<1>2. \A i \in DOMAIN s : Telling(MarkOld(s)[i]) => Telling(s[i]) /\ MarkOld(s)[i] = s[i]
  BY MarkOldKeeps
<1>3. \A i \in DOMAIN s : LiveAck(MarkOld(s)[i]) => LiveAck(s[i]) /\ MarkOld(s)[i] = s[i]
  BY MarkOldKeeps DEF LiveAck
<1>4. \A top : Ordered(s, top) => Ordered(MarkOld(s), top)
  BY <1>1, <1>2 DEF Ordered
<1>5. \A low : Above(s, low) => Above(MarkOld(s), low)
  BY <1>1, <1>2 DEF Above
<1>6. \A a, u : Answered(s, a, u) => Answered(MarkOld(s), a, u)
  BY <1>1, <1>3 DEF Answered
<1>. QED
  BY <1>4, <1>5, <1>6

LEMMA MarkLateOrdered ==
  ASSUME NEW s \in Seq(Message), NEW c \in Calls
  PROVE  /\ \A top : Ordered(s, top) => Ordered(MarkLate(s, c), top)
         /\ \A low : Above(s, low) => Above(MarkLate(s, c), low)
         /\ \A a, u : Answered(s, a, u) => Answered(MarkLate(s, c), a \ {c}, u)
<1>1. DOMAIN MarkLate(s, c) = DOMAIN s
  BY MarkLateKeeps
<1>2. \A i \in DOMAIN s : Telling(MarkLate(s, c)[i]) => Telling(s[i]) /\ MarkLate(s, c)[i] = s[i]
  BY MarkLateKeeps
<1>3. \A i \in DOMAIN s : LiveAck(MarkLate(s, c)[i]) =>
                            LiveAck(s[i]) /\ s[i].call # c /\ MarkLate(s, c)[i] = s[i]
  BY MarkLateKeeps
<1>4. \A top : Ordered(s, top) => Ordered(MarkLate(s, c), top)
  BY <1>1, <1>2 DEF Ordered
<1>5. \A low : Above(s, low) => Above(MarkLate(s, c), low)
  BY <1>1, <1>2 DEF Above
<1>6. \A a, u : Answered(s, a, u) => Answered(MarkLate(s, c), a \ {c}, u)
  BY <1>1, <1>3 DEF Answered
<1>. QED
  BY <1>4, <1>5, <1>6

LEMMA NothingOrdered ==
  \A top, a, u : Ordered(<<>>, top) /\ Above(<<>>, top) /\ Answered(<<>>, a, u)
BY DEF Ordered, Above, Answered

LEMMA OrderedUp ==
  ASSUME NEW s \in Seq(Message), NEW top \in Int, NEW new \in Int, Ordered(s, top), top <= new
  PROVE  Ordered(s, new)
<1>1. \A i \in DOMAIN s : Telling(s[i]) => s[i].mode \in Int
  BY ElementOfSeq, LenProperties, TellingMode, ModesAreNumbers
<1>. QED
  BY <1>1 DEF Ordered

LEMMA Numbers ==
  ASSUME Types
  PROVE  /\ view.mode \in Int /\ pref \in Int /\ proc.mode \in Int /\ spawn.mode \in Int
         /\ changes \in Int /\ wire \in Seq(Message)
BY ModesAreNumbers DEF Types, TypeOK

(* A step that leaves the modes and what is under way. *)
SameModes == /\ view'.mode = view.mode /\ pref' = pref /\ proc'.mode = proc.mode
             /\ spawn'.mode = spawn.mode /\ changes' = changes /\ untold' = untold

LEMMA NothingMoves ==
  ASSUME Types, ModeInv, SameModes, wire' = wire, Starting' => Starting,
         proc.st = "gone" => proc'.st = "gone", pending \ asked \subseteq pending' \ asked'
  PROVE  ModeInv'
<1>1. Answered(wire, pending', asked')
  BY DEF ModeInv, Answered
<1>. QED
  BY <1>1 DEF ModeInv, SameModes, Current

LEMMA WireIsCut ==
  ASSUME Types, ModeInv, SameModes, wire' = <<>>, Starting' => Starting,
         proc.st = "gone" => proc'.st = "gone"
  PROVE  ModeInv'
<1>1. Ordered(wire', proc'.mode) /\ Above(wire', view'.mode) /\ Answered(wire', pending', asked')
  BY NothingOrdered
<1>. QED
  BY <1>1 DEF ModeInv, SameModes, Current

(* The process says something: its mode if any, and at last an answer if any. *)
LEMMA ProcessEmits ==
  ASSUME Types, Types', ModeInv, NEW ms \in Seq(Message), wire' = wire \o ms,
         proc.st # "gone", proc.mode <= proc'.mode, proc'.mode <= changes', changes <= changes',
         UNCHANGED <<view, pref, untold, spawn, pending>>, asked' \subseteq asked,
         \A i \in DOMAIN ms : Telling(ms[i]) => ms[i].mode = proc'.mode,
         \A i \in DOMAIN ms : LiveAck(ms[i]) =>
           i = Len(ms) /\ ms[i].call \in pending /\ ms[i].call \in asked \ asked'
  PROVE  ModeInv'
<1>1. ~Starting /\ Ordered(wire, proc.mode) /\ Answered(wire, pending, asked)
  BY DEF ModeInv
<1>2. proc'.mode \in Int /\ proc.mode \in Int /\ view.mode \in Int /\ spawn.mode \in Int
      /\ changes \in Int /\ changes' \in Int
  <2>1. proc'.mode \in Int /\ changes' \in Int
    BY ModesAreNumbers DEF Types, TypeOK
  <2>. QED
    BY <2>1, Numbers
<1>3. wire \in Seq(Message)
  BY Numbers
<1>4. /\ Ordered(wire', proc'.mode)
      /\ \A low : (Above(wire, low) /\ low <= proc'.mode) => Above(wire', low)
  BY <1>1, <1>2, <1>3, ConcatOrdered
<1>5. Answered(wire', pending, asked')
  BY <1>1, <1>3, ConcatAnswered
<1>6. /\ pref' = view'.mode /\ view'.mode <= changes' /\ spawn'.mode <= changes'
      /\ ~Starting'
  BY <1>1, <1>2 DEF ModeInv, Starting
<1>7. ASSUME ~untold PROVE Current'
  <2>1. Above(wire, view.mode) /\ view.mode <= proc.mode
    BY <1>7 DEF ModeInv, Current
  <2>2. view.mode <= proc'.mode
    BY <1>2, <2>1
  <2>3. Above(wire', view.mode)
    BY <1>4, <2>1, <2>2
  <2>. QED
    BY <2>2, <2>3, <1>6 DEF Current
<1>. QED
  BY <1>4, <1>5, <1>6, <1>7 DEF ModeInv

LEMMA ProcessSpeaks ==
  ASSUME Types, Types', ModeInv, NEW b \in BOOLEAN, EmitAlive(b), proc.st # "gone",
         proc'.mode = proc.mode, proc'.st # "gone",
         UNCHANGED <<view, pref, untold, spawn, pending, asked, changes>>
  PROVE  ModeInv'
<1>1. CASE Emit(<<KeepAlive(b, proc.mode)>>)
  <2>. DEFINE m  == KeepAlive(b, proc.mode)
              ms == <<m>>
  <2>1. m \in Message /\ m.mode = proc.mode /\ ~LiveAck(m)
    <3>1. proc.mode \in Modes
      BY DEF Types, TypeOK
    <3>2. m \in Message
      BY <3>1, MadeMessages
    <3>. QED
      BY <3>2 DEF KeepAlive, LiveAck
  <2>2. wire' = wire \o ms
    BY <1>1 DEF Emit
  <2>. HIDE DEF m
  <2>3. ms \in Seq(Message) /\ DOMAIN ms = {1} /\ ms[1] = m
    BY <2>1
  <2>4. proc.mode <= proc'.mode /\ proc'.mode <= changes' /\ changes <= changes'
    BY Numbers DEF ModeInv
  <2>. HIDE DEF ms
  <2>. QED
    BY <2>1, <2>2, <2>3, <2>4, ProcessEmits
<1>2. CASE UNCHANGED wire
  BY <1>2, NothingMoves DEF SameModes, Starting
<1>. QED
  BY <1>1, <1>2 DEF EmitAlive
-----------------------------------------------------------------------------
(* The hub handles a message.                                                *)

LEMMA HandledQuietly ==
  ASSUME Types, ModeInv, SameModes, wire # <<>>, wire' = Tail(wire),
         UNCHANGED <<spawn, proc, asked>>,
         \/ pending' = pending
         \/ LiveAck(Head(wire)) /\ pending' = pending \ {Head(wire).call}
  PROVE  ModeInv'
<1>1. wire \in Seq(Message) /\ Ordered(wire, proc.mode) /\ Answered(wire, pending, asked)
  BY Numbers DEF ModeInv
<1>2. /\ Ordered(wire', proc.mode)
      /\ \A low : Above(wire, low) => Above(wire', low)
  BY <1>1, TailOrdered
<1>3. Answered(wire', pending', asked)
  BY <1>1, TailAnswered
<1>4. ~Starting
  BY DEF ModeInv
<1>. QED
  BY <1>2, <1>3, <1>4 DEF ModeInv, SameModes, Current, Starting

(* A message that tells a mode, and what is left of the others behind it. *)
LEMMA HandledMode ==
  ASSUME Types, ModeInv, wire # <<>>, Telling(Head(wire)),
         Above(Tail(wire), Head(wire).mode) => Above(wire', Head(wire).mode),
         Ordered(Tail(wire), proc.mode) => Ordered(wire', proc.mode),
         Answered(wire', pending', asked),
         view'.mode = Head(wire).mode, pref' = Head(wire).mode,
         UNCHANGED <<spawn, proc, asked, changes>>,
         untold' => untold
  PROVE  ModeInv' /\ (untold \/ view'.mode >= view.mode)
<1>. DEFINE mode == Head(wire).mode
<1>1. /\ wire \in Seq(Message) /\ Ordered(wire, proc.mode) /\ ~Starting
      /\ proc.mode <= changes /\ spawn.mode <= changes
  BY Numbers DEF ModeInv
<1>2. Head(wire) \in Message /\ Head(wire) = wire[1] /\ 1 \in DOMAIN wire /\ mode \in Int
  BY <1>1, TailKeeps, TellingMode, ModesAreNumbers
<1>3. Ordered(Tail(wire), proc.mode) /\ mode <= proc.mode /\ Above(Tail(wire), mode)
  BY <1>1, TailOrdered
<1>4. Ordered(wire', proc'.mode) /\ Above(wire', mode)
  BY <1>3
<1>5. mode <= changes
  BY <1>1, <1>2, <1>3, Numbers
<1>6. ~Starting'
  BY <1>1 DEF Starting
<1>7. Current'
  BY <1>3, <1>4, <1>6 DEF Current
<1>8. untold \/ view'.mode >= view.mode
  BY <1>2, Numbers DEF ModeInv, Current, Above
<1>. QED
  BY <1>1, <1>3, <1>4, <1>5, <1>6, <1>7, <1>8 DEF ModeInv

LEMMA HandleModes ==
  ASSUME Types, ModeInv, Handle
  PROVE  ModeInv' /\ (untold \/ view'.mode >= view.mode)
<1>. DEFINE m == Head(wire)
<1>1. /\ wire # <<>> /\ wire \in Seq(Message) /\ m \in Message
      /\ Tail(wire) \in Seq(Message)
      /\ UNCHANGED <<spawn, asked, proc, changes>>
  BY Numbers, TailKeeps DEF Handle, procVars
<1>2. view.mode >= view.mode
  BY Numbers
<1>3. Answered(Tail(wire), pending, asked)
  BY <1>1, TailAnswered DEF ModeInv
<1>4. CASE m.t = "alive" /\ Alive(m) /\ wire' = Tail(wire) /\ UNCHANGED <<queued, pending>>
  <2>1. CASE m.mode = Unsaid \/ m.old
    <3>1. view'.mode = view.mode /\ pref' = pref /\ untold' = untold
      BY <1>4, <2>1 DEF Alive, Types, TypeOK
    <3>2. SameModes
      BY <1>1, <3>1 DEF SameModes
    <3>. QED
      BY <1>1, <1>2, <1>4, <3>1, <3>2, HandledQuietly
  <2>2. CASE ~(m.mode = Unsaid \/ m.old)
    <3>1. /\ view'.mode = m.mode /\ pref' = m.mode
          /\ untold' = (untold /\ m.mode = view.mode)
      BY <1>4, <2>2 DEF Alive
    <3>2. Telling(m)
      BY <1>4, <2>2 DEF Telling
    <3>3. Answered(wire', pending', asked)
      BY <1>3, <1>4
    <3>. HIDE DEF m
    <3>4. untold' => untold
      BY <3>1 DEF Types, TypeOK
    <3>. QED
      BY <1>1, <1>4, <3>1, <3>2, <3>3, <3>4, HandledMode DEF m
  <2>. QED
    BY <2>1, <2>2
<1>5. CASE m.t = "consumed" /\ view' = [view EXCEPT !.held = @ /\ ~m.clear]
           /\ wire' = Tail(wire) /\ UNCHANGED <<pref, untold, pending>>
  <2>1. view'.mode = view.mode
    BY <1>5 DEF Types, TypeOK
  <2>2. SameModes
    BY <1>1, <1>5, <2>1 DEF SameModes
  <2>. QED
    BY <1>1, <1>2, <1>5, <2>1, <2>2, HandledQuietly
<1>6. CASE EndView /\ wire' = Tail(wire) /\ UNCHANGED <<pref, untold>>
           /\ (pending' = pending \/ (LiveAck(m) /\ pending' = pending \ {m.call}))
  <2>1. view'.mode = view.mode
    BY <1>6, EndViewTypes
  <2>2. SameModes
    BY <1>1, <1>6, <2>1 DEF SameModes
  <2>. QED
    BY <1>1, <1>2, <1>6, <2>1, <2>2, HandledQuietly
<1>7. CASE /\ m.t = "ack" /\ ~m.late /\ pending' = pending \ {m.call}
           /\ m.call = "config" /\ ApplyConfig(m.mode, Tail(wire)) /\ untold' = FALSE
  <2>1. Telling(m) /\ LiveAck(m)
    BY <1>7 DEF Telling, LiveAck
  <2>2. view'.mode = m.mode /\ pref' = m.mode /\ wire' = MarkOld(Tail(wire))
    BY <1>7 DEF ApplyConfig, Types, TypeOK
  <2>3. Answered(Tail(wire), pending', asked)
    BY <1>1, <1>7, <2>1, TailAnswered DEF ModeInv
  <2>4. Answered(wire', pending', asked)
    BY <1>1, <2>2, <2>3, MarkOldOrdered
  <2>5. /\ Above(Tail(wire), m.mode) => Above(wire', m.mode)
        /\ Ordered(Tail(wire), proc.mode) => Ordered(wire', proc.mode)
    BY <1>1, <2>2, MarkOldOrdered
  <2>. QED
    BY <1>1, <1>7, <2>1, <2>2, <2>4, <2>5, HandledMode
<1>8. CASE wire' = Tail(wire) /\ UNCHANGED <<hubVars, queued, pending>>
  <2>1. SameModes
    BY <1>1, <1>8 DEF SameModes, hubVars
  <2>. QED
    BY <1>1, <1>2, <1>8, <2>1, HandledQuietly DEF SameModes
<1>. QED
  BY <1>4, <1>5, <1>6, <1>7, <1>8 DEF Handle, LiveAck
-----------------------------------------------------------------------------
(* Every step.                                                               *)

LEMMA ModeInit == Init => ModeInv
<1>. SUFFICES ASSUME Init PROVE ModeInv
  OBVIOUS
<1>1. /\ view.mode = 0 /\ pref = 0 /\ proc.mode = 0 /\ spawn.mode = 0 /\ changes = 0
      /\ spawn.st = "none" /\ wire = <<>>
  BY DEF Init
<1>2. Ordered(wire, proc.mode) /\ Above(wire, view.mode) /\ Answered(wire, pending, asked)
  BY <1>1, NothingOrdered
<1>. QED
  BY <1>1, <1>2 DEF ModeInv, Current, Starting

LEMMA ConfigInactiveModes ==
  ASSUME Types, ModeInv, ConfigInactive
  PROVE  ModeInv' /\ view'.mode >= view.mode
<1>1. /\ view'.mode = changes' /\ pref' = changes' /\ wire' = MarkOld(wire)
      /\ changes' = changes + 1
      /\ UNCHANGED <<spawn, pending, asked, proc>>
      /\ untold' = (proc.st # "gone" \/ Starting \/ "config" \in pending)
  BY DEF ConfigInactive, ApplyConfig, Change, callVars, procVars, Types, TypeOK, Starting
<1>2. wire \in Seq(Message) /\ Ordered(wire, proc.mode) /\ Answered(wire, pending, asked)
  BY Numbers DEF ModeInv
<1>3. Ordered(wire', proc.mode) /\ Answered(wire', pending, asked)
  BY <1>1, <1>2, MarkOldOrdered
<1>4. view.mode <= changes' /\ proc.mode <= changes' /\ spawn.mode <= changes' /\ changes' \in Int
  BY <1>1, Numbers DEF ModeInv
<1>5. Starting => proc.st = "gone" /\ wire' = <<>>
  <2>1. SUFFICES ASSUME Starting PROVE wire' = <<>> /\ proc.st = "gone"
    OBVIOUS
  <2>2. wire = <<>> /\ proc.st = "gone"
    BY <2>1 DEF ModeInv
  <2>3. Len(wire') = 0 /\ wire' \in Seq(Message)
    BY <1>1, <1>2, <2>2, MarkOldKeeps
  <2>. QED
    BY <2>2, <2>3, EmptySeq
<1>6. ASSUME ~untold' PROVE Current'
  <2>1. proc.st = "gone" /\ ~Starting /\ "config" \notin pending
    BY <1>1, <1>6
  <2>2. Above(wire', view'.mode)
    <3>1. SUFFICES ASSUME NEW i \in DOMAIN wire', Telling(wire'[i]) PROVE FALSE
      BY DEF Above
    <3>2. i \in DOMAIN wire /\ LiveAck(wire[i]) /\ Telling(wire[i])
      BY <1>1, <1>2, <3>1, MarkOldKeeps
    <3>3. wire[i].call = "config"
      BY <3>2 DEF Telling, LiveAck
    <3>. QED
      BY <1>2, <2>1, <3>2, <3>3 DEF Answered
  <2>. QED
    BY <1>1, <2>1, <2>2 DEF Current, Starting
<1>7. ModeInv'
  BY <1>1, <1>3, <1>4, <1>5, <1>6 DEF ModeInv, Starting
<1>. QED
  BY <1>1, <1>4, <1>7, Numbers

LEMMA StartModes ==
  ASSUME Types, ModeInv, Start
  PROVE  ModeInv' /\ view' = view
<1>. DEFINE ms == <<KeepAlive(FALSE, Unsaid), KeepAlive(FALSE, spawn.mode)>>
<1>1. /\ Starting /\ ~Starting' /\ proc'.mode = spawn.mode /\ proc'.st = "idle"
      /\ spawn'.mode = spawn.mode /\ wire' = wire \o ms
      /\ UNCHANGED <<view, pref, untold, pending, asked, changes>>
  BY DEF Start, Starting, Emit, hubVars, Types, TypeOK
<1>2. wire = <<>> /\ spawn.mode \in Int
  BY <1>1, Numbers DEF ModeInv
<1>3. spawn.mode \in Modes
  BY DEF Types, TypeOK
<1>4. KeepAlive(FALSE, Unsaid) \in Message /\ KeepAlive(FALSE, spawn.mode) \in Message
  BY <1>3, MadeMessages
<1>5. /\ ms \in Seq(Message) /\ DOMAIN ms = {1, 2}
      /\ \A i \in DOMAIN ms : ~LiveAck(ms[i]) /\ (Telling(ms[i]) => ms[i].mode = spawn.mode)
  <2>1. ms \in Seq(Message)
    BY <1>4 DEF KeepAlive
  <2>2. DOMAIN ms = {1, 2}
    OBVIOUS
  <2>3. ~LiveAck(ms[1]) /\ ~Telling(ms[1]) /\ ~LiveAck(ms[2]) /\ ms[2].mode = spawn.mode
    BY DEF KeepAlive, LiveAck, Telling
  <2>4. \A i \in DOMAIN ms : i = 1 \/ i = 2
    BY <2>2
  <2>. QED
    BY <2>1, <2>2, <2>3, <2>4
<1>. HIDE DEF ms
<1>6. <<>> \in Seq(Message)
  OBVIOUS
<1>7. /\ Ordered(wire', spawn.mode)
      /\ \A low : low <= spawn.mode => Above(wire', low)
  <2>1. Ordered(<<>>, spawn.mode) /\ spawn.mode <= spawn.mode
    BY <1>2, NothingOrdered
  <2>2. /\ Ordered(<<>> \o ms, spawn.mode)
        /\ \A low : (Above(<<>>, low) /\ low <= spawn.mode) => Above(<<>> \o ms, low)
    BY <2>1, <1>2, <1>5, <1>6, ConcatOrdered
  <2>. QED
    BY <1>1, <1>2, <2>2, NothingOrdered
<1>8. Answered(wire', pending, asked)
  BY <1>1, <1>2, <1>5, <1>6, NothingOrdered, ConcatAnswered
<1>. QED
  BY <1>1, <1>7, <1>8 DEF ModeInv, Current

LEMMA LocalChangeModes ==
  ASSUME Types, ModeInv, LocalChange
  PROVE  ModeInv' /\ view' = view
<1>1. /\ proc.st # "gone" /\ proc'.st = proc.st /\ proc'.mode = changes + 1
      /\ changes' = changes + 1
      /\ UNCHANGED <<view, pref, untold, spawn, pending, asked, wire>>
  BY DEF LocalChange, Change, Living, hubVars, callVars, Types, TypeOK
<1>2. proc.mode \in Int /\ proc'.mode \in Int /\ proc.mode <= proc'.mode
  BY <1>1, Numbers DEF ModeInv
<1>3. Ordered(wire, proc'.mode)
  BY <1>2, Numbers, OrderedUp DEF ModeInv
<1>. QED
  BY <1>1, <1>2, <1>3, Numbers DEF ModeInv, Current, Starting

LEMMA ApplyCallModes ==
  ASSUME Types, Types', ModeInv, ApplyCall
  PROVE  ModeInv' /\ view' = view
<1>. DEFINE ms == <<KeepAlive(proc.st = "thinking", changes'), Ack("config", changes')>>
<1>1. /\ "config" \in asked /\ asked' = asked \ {"config"}
      /\ proc.st # "gone" /\ proc'.mode = changes' /\ changes' = changes + 1
      /\ wire' = wire \o ms
      /\ UNCHANGED <<view, pref, untold, spawn, pending>>
  BY DEF ApplyCall, Change, Emit, hubVars, Types, TypeOK
<1>2. changes' \in Modes /\ "config" \in Calls
  BY DEF Types, TypeOK, Calls
<1>3. /\ KeepAlive(proc.st = "thinking", changes') \in Message
      /\ Ack("config", changes') \in Message
  BY <1>2, MadeMessages
<1>4. /\ ms \in Seq(Message) /\ Len(ms) = 2
      /\ \A i \in DOMAIN ms : /\ ms[i].mode = changes'
                              /\ LiveAck(ms[i]) => i = 2 /\ ms[i].call = "config" /\ "config" \in pending
  <2>1. ms \in Seq(Message)
    BY <1>3
  <2>2. DOMAIN ms = {1, 2} /\ Len(ms) = 2
    OBVIOUS
  <2>3. /\ ms[1].mode = changes' /\ ms[2].mode = changes' /\ ~LiveAck(ms[1])
        /\ ms[2].call = "config" /\ (LiveAck(ms[2]) => "config" \in pending)
    BY DEF KeepAlive, Ack, LiveAck
  <2>4. \A i \in DOMAIN ms : i = 1 \/ i = 2
    BY <2>2
  <2>. QED
    BY <2>1, <2>2, <2>3, <2>4
<1>. HIDE DEF ms
<1>5. proc.mode <= proc'.mode /\ proc'.mode <= changes' /\ changes <= changes'
  BY <1>1, Numbers DEF ModeInv
<1>. QED
  BY <1>1, <1>4, <1>5, ProcessEmits

LEMMA KillCallModes ==
  ASSUME Types, Types', ModeInv, KillCall
  PROVE  ModeInv' /\ view' = view
<1>. DEFINE ms == <<Ack("kill", proc.mode)>>
<1>1. /\ "kill" \in asked /\ asked' = asked \ {"kill"}
      /\ proc.st # "gone" /\ proc'.mode = proc.mode /\ changes' = changes
      /\ wire' = wire \o ms
      /\ UNCHANGED <<view, pref, untold, spawn, pending>>
  BY DEF KillCall, Emit, hubVars, Types, TypeOK
<1>2. Ack("kill", proc.mode) \in Message
  <2>1. proc.mode \in Modes /\ "kill" \in Calls
    BY DEF Types, TypeOK, Calls
  <2>. QED
    BY <2>1, MadeMessages
<1>3. /\ ms \in Seq(Message) /\ Len(ms) = 1
      /\ \A i \in DOMAIN ms : /\ ms[i].mode = proc.mode
                              /\ LiveAck(ms[i]) => i = 1 /\ ms[i].call = "kill" /\ "kill" \in pending
  <2>1. ms \in Seq(Message)
    BY <1>2
  <2>2. DOMAIN ms = {1} /\ Len(ms) = 1
    OBVIOUS
  <2>3. /\ ms[1].mode = proc.mode /\ ms[1].call = "kill"
        /\ (LiveAck(ms[1]) => "kill" \in pending)
    BY DEF Ack, LiveAck
  <2>. QED
    BY <2>1, <2>2, <2>3
<1>. HIDE DEF ms
<1>4. proc.mode <= proc'.mode /\ proc'.mode <= changes' /\ changes <= changes'
  BY <1>1, Numbers DEF ModeInv
<1>. QED
  BY <1>1, <1>3, <1>4, ProcessEmits

(* What is said without a mode and without an answer. *)
LEMMA SaysNoMode ==
  ASSUME Types, Types', ModeInv, NEW m \in Message, Emit(<<m>>), ~Telling(m), ~LiveAck(m),
         proc.st # "gone", proc'.mode = proc.mode, asked' \subseteq asked,
         UNCHANGED <<view, pref, untold, spawn, pending, changes>>
  PROVE  ModeInv'
<1>. DEFINE ms == <<m>>
<1>1. ms \in Seq(Message) /\ DOMAIN ms = {1} /\ ms[1] = m /\ wire' = wire \o ms
  BY DEF Emit
<1>. HIDE DEF ms
<1>2. proc.mode <= proc'.mode /\ proc'.mode <= changes' /\ changes <= changes'
  BY Numbers DEF ModeInv
<1>. QED
  BY <1>1, <1>2, ProcessEmits

LEMMA ModeNext ==
  ASSUME Types, Types', ModeInv, [Next]_vars
  PROVE  ModeInv' /\ (untold \/ view'.mode >= view.mode)
<1>0. view.mode >= view.mode /\ Types /\ Types' /\ ModeInv
  BY Numbers
<1>1. ASSUME NEW p \in Prompts, SendMessage(p) PROVE ModeInv' /\ (untold \/ view'.mode >= view.mode)
  <2>1. /\ SameModes /\ wire' = wire /\ (Starting' => Starting)
        /\ (proc.st = "gone" => proc'.st = "gone") /\ pending \ asked \subseteq pending' \ asked'
    BY <1>1 DEF SendMessage, MarkMessageQueued, SameModes, Starting, hubVars, rowVars, callVars, procVars, Types, TypeOK
  <2>. QED
    BY <2>1, <1>0, NothingMoves DEF SameModes
<1>2. CASE CallConfig
  <2>1. /\ SameModes /\ wire' = wire /\ (Starting' => Starting)
        /\ (proc.st = "gone" => proc'.st = "gone") /\ pending \ asked \subseteq pending' \ asked'
    BY <1>2 DEF CallConfig, Call, SameModes, Starting, hubVars, rowVars, callVars, procVars, Types, TypeOK
  <2>. QED
    BY <2>1, <1>0, NothingMoves DEF SameModes
<1>3. CASE ConfigInactive
  BY <1>3, ConfigInactiveModes
<1>4. CASE ArchiveSession
  <2>1. CASE Call("kill") /\ UNCHANGED <<view, lapsed>>
    <3>1. /\ SameModes /\ wire' = wire /\ (Starting' => Starting)
          /\ (proc.st = "gone" => proc'.st = "gone") /\ pending \ asked \subseteq pending' \ asked'
      BY <1>4, <2>1 DEF ArchiveSession, Call, SameModes, Starting, procVars
    <3>. QED
      BY <3>1, <1>0, NothingMoves DEF SameModes
  <2>2. CASE EndView /\ UNCHANGED <<pending, asked>>
    <3>1. view'.mode = view.mode
      BY <2>2, EndViewTypes
    <3>2. /\ SameModes /\ wire' = wire /\ (Starting' => Starting)
          /\ (proc.st = "gone" => proc'.st = "gone") /\ pending \ asked \subseteq pending' \ asked'
      BY <1>4, <2>2, <3>1 DEF ArchiveSession, SameModes, Starting, procVars
    <3>. QED
      BY <3>2, <1>0, NothingMoves DEF SameModes
  <2>. QED
    BY <1>4, <2>1, <2>2 DEF ArchiveSession
<1>5. CASE ResumeSession
  <2>1. /\ proc.st = "gone" /\ wire = <<>> /\ wire' = <<>> /\ spawn'.mode = view.mode
        /\ UNCHANGED <<view, pref, pending, asked, proc, changes>>
    BY <1>5 DEF ResumeSession, procVars
  <2>2. Ordered(wire', proc.mode) /\ Above(wire', view.mode) /\ Answered(wire', pending, asked)
    BY <2>1, NothingOrdered
  <2>3. Current'
    BY <2>1, <2>2, <1>0 DEF Current
  <2>. QED
    BY <2>1, <2>2, <2>3, <1>0 DEF ModeInv
<1>6. CASE Handle
  BY <1>6, HandleModes
<1>7. CASE FallSilent
  <2>1. /\ SameModes /\ wire' = wire /\ (Starting' => Starting)
        /\ (proc.st = "gone" => proc'.st = "gone") /\ pending \ asked \subseteq pending' \ asked'
    BY <1>7 DEF FallSilent, SameModes, Starting, hubVars, rowVars, callVars, procVars, Types, TypeOK
  <2>. QED
    BY <2>1, <1>0, NothingMoves DEF SameModes
<1>8. CASE ExpireInactive
  <2>1. /\ SameModes /\ wire' = wire /\ (Starting' => Starting)
        /\ (proc.st = "gone" => proc'.st = "gone") /\ pending \ asked \subseteq pending' \ asked'
    BY <1>8 DEF ExpireInactive, SameModes, Starting, hubVars, rowVars, callVars, procVars, Types, TypeOK
  <2>. QED
    BY <2>1, <1>0, NothingMoves DEF SameModes
<1>9. CASE GraceEnds
  <2>1. /\ SameModes /\ wire' = wire /\ (Starting' => Starting)
        /\ (proc.st = "gone" => proc'.st = "gone") /\ pending \ asked \subseteq pending' \ asked'
    BY <1>9 DEF GraceEnds, SameModes, Starting, hubVars, rowVars, callVars, procVars, Types, TypeOK
  <2>. QED
    BY <2>1, <1>0, NothingMoves DEF SameModes
<1>10. CASE Waited
  <2>1. /\ SameModes /\ wire' = wire /\ (Starting' => Starting)
        /\ (proc.st = "gone" => proc'.st = "gone") /\ pending \ asked \subseteq pending' \ asked'
    BY <1>10 DEF Waited, SameModes, Starting, hubVars, rowVars, callVars, procVars, Types, TypeOK
  <2>. QED
    BY <2>1, <1>0, NothingMoves DEF SameModes
<1>11. CASE MarkSessionActive
  <2>1. /\ SameModes /\ wire' = wire /\ (Starting' => Starting)
        /\ (proc.st = "gone" => proc'.st = "gone") /\ pending \ asked \subseteq pending' \ asked'
    BY <1>11 DEF MarkSessionActive, SameModes, Starting, hubVars, rowVars, callVars, procVars, Types, TypeOK
  <2>. QED
    BY <2>1, <1>0, NothingMoves DEF SameModes
<1>12. CASE HubRestart
  <2>1. /\ view'.mode = pref /\ wire' = <<>> /\ proc'.st = proc.st /\ proc'.mode = proc.mode
        /\ spawn'.mode = spawn.mode /\ (Starting' => Starting)
        /\ UNCHANGED <<pref, untold, changes>>
    BY <1>12 DEF HubRestart, Reload, Starting, Types, TypeOK
  <2>2. SameModes
    BY <2>1 DEF SameModes, ModeInv
  <2>. QED
    BY <2>1, <2>2, <1>0, WireIsCut DEF SameModes
<1>13. ASSUME NEW c \in Calls, CallTimesOut(c) PROVE ModeInv' /\ (untold \/ view'.mode >= view.mode)
  <2>1. /\ pending' = pending \ {c} /\ wire' = MarkLate(wire, c)
        /\ UNCHANGED <<view, pref, untold, spawn, asked, proc, changes>>
    BY <1>13 DEF CallTimesOut, hubVars, procVars
  <2>2. /\ Ordered(wire', proc.mode) /\ Answered(wire', pending', asked)
        /\ \A low : Above(wire, low) => Above(wire', low)
    BY <2>1, <1>13, Numbers, MarkLateOrdered DEF ModeInv
  <2>3. ASSUME Starting PROVE wire' = <<>>
    <3>1. wire = <<>> /\ wire \in Seq(Message)
      BY <2>3, Numbers DEF ModeInv
    <3>2. Len(wire) = 0
      BY <3>1, EmptySeq
    <3>3. MarkLate(wire, c) \in Seq(Message) /\ Len(MarkLate(wire, c)) = Len(wire)
      BY <3>1, MarkLateKeeps
    <3>4. wire' = MarkLate(wire, c)
      BY <2>1
    <3>. QED
      BY <3>2, <3>3, <3>4, EmptySeq
  <2>. QED
    BY <2>1, <2>2, <2>3, <1>0 DEF ModeInv, Current, Starting
<1>14. CASE Start
  BY <1>14, StartModes, <1>0
<1>15. CASE SpawnFails
  <2>1. /\ SameModes /\ wire' = wire /\ (Starting' => Starting)
        /\ (proc.st = "gone" => proc'.st = "gone") /\ pending \ asked \subseteq pending' \ asked'
    BY <1>15 DEF SpawnFails, SameModes, Starting, hubVars, rowVars, callVars, procVars, Types, TypeOK
  <2>. QED
    BY <2>1, <1>0, NothingMoves DEF SameModes
<1>16. CASE Interval
  <2>1. /\ EmitAlive(proc.st = "thinking") /\ proc.st # "gone" /\ UNCHANGED proc
        /\ UNCHANGED <<view, pref, untold, spawn, pending, asked, changes>>
    BY <1>16 DEF Interval, hubVars, rowVars, callVars, procVars
  <2>. QED
    BY <2>1, <1>0, ProcessSpeaks
<1>17. CASE BeginTurn
  <2>1. /\ EmitAlive(TRUE) /\ proc.st # "gone" /\ proc'.st # "gone" /\ proc'.mode = proc.mode
        /\ UNCHANGED <<view, pref, untold, spawn, pending, asked, changes>>
    BY <1>17 DEF BeginTurn, hubVars, rowVars, callVars, procVars, Types, TypeOK
  <2>. QED
    BY <2>1, <1>0, ProcessSpeaks
<1>18. CASE EndTurn
  <2>1. /\ EmitAlive(FALSE) /\ proc.st # "gone" /\ proc'.st # "gone" /\ proc'.mode = proc.mode
        /\ UNCHANGED <<view, pref, untold, spawn, pending, asked, changes>>
    BY <1>18 DEF EndTurn, hubVars, rowVars, callVars, procVars, Types, TypeOK
  <2>. QED
    BY <2>1, <1>0, ProcessSpeaks
<1>19. CASE LocalChange
  BY <1>19, LocalChangeModes, <1>0
<1>20. CASE ApplyCall
  BY <1>20, ApplyCallModes, <1>0
<1>21. CASE KillCall
  BY <1>21, KillCallModes, <1>0
<1>22. CASE Leave
  <2>1. /\ proc.st # "gone" /\ proc'.mode = proc.mode /\ proc'.st = "gone" /\ asked' = {}
        /\ UNCHANGED <<view, pref, untold, spawn, pending, changes>>
    BY <1>22 DEF Leave, hubVars, rowVars, callVars, procVars, Types, TypeOK
  <2>2. CASE Emit(<<SessionEnd>>)
    <3>1. SessionEnd \in Message /\ ~Telling(SessionEnd) /\ ~LiveAck(SessionEnd)
      BY MadeMessages DEF SessionEnd, Telling, LiveAck
    <3>. QED
      BY <2>1, <2>2, <3>1, <1>0, SaysNoMode
  <2>3. CASE wire' = <<>>
    BY <2>1, <2>3, <1>0, WireIsCut DEF SameModes, Starting
  <2>. QED
    BY <1>22, <2>2, <2>3 DEF Leave
<1>23. CASE Crash
  <2>1. /\ proc'.mode = proc.mode /\ proc'.st = "gone" /\ asked' = {}
        /\ UNCHANGED <<view, pref, untold, spawn, pending, changes>>
    BY <1>23 DEF Crash, hubVars, rowVars, callVars, procVars, Types, TypeOK
  <2>2. CASE wire' = wire
    BY <2>1, <2>2, <1>0, NothingMoves DEF SameModes, Starting
  <2>3. CASE wire' = <<>>
    BY <2>1, <2>3, <1>0, WireIsCut DEF SameModes, Starting
  <2>. QED
    BY <1>23, <2>2, <2>3 DEF Crash
<1>24. CASE Disconnect
  <2>1. /\ proc'.mode = proc.mode /\ proc'.st = proc.st /\ wire' = <<>>
        /\ UNCHANGED <<view, pref, untold, spawn, changes>>
    BY <1>24 DEF Disconnect, hubVars, rowVars, callVars, procVars, Types, TypeOK
  <2>. QED
    BY <2>1, <1>0, WireIsCut DEF SameModes, Starting
<1>25. CASE Reconnect
  <2>1. /\ Emit(<<KeepAlive(FALSE, Unsaid)>>) /\ proc.st # "gone" /\ proc'.mode = proc.mode
        /\ UNCHANGED <<view, pref, untold, spawn, pending, asked, changes>>
    BY <1>25 DEF Reconnect, hubVars, rowVars, callVars, procVars, Living, Types, TypeOK
  <2>. DEFINE m == KeepAlive(FALSE, Unsaid)
  <2>2. m \in Message
    BY <1>25, MadeMessages
  <2>3. ~Telling(m) /\ ~LiveAck(m)
    BY DEF KeepAlive, Telling, LiveAck
  <2>4. Emit(<<m>>)
    BY <2>1
  <2>. HIDE DEF m
  <2>. QED
    BY <2>1, <2>2, <2>3, <2>4, <1>0, SaysNoMode
<1>26. ASSUME NEW p \in Prompts, Dequeue(p) PROVE ModeInv' /\ (untold \/ view'.mode >= view.mode)
  <2>1. /\ Emit(<<Consumed(p, FALSE)>>) /\ proc.st # "gone" /\ proc'.mode = proc.mode
        /\ UNCHANGED <<view, pref, untold, spawn, pending, asked, changes>>
    BY <1>26 DEF Dequeue, hubVars, rowVars, callVars, procVars, Living, Types, TypeOK
  <2>. DEFINE m == Consumed(p, FALSE)
  <2>2. m \in Message
    BY <1>26, MadeMessages
  <2>3. ~Telling(m) /\ ~LiveAck(m)
    BY DEF Consumed, Telling, LiveAck
  <2>4. Emit(<<m>>)
    BY <2>1
  <2>. HIDE DEF m
  <2>. QED
    BY <2>1, <2>2, <2>3, <2>4, <1>0, SaysNoMode
<1>27. ASSUME NEW p \in Prompts, Command(p) PROVE ModeInv' /\ (untold \/ view'.mode >= view.mode)
  <2>1. /\ Emit(<<Consumed(p, TRUE)>>) /\ proc.st # "gone" /\ proc'.mode = proc.mode
        /\ UNCHANGED <<view, pref, untold, spawn, pending, asked, changes>>
    BY <1>27 DEF Command, hubVars, rowVars, callVars, procVars, Living, Types, TypeOK
  <2>. DEFINE m == Consumed(p, TRUE)
  <2>2. m \in Message
    BY <1>27, MadeMessages
  <2>3. ~Telling(m) /\ ~LiveAck(m)
    BY DEF Consumed, Telling, LiveAck
  <2>4. Emit(<<m>>)
    BY <2>1
  <2>. HIDE DEF m
  <2>. QED
    BY <2>1, <2>2, <2>3, <2>4, <1>0, SaysNoMode
<1>28. CASE UNCHANGED vars
  <2>1. SameModes /\ wire' = wire /\ UNCHANGED <<spawn, proc, pending, asked, view>>
    BY <1>28 DEF vars, SameModes, hubVars, rowVars, callVars, procVars
  <2>. QED
    BY <2>1, <1>0, NothingMoves DEF Starting
<1>. QED
  BY <1>1, <1>2, <1>3, <1>4, <1>5, <1>6, <1>7, <1>8, <1>9, <1>10, <1>11, <1>12, <1>13, <1>14,
     <1>15, <1>16, <1>17, <1>18, <1>19, <1>20, <1>21, <1>22, <1>23, <1>24, <1>25, <1>26, <1>27,
     <1>28
     DEF Next, User, Hub, Cli

-----------------------------------------------------------------------------
(* The argument holds in every reachable state. *)
LEMMA AliveInvAlways == Spec => []AliveInv
<1>1. Init => AliveInv
  BY TypesInit, ModeInit DEF AliveInv
<1>2. AliveInv /\ [Next]_vars => AliveInv'
  BY TypesNext, ModeNext DEF AliveInv
<1>. QED
  BY <1>1, <1>2, PTL DEF Spec

(* The start of a turn is shown only while the session thinks, whatever the     *)
(* process sends and loses and whenever the hub expires it or starts again; the *)
(* start expireInactive forgets to clear (`lapsed`) is the only exception.      *)
THEOREM TurnOnlyWhileThinking == Spec => []NoTurnWhileIdle
<1>1. AliveInv => NoTurnWhileIdle
  BY DEF AliveInv, Types, Turn, NoTurnWhileIdle
<1>. QED
  BY <1>1, AliveInvAlways, PTL

(* The mode the hub shows never gives way to an earlier one: neither to a        *)
(* keep-alive that was under way when a change was applied, nor to the late      *)
(* answer of a call that was given up, nor to what a new hub process reads.      *)
(* The exception is a change that went to the cache only while a process lived.  *)
THEOREM ModeOnlyAdvances == Spec => ModeNeverGoesBack
<1>1. AliveInv /\ AliveInv' /\ [Next]_vars => [untold \/ view'.mode >= view.mode]_vars
  BY ModeNext DEF AliveInv
<1>. QED
  BY <1>1, AliveInvAlways, PTL DEF Spec, ModeNeverGoesBack
=============================================================================
