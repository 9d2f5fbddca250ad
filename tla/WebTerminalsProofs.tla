-------------------------- MODULE WebTerminalsProofs --------------------------
(***************************************************************************)
(* Proofs about WebTerminals, for every set of pages and every bound.      *)
(***************************************************************************)
EXTENDS WebTerminals, SequencesExt, SequenceTheorems, FiniteSetTheorems, WellFoundedInduction, TLAPS

-----------------------------------------------------------------------------
(* The elements of a queue or channel after the operations on it. *)

LEMMA AppendElements ==
  ASSUME NEW S, NEW s \in Seq(S), NEW e \in S
  PROVE  /\ Append(s, e) \in Seq(S)
         /\ ToSet(Append(s, e)) = ToSet(s) \cup {e}
<1>1. Append(s, e) = s \o <<e>> /\ Append(s, e) \in Seq(S) /\ <<e>> \in Seq(S)
  BY AppendIsConcat, AppendProperties
<1>2. Range(<<e>>) = {e}
  BY DEF Range
<1>. QED
  BY <1>1, <1>2, RangeConcatenation DEF ToSet, Range

LEMMA TailElements ==
  ASSUME NEW S, NEW s \in Seq(S), s # <<>>
  PROVE  /\ Head(s) \in S /\ Head(s) \in ToSet(s)
         /\ Tail(s) \in Seq(S)
         /\ ToSet(Tail(s)) \subseteq ToSet(s)
<1>1. /\ DOMAIN s = 1..Len(s) /\ Len(s) \in Nat \ {0} /\ Head(s) = s[1] /\ Head(s) \in S
      /\ Tail(s) \in Seq(S) /\ DOMAIN Tail(s) = 1..Len(Tail(s)) /\ Len(Tail(s)) = Len(s) - 1
      /\ \A i \in 1..Len(Tail(s)) : Tail(s)[i] = s[i + 1]
  BY HeadTailProperties, LenProperties, EmptySeq
<1>2. 1 \in 1..Len(s) /\ \A i \in 1..Len(Tail(s)) : i + 1 \in 1..Len(s)
  BY <1>1
<1>. QED
  BY <1>1, <1>2 DEF ToSet

LEMMA ConcatElements ==
  ASSUME NEW S, NEW s \in Seq(S), NEW t \in Seq(S)
  PROVE  /\ s \o t \in Seq(S)
         /\ ToSet(s \o t) \subseteq ToSet(s) \cup ToSet(t)
BY ConcatProperties, RangeConcatenation DEF ToSet, Range

LEMMA SubSeqElements ==
  ASSUME NEW S, NEW s \in Seq(S), NEW a \in Nat \ {0}, NEW b \in Nat, b <= Len(s)
  PROVE  /\ SubSeq(s, a, b) \in Seq(S)
         /\ ToSet(SubSeq(s, a, b)) \subseteq ToSet(s)
<1>1. Len(s) \in Nat /\ DOMAIN s = 1..Len(s)
  BY LenProperties
<1>2. CASE a <= b
  <2>1. /\ SubSeq(s, a, b) \in Seq(S)
        /\ Len(SubSeq(s, a, b)) = b - a + 1
        /\ \A i \in 1..(b - a + 1) : SubSeq(s, a, b)[i] = s[a + i - 1]
    BY <1>1, <1>2, SubSeqProperties
  <2>2. DOMAIN SubSeq(s, a, b) = 1..(b - a + 1)
    BY <2>1, LenProperties
  <2>3. \A i \in 1..(b - a + 1) : a + i - 1 \in 1..Len(s)
    BY <1>1, <1>2
  <2>. QED
    BY <1>1, <2>1, <2>2, <2>3 DEF ToSet
<1>3. CASE ~(a <= b)
  <2>1. SubSeq(s, a, b) = <<>>
    BY <1>3, SubSeqEmpty
  <2>. QED
    BY <2>1, EmptySeq DEF ToSet
<1>. QED
  BY <1>2, <1>3

-----------------------------------------------------------------------------
(* The inductive argument.  The socket an entry is bound to is one its page   *)
(* has or had, so that a new socket of the page is never taken for the bound  *)
(* one and is always given the scrollback; and an entry that is removed takes *)
(* its scrollback with it.                                                    *)

Message == {m \in [t : {"ready", "output", "exit", "error", "open", "write", "close"},
                   p : Pages, c : 0..MaxChunks] : m.t = "output" => m.c # 0}

Types == /\ TypeOK
         /\ down \in Seq(Message) /\ up \in [Sockets -> Seq(Message)] /\ kept \in Seq(Message)

Complete ==
  /\ IsFiniteSet(Registered) /\ Cardinality(Registered) <= MaxTerminals
  /\ \A p \in Pages : /\ entry[p].web <= page[p].n
                      /\ p \in Registered /\ Reaches(p) => buffer[p] \subseteq screen[p]
                      /\ p \notin Registered => buffer[p] = {}

(* a page that is connected has a socket *)
OnHasSocket == \A p \in Pages : page[p].on => page[p].n # 0

TerminalInv == Types /\ OnHasSocket /\ Complete
-----------------------------------------------------------------------------
LEMMA Bounds ==
  /\ MaxTerminals \in Nat /\ MaxWeb \in Nat /\ MaxCli \in Nat /\ MaxShells \in Nat
  /\ MaxChunks \in Nat /\ MaxWire \in Nat
  /\ MaxTerminals >= 1 /\ MaxCli >= 1 /\ MaxChunks >= 1
BY BoundsAssumption

(* A set of socket numbers has a least one: what lies below an element is a    *)
(* smaller set for a smaller element.                                          *)
LEMMA LeastOfRoom == ASSUME NEW S \in SUBSET Sockets, S # {} PROVE Min(S) \in S
<1>. DEFINE Below == [x \in S |-> {y \in S : y < x}]
            T     == {Below[x] : x \in S}
<1>1. IsFiniteSet(S) /\ S \subseteq Nat
  <2>1. IsFiniteSet(1..MaxCli) /\ S \subseteq 1..MaxCli
    BY Bounds, FS_Interval DEF Sockets
  <2>2. IsFiniteSet(S)
    BY <2>1, FS_Subset
  <2>3. S \subseteq Nat
    BY <2>1, Bounds
  <2>. QED
    BY <2>2, <2>3
<1>2. T \subseteq FiniteSubsetsOf(S) /\ T # {}
  <2>1. \A x \in S : Below[x] \subseteq S /\ IsFiniteSet(Below[x])
    BY <1>1, FS_Subset
  <2>. QED
    BY <2>1 DEF FiniteSubsetsOf
<1>. HIDE DEF T
<1>3. PICK B \in T : \A C \in T : <<C, B>> \notin StrictSubsetOrdering(S)
  BY <1>2, FS_StrictSubsetOrderingWellFounded, WFMin
<1>4. PICK x \in S : B = Below[x]
  BY <1>3 DEF T
<1>5. ASSUME NEW y \in S, y < x PROVE FALSE
  <2>1. x \in Nat /\ y \in Nat
    BY <1>1
  <2>2. Below[y] \subseteq Below[x]
    <3>1. SUFFICES ASSUME NEW z \in Below[y] PROVE z \in Below[x]
      OBVIOUS
    <3>2. z \in S /\ z < y
      OBVIOUS
    <3>3. z < x
      BY <3>2, <1>1, <1>5, <2>1
    <3>. QED
      BY <3>2, <3>3
  <2>3. y \in Below[x] /\ y \notin Below[y]
    BY <1>5, <2>1
  <2>4. <<Below[y], Below[x]>> \in StrictSubsetOrdering(S)
    BY <2>2, <2>3 DEF StrictSubsetOrdering
  <2>5. Below[y] \in T
    BY DEF T
  <2>. QED
    BY <1>3, <1>4, <2>4, <2>5
<1>6. \A y \in S : x =< y
  BY <1>1, <1>5
<1>. QED
  BY <1>6 DEF Min

LEMMA MadeMessages ==
  /\ \A p \in Pages, t \in {"ready", "exit", "error", "open", "write", "close"} : Msg(t, p) \in Message
  /\ \A p \in Pages, c \in 1..MaxChunks : Output(p, c) \in Message
BY Bounds DEF Msg, Output, Message

LEMMA OneMessage == ASSUME NEW m \in Message PROVE <<m>> \in Seq(Message)
OBVIOUS

LEMMA ToCliTypes ==
  ASSUME Types, NEW c, NEW m \in Message, ToCli(c, m)
  PROVE  down' \in Seq(Message)
<1>1. down \in Seq(Message)
  BY DEF Types
<1>2. Append(down, m) \in Seq(Message)
  BY <1>1, AppendElements
<1>. QED
  BY <1>1, <1>2 DEF ToCli

LEMMA EmitTypes ==
  ASSUME Types, NEW ms \in Seq(Message), Emit(ms)
  PROVE  up' \in [Sockets -> Seq(Message)] /\ kept' \in Seq(Message)
<1>1. CASE cli.on
  <2>1. cli.n \in Sockets /\ up[cli.n] \in Seq(Message)
    BY DEF Types, TypeOK
  <2>2. up[cli.n] \o ms \in Seq(Message)
    BY <2>1, ConcatElements
  <2>. QED
    BY <1>1, <2>1, <2>2 DEF Emit, Types
<1>2. CASE ~cli.on
  BY <1>2, ConcatElements DEF Emit, Types
<1>. QED
  BY <1>1, <1>2

LEMMA TellTypes ==
  ASSUME Types, NEW ps, NEW st \in {"idle", "connecting", "connected", "error"}, Tell(ps, st)
  PROVE  /\ page' \in [Pages -> [st : {"idle", "connecting", "connected", "error"},
                                 on : BOOLEAN, n : 0..MaxWeb]]
         /\ \A p \in Pages : page'[p].n = page[p].n /\ page'[p].on = page[p].on
<1>1. \A p \in Pages : page[p] \in [st : {"idle", "connecting", "connected", "error"},
                                    on : BOOLEAN, n : 0..MaxWeb]
  BY DEF Types, TypeOK
<1>2. ASSUME NEW p \in Pages
      PROVE  /\ page'[p] \in [st : {"idle", "connecting", "connected", "error"},
                              on : BOOLEAN, n : 0..MaxWeb]
             /\ page'[p].n = page[p].n /\ page'[p].on = page[p].on
  <2>1. page'[p] = page[p] \/ page'[p] = [page[p] EXCEPT !.st = st]
    BY DEF Tell
  <2>. QED
    BY <1>1, <2>1
<1>3. page' = [p \in Pages |-> page'[p]]
  BY DEF Tell
<1>. QED
  BY <1>2, <1>3

LEMMA RemoveTypes ==
  ASSUME Types, NEW ps, RemoveEntries(ps)
  PROVE  /\ entry' \in [Pages -> [web : 0..MaxWeb, cli : 0..MaxCli]]
         /\ buffer' \in [Pages -> SUBSET (1..MaxChunks)]
         /\ \A p \in Pages : \/ entry'[p] = entry[p] /\ buffer'[p] = buffer[p]
                             \/ entry'[p] = NoEntry /\ buffer'[p] = {}
<1>1. NoEntry \in [web : 0..MaxWeb, cli : 0..MaxCli]
  BY Bounds DEF NoEntry
<1>. QED
  BY <1>1 DEF RemoveEntries, Types, TypeOK

LEMMA CleanupShellsTypes ==
  ASSUME Types, NEW ps, CleanupShells(ps)
  PROVE  shell' \in [Pages -> 0..MaxShells] /\ ended' \subseteq Pages \X (1..MaxShells)
<1>1. \A p \in Pages : shell[p] \in 0..MaxShells
  BY DEF Types, TypeOK
<1>2. shell' \in [Pages -> 0..MaxShells]
  BY <1>1, Bounds DEF CleanupShells, NoShell
<1>3. \A p \in Running : p \in Pages /\ shell[p] \in 1..MaxShells
  BY <1>1, Bounds DEF Running, NoShell
<1>4. ended \subseteq Pages \X (1..MaxShells)
  BY DEF Types, TypeOK
<1>. QED
  BY <1>2, <1>3, <1>4 DEF CleanupShells
-----------------------------------------------------------------------------
(* What changes neither an entry nor a screen, except that an entry may go.   *)

LEMMA FewerEntries ==
  ASSUME Complete, Types, Types',
         \A p \in Pages : page'[p].n = page[p].n /\ (page'[p].on => page[p].on),
         \A p \in Pages : \/ entry'[p] = entry[p] /\ buffer'[p] = buffer[p]
                          \/ entry'[p] = NoEntry /\ buffer'[p] = {},
         screen' = screen
  PROVE  Complete' /\ (OnHasSocket => OnHasSocket')
<1>1. Registered' \subseteq Registered
  BY DEF Registered
<1>2. /\ IsFiniteSet(Registered') /\ Cardinality(Registered') <= Cardinality(Registered)
      /\ Cardinality(Registered') \in Nat /\ Cardinality(Registered) \in Nat
  BY <1>1, FS_Subset, FS_CardinalityType DEF Complete
<1>3. Cardinality(Registered') <= MaxTerminals
  BY <1>2, Bounds DEF Complete
<1>4. ASSUME NEW p \in Pages
      PROVE  /\ entry'[p].web <= page'[p].n
             /\ (p \in Registered' /\ Reaches(p)') => buffer'[p] \subseteq screen'[p]
             /\ p \notin Registered' => buffer'[p] = {}
  <2>1. page[p].n \in Nat /\ entry[p].web <= page[p].n
    BY Bounds DEF Complete, Types, TypeOK
  <2>2. CASE entry'[p] = entry[p] /\ buffer'[p] = buffer[p]
    BY <2>1, <2>2 DEF Complete, Registered, Reaches
  <2>3. CASE entry'[p] = NoEntry /\ buffer'[p] = {}
    BY <2>1, <2>3 DEF Registered, NoEntry
  <2>. QED
    BY <2>2, <2>3
<1>5. OnHasSocket => OnHasSocket'
  BY DEF OnHasSocket
<1>. QED
  BY <1>2, <1>3, <1>4, <1>5 DEF Complete
-----------------------------------------------------------------------------
(* The types.                                                                *)

LEMMA TypesInit == Init => Types
<1>. SUFFICES ASSUME Init PROVE Types
  OBVIOUS
<1>1. page \in [Pages -> [st : {"idle", "connecting", "connected", "error"}, on : BOOLEAN, n : 0..MaxWeb]]
  BY Bounds DEF Init
<1>2. entry \in [Pages -> [web : 0..MaxWeb, cli : 0..MaxCli]]
  BY Bounds DEF Init, NoEntry
<1>3. room \subseteq Sockets /\ cli \in [n : Sockets, on : BOOLEAN]
  BY Bounds DEF Init, Sockets
<1>4. shell \in [Pages -> 0..MaxShells] /\ shells \in 0..MaxShells /\ chunks \in 0..MaxChunks
  BY Bounds DEF Init, NoShell
<1>5. /\ screen \in [Pages -> SUBSET (1..MaxChunks)] /\ buffer \in [Pages -> SUBSET (1..MaxChunks)]
      /\ ended = {} /\ DOMAIN up = Sockets
  BY DEF Init
<1>6. <<>> \in Seq(Message)
  OBVIOUS
<1>7. down \in Seq(Message) /\ up \in [Sockets -> Seq(Message)] /\ kept \in Seq(Message)
  BY <1>6 DEF Init
<1>. QED
  BY <1>1, <1>2, <1>3, <1>4, <1>5, <1>7 DEF Types, TypeOK

LEMMA CreateTypes ==
  ASSUME Types, NEW p \in Pages, NEW n \in 1..MaxWeb, Create(p, n)
  PROVE  /\ page' \in [Pages -> [st : {"idle", "connecting", "connected", "error"},
                                 on : BOOLEAN, n : 0..MaxWeb]]
         /\ entry' \in [Pages -> [web : 0..MaxWeb, cli : 0..MaxCli]]
         /\ screen' \in [Pages -> SUBSET (1..MaxChunks)]
         /\ down' \in Seq(Message) /\ buffer' = buffer
<1>. DEFINE refused == \/ entry[p] = NoEntry /\ Cardinality(Registered) >= MaxTerminals
                       \/ room = {}
            answered(st) == page' = [page EXCEPT ![p] = [st |-> st, on |-> TRUE, n |-> n]]
<1>1. \A st \in {"connecting", "error"} : answered(st) =>
        page' \in [Pages -> [st : {"idle", "connecting", "connected", "error"},
                             on : BOOLEAN, n : 0..MaxWeb]]
  BY Bounds DEF Types, TypeOK
<1>2. CASE refused /\ answered("error") /\ UNCHANGED <<screen, entry, buffer, down>>
  BY <1>1, <1>2 DEF Types, TypeOK
<1>3. CASE /\ ~refused /\ answered("connecting")
           /\ entry'  = [entry EXCEPT ![p] = IF @.web = n THEN @ ELSE [web |-> n, cli |-> Min(room)]]
           /\ screen' = [screen EXCEPT ![p] = @ \cup Replayed(p, n)]
           /\ ToCli(Min(room), Msg("open", p)) /\ UNCHANGED buffer
  <2>1. Min(room) \in Sockets
    BY <1>3, LeastOfRoom DEF Types, TypeOK
  <2>2. [web |-> n, cli |-> Min(room)] \in [web : 0..MaxWeb, cli : 0..MaxCli]
    BY <2>1, Bounds DEF Sockets
  <2>. DEFINE e == IF entry[p].web = n THEN entry[p] ELSE [web |-> n, cli |-> Min(room)]
  <2>3. e \in [web : 0..MaxWeb, cli : 0..MaxCli]
    BY <2>2 DEF Types, TypeOK
  <2>4. entry' = [entry EXCEPT ![p] = e]
    BY <1>3
  <2>. HIDE DEF e
  <2>5. entry' \in [Pages -> [web : 0..MaxWeb, cli : 0..MaxCli]]
    BY <2>3, <2>4 DEF Types, TypeOK
  <2>6. Replayed(p, n) \in SUBSET (1..MaxChunks)
    BY DEF Replayed, Types, TypeOK
  <2>7. screen' \in [Pages -> SUBSET (1..MaxChunks)]
    BY <1>3, <2>6 DEF Types, TypeOK
  <2>8. Msg("open", p) \in Message
    BY MadeMessages
  <2>9. down' \in Seq(Message)
    BY <1>3, <2>8, ToCliTypes
  <2>. QED
    BY <1>1, <1>3, <2>5, <2>7, <2>9
<1>. QED
  BY <1>2, <1>3 DEF Create

LEMMA HandleHubTypes ==
  ASSUME Types, HandleHub
  PROVE  /\ down' \in Seq(Message) /\ up' \in [Sockets -> Seq(Message)] /\ kept' \in Seq(Message)
         /\ shell' \in [Pages -> 0..MaxShells] /\ ended' \subseteq Pages \X (1..MaxShells)
         /\ shells' \in 0..MaxShells
<1>. DEFINE m == Head(down)
<1>1. m \in Message /\ down' = Tail(down) /\ down' \in Seq(Message)
  BY TailElements DEF HandleHub, Types
<1>2. m.p \in Pages
  BY <1>1 DEF Message
<1>. HIDE DEF m
<1>3. /\ shell \in [Pages -> 0..MaxShells] /\ ended \subseteq Pages \X (1..MaxShells)
      /\ shells \in 0..MaxShells /\ up \in [Sockets -> Seq(Message)] /\ kept \in Seq(Message)
  BY DEF Types, TypeOK
<1>4. \A t \in {"ready", "error"} : <<Msg(t, m.p)>> \in Seq(Message)
  BY <1>2, MadeMessages
<1>5. CASE OpenShell(m.p)
  <2>1. up' \in [Sockets -> Seq(Message)] /\ kept' \in Seq(Message)
    BY <1>4, <1>5, EmitTypes DEF OpenShell
  <2>2. CASE UNCHANGED <<shell, ended, shells>>
    BY <1>1, <1>3, <2>1, <2>2
  <2>3. CASE /\ shells < MaxShells /\ shells' = shells + 1
             /\ shell' = [shell EXCEPT ![m.p] = shells'] /\ UNCHANGED ended
    <3>1. shells' \in 0..MaxShells
      BY <1>3, <2>3, Bounds
    <3>. QED
      BY <1>1, <1>2, <1>3, <2>1, <2>3, <3>1
  <2>. QED
    BY <1>5, <2>2, <2>3 DEF OpenShell
<1>6. CASE WriteShell(m.p)
  <2>1. up' \in [Sockets -> Seq(Message)] /\ kept' \in Seq(Message)
    BY <1>3, <1>4, <1>6, EmitTypes DEF WriteShell
  <2>. QED
    BY <1>1, <1>3, <1>6, <2>1 DEF WriteShell
<1>7. CASE CloseShell(m.p)
  BY <1>1, <1>3, <1>7, CleanupShellsTypes DEF CloseShell
<1>. QED
  BY <1>5, <1>6, <1>7 DEF HandleHub, m

LEMMA HandleCliTypes ==
  ASSUME Types, NEW c \in Sockets, HandleCli(c)
  PROVE  /\ page' \in [Pages -> [st : {"idle", "connecting", "connected", "error"},
                                 on : BOOLEAN, n : 0..MaxWeb]]
         /\ entry' \in [Pages -> [web : 0..MaxWeb, cli : 0..MaxCli]]
         /\ screen' \in [Pages -> SUBSET (1..MaxChunks)] /\ buffer' \in [Pages -> SUBSET (1..MaxChunks)]
         /\ up' \in [Sockets -> Seq(Message)]
<1>. DEFINE m == Head(up[c])
<1>1. /\ up[c] \in Seq(Message) /\ up[c] # <<>> /\ up' = [up EXCEPT ![c] = Tail(@)]
      /\ up \in [Sockets -> Seq(Message)]
  BY DEF HandleCli, Types
<1>2. m \in Message /\ Tail(up[c]) \in Seq(Message)
  BY <1>1, TailElements
<1>3. up' \in [Sockets -> Seq(Message)]
  BY <1>1, <1>2
<1>4. m.p \in Pages /\ (m.t = "output" => m.c \in 1..MaxChunks)
  BY <1>2, Bounds DEF Message
<1>5. /\ page \in [Pages -> [st : {"idle", "connecting", "connected", "error"},
                             on : BOOLEAN, n : 0..MaxWeb]]
      /\ entry \in [Pages -> [web : 0..MaxWeb, cli : 0..MaxCli]]
      /\ screen \in [Pages -> SUBSET (1..MaxChunks)] /\ buffer \in [Pages -> SUBSET (1..MaxChunks)]
  BY DEF Types, TypeOK
<1>6. CASE UNCHANGED <<page, screen, entry, buffer>>
  BY <1>3, <1>5, <1>6
<1>7. CASE Tell({m.p}, "connected") /\ UNCHANGED <<screen, entry, buffer>>
  BY <1>3, <1>5, <1>7, TellTypes
<1>8. CASE /\ m.t = "output" /\ buffer' = [buffer EXCEPT ![m.p] = @ \cup {m.c}]
           /\ screen' = IF Reaches(m.p) THEN [screen EXCEPT ![m.p] = @ \cup {m.c}] ELSE screen
           /\ UNCHANGED <<page, entry>>
  <2>. HIDE DEF m
  <2>. QED
    BY <1>3, <1>4, <1>5, <1>8
<1>9. CASE Tell({m.p}, "error") /\ RemoveEntries({m.p}) /\ UNCHANGED screen
  BY <1>3, <1>5, <1>9, TellTypes, RemoveTypes
<1>. QED
  BY <1>6, <1>7, <1>8, <1>9 DEF HandleCli

LEMMA TypesNext ==
  ASSUME Types, OnHasSocket, [Next]_vars
  PROVE  Types'
<1>0. OnHasSocket
  OBVIOUS
<1>1. ASSUME NEW p \in Pages, Connect(p) PROVE Types'
  <2>1. page[p].n + 1 \in 1..MaxWeb
    BY <1>1, Bounds DEF Connect, Types, TypeOK
  <2>. QED
    BY <1>1, <2>1, CreateTypes DEF Connect, Types, TypeOK, pageVars, hubVars, linkVars, cliVars
<1>2. ASSUME NEW p \in Pages, Retry(p) PROVE Types'
  <2>1. CASE page[p].n \in 1..MaxWeb
    BY <1>2, <2>1, CreateTypes DEF Retry, Types, TypeOK, pageVars, hubVars, linkVars, cliVars
  <2>2. CASE page[p].n = 0
    BY <1>2, <2>2, <1>0 DEF Retry, OnHasSocket
  <2>3. page[p].n \in 0..MaxWeb
    BY <1>2 DEF Types, TypeOK
  <2>4. page[p].n = 0 \/ page[p].n \in 1..MaxWeb
    BY <2>3, Bounds
  <2>. QED
    BY <2>1, <2>2, <2>4
<1>3. ASSUME NEW p \in Pages, Disconnect(p) PROVE Types'
  <2>1. page' \in [Pages -> [st : {"idle", "connecting", "connected", "error"}, on : BOOLEAN, n : 0..MaxWeb]]
    <3>1. page[p] \in [st : {"idle", "connecting", "connected", "error"}, on : BOOLEAN, n : 0..MaxWeb]
      BY <1>3 DEF Types, TypeOK
    <3>. DEFINE away == [page[p] EXCEPT !.on = FALSE, !.st = "error"]
    <3>2. away \in [st : {"idle", "connecting", "connected", "error"}, on : BOOLEAN, n : 0..MaxWeb]
      BY <3>1
    <3>3. page' = [page EXCEPT ![p] = away]
      BY <1>3, <3>1 DEF Disconnect, Types, TypeOK
    <3>. HIDE DEF away
    <3>. QED
      BY <3>2, <3>3 DEF Types, TypeOK
  <2>. QED
    BY <1>3, <2>1 DEF Disconnect, Types, TypeOK, pageVars, hubVars, linkVars, cliVars
<1>4. ASSUME NEW p \in Pages, Write(p) PROVE Types'
  <2>1. CASE UNCHANGED <<page, entry, buffer, down>>
    BY <1>4, <2>1 DEF Write, Types, TypeOK, pageVars, hubVars, linkVars, cliVars
  <2>2. CASE ToCli(entry[p].cli, Msg("write", p)) /\ UNCHANGED <<page, entry, buffer>>
    <3>1. Msg("write", p) \in Message
      BY <1>4, MadeMessages
    <3>2. down' \in Seq(Message)
      BY <2>2, <3>1, ToCliTypes
    <3>. QED
      BY <1>4, <2>2, <3>2 DEF Write, Types, TypeOK, pageVars, hubVars, linkVars, cliVars
  <2>3. CASE Tell({p}, "error") /\ RemoveEntries({p}) /\ UNCHANGED down
    BY <1>4, <2>3, TellTypes, RemoveTypes DEF Write, Types, TypeOK, pageVars, hubVars, linkVars, cliVars
  <2>. QED
    BY <1>4, <2>1, <2>2, <2>3 DEF Write
<1>5. ASSUME NEW p \in Pages, HubIdle(p) PROVE Types'
  <2>1. down' \in Seq(Message)
    <3>1. CASE UNCHANGED down
      BY <3>1 DEF Types
    <3>2. CASE ToCli(entry[p].cli, Msg("close", p))
      <4>1. Msg("close", p) \in Message
        BY <1>5, MadeMessages
      <4>. QED
        BY <3>2, <4>1, ToCliTypes
    <3>. QED
      BY <1>5, <3>1, <3>2 DEF HubIdle
  <2>2. Tell({p}, "error") /\ RemoveEntries({p})
    BY <1>5 DEF HubIdle
  <2>. QED
    BY <1>5, <2>1, <2>2, TellTypes, RemoveTypes DEF HubIdle, Types, TypeOK, pageVars, hubVars, linkVars, cliVars
<1>6. ASSUME NEW p \in Pages, ShellWrites(p) PROVE Types'
  <2>1. chunks' = chunks + 1 /\ chunks' \in 1..MaxChunks
    BY <1>6, Bounds DEF ShellWrites, Types, TypeOK
  <2>2. Output(p, chunks') \in Message
    BY <1>6, <2>1, MadeMessages
  <2>3. <<Output(p, chunks')>> \in Seq(Message)
    BY <2>2, OneMessage
  <2>4. up' \in [Sockets -> Seq(Message)] /\ kept' \in Seq(Message)
    BY <1>6, <2>3, EmitTypes DEF ShellWrites
  <2>5. chunks' \in 0..MaxChunks
    BY <2>1, Bounds
  <2>. QED
    BY <1>6, <2>4, <2>5 DEF ShellWrites, Types, TypeOK, pageVars, hubVars, linkVars, cliVars
<1>7. ASSUME NEW p \in Pages, Exit(p) PROVE Types'
  <2>1. shell[p] \in 1..MaxShells
    BY <1>7, Bounds DEF Exit, Running, NoShell, Types, TypeOK
  <2>2. ended' \subseteq Pages \X (1..MaxShells)
    BY <1>7, <2>1 DEF Exit, Types, TypeOK
  <2>. QED
    BY <1>7, <2>2 DEF Exit, Types, TypeOK, pageVars, hubVars, linkVars, cliVars
<1>8. ASSUME NEW p \in Pages, CliIdle(p) PROVE Types'
  <2>1. <<Msg("error", p)>> \in Seq(Message)
    BY <1>8, MadeMessages
  <2>2. up' \in [Sockets -> Seq(Message)] /\ kept' \in Seq(Message)
    BY <1>8, <2>1, EmitTypes DEF CliIdle
  <2>3. shell' \in [Pages -> 0..MaxShells] /\ ended' \subseteq Pages \X (1..MaxShells)
    BY <1>8, CleanupShellsTypes DEF CliIdle
  <2>. QED
    BY <1>8, <2>2, <2>3 DEF CliIdle, Types, TypeOK, pageVars, hubVars, linkVars, cliVars
<1>9. ASSUME NEW p \in Pages, NEW k \in 1..shells, OnExit(p, k) PROVE Types'
  <2>1. <<Msg("exit", p)>> \in Seq(Message)
    BY <1>9, MadeMessages
  <2>2. up' \in [Sockets -> Seq(Message)] /\ kept' \in Seq(Message)
    BY <1>9, <2>1, EmitTypes DEF OnExit
  <2>3. shell' \in [Pages -> 0..MaxShells]
    BY <1>9, Bounds DEF OnExit, NoShell, Types, TypeOK
  <2>4. p \in Running => shell[p] \in 1..MaxShells
    BY <1>9, Bounds DEF Running, NoShell, Types, TypeOK
  <2>5. ended' \subseteq Pages \X (1..MaxShells)
    BY <1>9, <2>4 DEF OnExit, Types, TypeOK
  <2>. QED
    BY <1>9, <2>2, <2>3, <2>5 DEF OnExit, Types, TypeOK, pageVars, hubVars, linkVars, cliVars
<1>10. ASSUME NEW c \in Sockets, HandleCli(c) PROVE Types'
  <2>1. UNCHANGED <<room, down, kept, cliVars>>
    BY <1>10 DEF HandleCli
  <2>. QED
    BY <1>10, <2>1, HandleCliTypes DEF Types, TypeOK, pageVars, hubVars, linkVars, cliVars
<1>11. ASSUME NEW c \in Sockets, SeeClose(c) PROVE Types'
  <2>1. Tell(BoundTo(c), "error") /\ RemoveEntries(BoundTo(c))
    BY <1>11 DEF SeeClose, Cleanup
  <2>2. room' \subseteq Sockets
    BY <1>11 DEF SeeClose, Types, TypeOK
  <2>. QED
    BY <1>11, <2>1, <2>2, TellTypes, RemoveTypes DEF SeeClose, Types, TypeOK, pageVars, hubVars, linkVars, cliVars
<1>12. CASE HandleHub
  <2>1. UNCHANGED <<pageVars, hubVars, cli, chunks>>
    BY <1>12 DEF HandleHub
  <2>. QED
    BY <1>12, <2>1, HandleHubTypes DEF Types, TypeOK, pageVars, hubVars, linkVars, cliVars
<1>13. CASE CliDisconnect
  <2>1. <<>> \in Seq(Message) /\ cli.n \in Sockets /\ up[cli.n] \in Seq(Message)
    BY DEF Types, TypeOK
  <2>2. PICK i \in 0..Len(up[cli.n]) : up' = [up EXCEPT ![cli.n] = SubSeq(@, 1, i)]
    BY <1>13 DEF CliDisconnect
  <2>3. SubSeq(up[cli.n], 1, i) \in Seq(Message)
    <3>1. Len(up[cli.n]) \in Nat
      BY <2>1, LenProperties
    <3>2. i \in Nat /\ i <= Len(up[cli.n]) /\ 1 \in Nat \ {0}
      BY <3>1
    <3>. QED
      BY <2>1, <3>2, SubSeqElements
  <2>4. up' \in [Sockets -> Seq(Message)]
    BY <2>1, <2>2, <2>3 DEF Types
  <2>5. cli' \in [n : Sockets, on : BOOLEAN] /\ down' = <<>>
    BY <1>13 DEF CliDisconnect, Types, TypeOK
  <2>6. shell' \in [Pages -> 0..MaxShells] /\ ended' \subseteq Pages \X (1..MaxShells)
    BY <1>13, CleanupShellsTypes DEF CliDisconnect
  <2>. QED
    BY <1>13, <2>1, <2>4, <2>5, <2>6 DEF CliDisconnect, Types, TypeOK, pageVars, hubVars, linkVars, cliVars
<1>14. CASE CliConnect
  <2>1. cli.n + 1 \in Sockets
    BY <1>14, Bounds DEF CliConnect, Types, TypeOK, Sockets
  <2>2. cli' = [n |-> cli.n + 1, on |-> TRUE]
    BY <1>14 DEF CliConnect
  <2>3. cli' \in [n : Sockets, on : BOOLEAN] /\ cli'.n \in Sockets
    BY <2>1, <2>2
  <2>4. up' \in [Sockets -> Seq(Message)] /\ room' \subseteq Sockets
    BY <1>14, <2>3 DEF CliConnect, Types, TypeOK
  <2>5. kept' = <<>> /\ <<>> \in Seq(Message)
    BY <1>14 DEF CliConnect
  <2>. QED
    BY <1>14, <2>3, <2>4, <2>5 DEF CliConnect, Types, TypeOK, pageVars, hubVars, linkVars, cliVars
<1>15. CASE UNCHANGED vars
  BY <1>15 DEF vars, Types, TypeOK, pageVars, hubVars, linkVars, cliVars
<1>. QED
  BY <1>1, <1>2, <1>3, <1>4, <1>5, <1>6, <1>7, <1>8, <1>9, <1>10, <1>11, <1>12, <1>13, <1>14,
     <1>15
     DEF Next
-----------------------------------------------------------------------------
(* The scrollback.                                                           *)

(* terminal:create over a new socket, or again over the one the page has *)
LEMMA CreateComplete ==
  ASSUME Types, Types', Complete, OnHasSocket, NEW p \in Pages, NEW n \in 1..MaxWeb,
         n > page[p].n \/ (n = page[p].n /\ page[p].on), Create(p, n)
  PROVE  Complete' /\ OnHasSocket'
<1>. DEFINE refused == \/ entry[p] = NoEntry /\ Cardinality(Registered) >= MaxTerminals
                       \/ room = {}
<1>1. /\ n \in Nat /\ n >= 1 /\ page[p].n \in Nat /\ entry[p].web \in Nat /\ entry[p].web <= page[p].n
  BY Bounds DEF Types, TypeOK, Complete
<1>2. page'[p].n = n /\ page'[p].on /\ \A q \in Pages \ {p} : page'[q] = page[q]
  <2>1. PICK st \in {"error", "connecting"} :
          page' = [page EXCEPT ![p] = [st |-> st, on |-> TRUE, n |-> n]]
    BY DEF Create
  <2>. QED
    BY <2>1 DEF Types, TypeOK
<1>3. OnHasSocket'
  BY <1>1, <1>2 DEF OnHasSocket
<1>4. buffer' = buffer
  BY DEF Create
<1>5. IsFiniteSet(Registered) /\ Cardinality(Registered) \in Nat
  BY FS_CardinalityType DEF Complete
<1>6. CASE refused /\ UNCHANGED <<screen, entry, buffer, down>>
  <2>1. Registered' = Registered
    BY <1>6 DEF Registered
  <2>2. Reaches(p)' => Reaches(p)
    BY <1>1, <1>2, <1>6 DEF Reaches
  <2>3. \A q \in Pages \ {p} : Reaches(q)' => Reaches(q)
    BY <1>2, <1>6 DEF Reaches
  <2>4. entry'[p].web <= page'[p].n
    BY <1>1, <1>2, <1>6
  <2>. QED
    BY <1>2, <1>3, <1>6, <2>1, <2>2, <2>3, <2>4 DEF Complete
<1>7. CASE /\ ~refused
           /\ entry'  = [entry EXCEPT ![p] = IF @.web = n THEN @ ELSE [web |-> n, cli |-> Min(room)]]
           /\ screen' = [screen EXCEPT ![p] = @ \cup Replayed(p, n)]
  <2>1. entry'[p].web = n /\ \A q \in Pages \ {p} : entry'[q] = entry[q] /\ screen'[q] = screen[q]
    BY <1>7 DEF Types, TypeOK
  <2>2. p \in Registered' /\ \A q \in Pages \ {p} : q \in Registered' <=> q \in Registered
    BY <1>1, <2>1 DEF Registered, NoEntry
  <2>3. Registered' = Registered \cup {p}
    BY <2>2 DEF Registered
  <2>4. /\ IsFiniteSet(Registered')
        /\ Cardinality(Registered') = IF p \in Registered THEN Cardinality(Registered)
                                                          ELSE Cardinality(Registered) + 1
    BY <1>5, <2>3, FS_AddElement
  <2>5. Cardinality(Registered') <= MaxTerminals
    <3>1. CASE p \in Registered
      BY <2>4, <3>1 DEF Complete
    <3>2. CASE p \notin Registered
      <4>1. entry[p] = NoEntry
        BY <3>2 DEF Registered
      <4>2. ~(Cardinality(Registered) >= MaxTerminals)
        BY <1>7, <4>1
      <4>. QED
        BY <1>5, <2>4, <3>2, <4>2, Bounds
    <3>. QED
      BY <3>1, <3>2
  <2>6. buffer'[p] \subseteq screen'[p]
    <3>1. screen'[p] = screen[p] \cup Replayed(p, n)
      BY <1>7 DEF Types, TypeOK
    <3>2. CASE entry[p].web # n
      BY <1>4, <3>1, <3>2 DEF Replayed, ShouldReplay
    <3>3. CASE entry[p].web = n
      <4>1. p \in Registered /\ Reaches(p)
        BY <1>1, <3>3 DEF Registered, NoEntry, Reaches
      <4>. QED
        BY <1>4, <3>1, <4>1 DEF Complete
    <3>. QED
      BY <3>2, <3>3
  <2>7. ASSUME NEW q \in Pages
        PROVE  /\ entry'[q].web <= page'[q].n
               /\ (q \in Registered' /\ Reaches(q)') => buffer'[q] \subseteq screen'[q]
               /\ q \notin Registered' => buffer'[q] = {}
    <3>1. CASE q = p
      BY <1>1, <1>2, <2>1, <2>2, <2>6, <3>1
    <3>2. CASE q # p
      BY <1>2, <1>4, <2>1, <2>2, <3>2 DEF Complete, Reaches
    <3>. QED
      BY <3>1, <3>2
  <2>. QED
    BY <1>3, <2>4, <2>5, <2>7 DEF Complete
<1>. QED
  BY <1>6, <1>7 DEF Create

LEMMA HandleCliComplete ==
  ASSUME Types, Types', Complete, OnHasSocket, NEW c \in Sockets, HandleCli(c)
  PROVE  Complete' /\ OnHasSocket'
<1>. DEFINE m == Head(up[c])
<1>1. m \in Message
  BY TailElements DEF HandleCli, Types
<1>2. m.p \in Pages
  BY <1>1 DEF Message
<1>3. CASE UNCHANGED <<page, screen, entry, buffer>>
  BY <1>3, FewerEntries
<1>4. CASE Tell({m.p}, "connected") /\ UNCHANGED <<screen, entry, buffer>>
  BY <1>4, TellTypes, FewerEntries
<1>5. CASE Tell({m.p}, "error") /\ RemoveEntries({m.p}) /\ UNCHANGED screen
  BY <1>5, TellTypes, RemoveTypes, FewerEntries
<1>6. CASE /\ Heeds(m, c) /\ buffer' = [buffer EXCEPT ![m.p] = @ \cup {m.c}]
           /\ screen' = IF Reaches(m.p) THEN [screen EXCEPT ![m.p] = @ \cup {m.c}] ELSE screen
           /\ UNCHANGED <<page, entry>>
  <2>. HIDE DEF m
  <2>1. m.p \in Registered
    <3>1. entry[m.p].cli = c /\ c >= 1 /\ c \in Nat
      BY <1>6, Bounds DEF Heeds, Sockets
    <3>. QED
      BY <1>2, <3>1 DEF Registered, NoEntry
  <2>2. Registered' = Registered
    BY <1>6 DEF Registered
  <2>3. \A q \in Pages : Reaches(q)' <=> Reaches(q)
    BY <1>6 DEF Reaches
  <2>4. ASSUME NEW q \in Pages, q \in Registered, Reaches(q)
        PROVE  buffer'[q] \subseteq screen'[q]
    <3>1. buffer[q] \subseteq screen[q]
      BY <2>4 DEF Complete
    <3>2. CASE q = m.p
      BY <1>6, <2>4, <3>1, <3>2 DEF Types, TypeOK
    <3>3. CASE q # m.p
      BY <1>6, <3>1, <3>3 DEF Types, TypeOK
    <3>. QED
      BY <3>2, <3>3
  <2>5. ASSUME NEW q \in Pages, q \notin Registered PROVE buffer'[q] = {}
    BY <1>6, <2>1, <2>5 DEF Complete, Types, TypeOK
  <2>6. OnHasSocket'
    BY <1>6 DEF OnHasSocket
  <2>. QED
    BY <1>6, <2>2, <2>3, <2>4, <2>5, <2>6 DEF Complete
<1>. QED
  BY <1>3, <1>4, <1>5, <1>6 DEF HandleCli

LEMMA CompleteNext ==
  ASSUME Types, Types', OnHasSocket, Complete, [Next]_vars
  PROVE  Complete' /\ OnHasSocket'
<1>0. Types /\ Types' /\ OnHasSocket /\ Complete
  OBVIOUS
<1>1. ASSUME NEW p \in Pages, Connect(p) PROVE Complete' /\ OnHasSocket'
  <2>. DEFINE n == page[p].n + 1
  <2>1. n \in 1..MaxWeb /\ n > page[p].n
    <3>1. page[p].n \in Nat
      BY <1>1, Bounds DEF Types, TypeOK
    <3>2. page[p].n < MaxWeb
      BY <1>1 DEF Connect
    <3>. QED
      BY <3>1, <3>2, Bounds
  <2>. QED
    <3>1. Create(p, n)
      BY <1>1 DEF Connect
    <3>. HIDE DEF n
    <3>. QED
      BY <1>0, <1>1, <2>1, <3>1, CreateComplete
<1>2. ASSUME NEW p \in Pages, Retry(p) PROVE Complete' /\ OnHasSocket'
  <2>1. page[p].n \in 0..MaxWeb /\ page[p].n # 0
    BY <1>2 DEF Retry, OnHasSocket, Types, TypeOK
  <2>2. page[p].n \in 1..MaxWeb
    BY <2>1, Bounds
  <2>. QED
    BY <1>2, <2>2, CreateComplete DEF Retry
<1>3. ASSUME NEW p \in Pages, Disconnect(p) PROVE Complete' /\ OnHasSocket'
  <2>1. \A q \in Pages : page'[q].n = page[q].n /\ (page'[q].on => page[q].on)
    BY <1>3 DEF Disconnect, Types, TypeOK
  <2>2. UNCHANGED <<screen, entry, buffer>>
    BY <1>3 DEF Disconnect, hubVars
  <2>. QED
    BY <2>1, <2>2, <1>0, FewerEntries
<1>4. ASSUME NEW p \in Pages, Write(p) PROVE Complete' /\ OnHasSocket'
  <2>1. CASE UNCHANGED <<page, entry, buffer>>
    BY <1>4, <2>1, <1>0, FewerEntries DEF Write
  <2>2. CASE Tell({p}, "error") /\ RemoveEntries({p})
    BY <1>4, <2>2, <1>0, TellTypes, RemoveTypes, FewerEntries DEF Write
  <2>. QED
    BY <1>4, <2>1, <2>2 DEF Write
<1>5. ASSUME NEW p \in Pages, HubIdle(p) PROVE Complete' /\ OnHasSocket'
  BY <1>5, <1>0, TellTypes, RemoveTypes, FewerEntries DEF HubIdle
<1>6. ASSUME NEW p \in Pages, ShellWrites(p) PROVE Complete' /\ OnHasSocket'
  <2>1. UNCHANGED <<page, screen, entry, buffer>>
    BY <1>6 DEF ShellWrites, pageVars, hubVars, cliVars, linkVars
  <2>. QED
    BY <2>1, <1>0, FewerEntries
<1>7. ASSUME NEW p \in Pages, Exit(p) PROVE Complete' /\ OnHasSocket'
  <2>1. UNCHANGED <<page, screen, entry, buffer>>
    BY <1>7 DEF Exit, pageVars, hubVars, cliVars, linkVars
  <2>. QED
    BY <2>1, <1>0, FewerEntries
<1>8. ASSUME NEW p \in Pages, CliIdle(p) PROVE Complete' /\ OnHasSocket'
  <2>1. UNCHANGED <<page, screen, entry, buffer>>
    BY <1>8 DEF CliIdle, pageVars, hubVars, cliVars, linkVars
  <2>. QED
    BY <2>1, <1>0, FewerEntries
<1>9. ASSUME NEW p \in Pages, NEW k \in 1..shells, OnExit(p, k) PROVE Complete' /\ OnHasSocket'
  <2>1. UNCHANGED <<page, screen, entry, buffer>>
    BY <1>9 DEF OnExit, pageVars, hubVars, cliVars, linkVars
  <2>. QED
    BY <2>1, <1>0, FewerEntries
<1>10. ASSUME NEW c \in Sockets, HandleCli(c) PROVE Complete' /\ OnHasSocket'
  BY <1>10, HandleCliComplete
<1>11. ASSUME NEW c \in Sockets, SeeClose(c) PROVE Complete' /\ OnHasSocket'
  BY <1>11, <1>0, TellTypes, RemoveTypes, FewerEntries DEF SeeClose, Cleanup
<1>12. CASE HandleHub
  <2>1. UNCHANGED <<page, screen, entry, buffer>>
    BY <1>12 DEF HandleHub, pageVars, hubVars, cliVars, linkVars
  <2>. QED
    BY <2>1, <1>0, FewerEntries
<1>13. CASE CliDisconnect
  <2>1. UNCHANGED <<page, screen, entry, buffer>>
    BY <1>13 DEF CliDisconnect, pageVars, hubVars, cliVars, linkVars
  <2>. QED
    BY <2>1, <1>0, FewerEntries
<1>14. CASE CliConnect
  <2>1. UNCHANGED <<page, screen, entry, buffer>>
    BY <1>14 DEF CliConnect, pageVars, hubVars, cliVars, linkVars
  <2>. QED
    BY <2>1, <1>0, FewerEntries
<1>15. CASE UNCHANGED vars
  <2>1. UNCHANGED <<page, screen, entry, buffer>>
    BY <1>15 DEF vars, pageVars, hubVars, cliVars, linkVars
  <2>. QED
    BY <2>1, <1>0, FewerEntries
<1>. QED
  BY <1>1, <1>2, <1>3, <1>4, <1>5, <1>6, <1>7, <1>8, <1>9, <1>10, <1>11, <1>12, <1>13, <1>14,
     <1>15
     DEF Next

LEMMA CompleteInit == Init => Complete /\ OnHasSocket
<1>. SUFFICES ASSUME Init PROVE Complete /\ OnHasSocket
  OBVIOUS
<1>1. \A p \in Pages : entry[p] = NoEntry /\ page[p].n = 0 /\ ~page[p].on /\ buffer[p] = {}
  BY DEF Init
<1>2. Registered = {}
  BY <1>1 DEF Registered
<1>3. IsFiniteSet(Registered) /\ Cardinality(Registered) = 0
  BY <1>2, FS_EmptySet
<1>. QED
  BY <1>1, <1>2, <1>3, Bounds DEF Complete, OnHasSocket, NoEntry
-----------------------------------------------------------------------------
(* A page that has its terminal has been given all the scrollback the hub has of *)
(* it, over whichever sockets it came and however often the links were cut; the  *)
(* registry never holds more terminals than the limit, and no scrollback stays   *)
(* behind an entry: the registry, the buffer and terminal:create agree.          *)
THEOREM ScreensAreComplete == Spec => []ScreenIsComplete
<1>1. Init => TerminalInv
  BY TypesInit, CompleteInit DEF TerminalInv
<1>2. TerminalInv /\ [Next]_vars => TerminalInv'
  BY TypesNext, CompleteNext DEF TerminalInv
<1>3. TerminalInv => ScreenIsComplete
  BY DEF TerminalInv, Types, Complete, ScreenIsComplete
<1>. QED
  BY <1>1, <1>2, <1>3, PTL DEF Spec
=============================================================================
