---------------------------- MODULE WebTerminals ----------------------------
(* The terminals that pages of the web open in one session: the page's socket  *)
(* (useTerminalSocket.ts), the hub's registry, handlers and scrollback         *)
(* (terminalRegistry.ts, handlers/terminal.ts, handlers/cli/terminalHandlers.ts,*)
(* userTerminalBuffer.ts) and the shells of the process (TerminalManager.ts).  *)
(*                                                                             *)
(* A page names its terminal once and keeps the name over reconnects; its link *)
(* to the hub is either up or cut. The link of the process has messages under  *)
(* way, and is cut for the process and for the hub at different times: in      *)
(* between the hub holds two sockets of one process. An idle timer may run out *)
(* at any time. What a shell writes is a chunk; the scrollback keeps them all. *)
EXTENDS Naturals, Sequences, FiniteSets, FiniteSetsExt

CONSTANTS
  Pages,          \* one terminal each
  MaxTerminals,   \* per session, at the hub and in the process
  MaxWeb,         \* bound: sockets of one page
  MaxCli,         \* bound: sockets of the process
  MaxShells,      \* bound: shells that are started
  MaxChunks,      \* bound: chunks that are written
  MaxWire         \* bound: messages on the way in one direction

ASSUME BoundsAssumption ==
  {MaxTerminals, MaxWeb, MaxCli, MaxShells, MaxChunks, MaxWire} \subseteq Nat \ {0}

VARIABLES
  page,    \* what the page shows (st), its socket (n) and whether that is connected (on)
  screen,  \* the chunks a page was given
  entry,   \* TerminalRegistry.terminals: the sockets of the page and of the process
  buffer,  \* the scrollback of a terminal
  room,    \* sockets of the process the hub holds
  cli,     \* the socket of the process: its number, and whether it is connected
  down,    \* messages to the process
  up,      \* messages of each socket of the process to the hub
  kept,    \* what the process emitted while it was not connected
  shell,   \* TerminalManager.terminals
  ended,   \* shells that exited or were killed and whose onExit has not run
  shells,  \* how many shells were started
  chunks   \* how many chunks were written

pageVars == <<page, screen>>
hubVars  == <<entry, buffer, room>>
linkVars == <<down, up, kept>>
cliVars  == <<cli, shell, ended, shells, chunks>>
vars     == <<pageVars, hubVars, linkVars, cliVars>>

Sockets    == 1..MaxCli
NoEntry    == [web |-> 0, cli |-> 0]
NoShell    == 0
Registered == {p \in Pages : entry[p] # NoEntry}
Running    == {p \in Pages : shell[p] # NoShell}

Msg(t, p)    == [t |-> t, p |-> p, c |-> 0]
Output(p, c) == [t |-> "output", p |-> p, c |-> c]

-----------------------------------------------------------------------------
(* The hub *)

(* an emission to the socket of an entry reaches the page while it has that socket *)
Reaches(p) == page[p].on /\ page[p].n = entry[p].web
Tell(ps, st) == page' = [p \in Pages |-> IF p \in ps /\ Reaches(p) THEN [page[p] EXCEPT !.st = st]
                                                                 ELSE page[p]]

(* remove, and onRemove with it *)
RemoveEntries(ps) ==
  /\ entry'  = [p \in Pages |-> IF p \in ps THEN NoEntry ELSE entry[p]]
  /\ buffer' = [p \in Pages |-> IF p \in ps THEN {} ELSE buffer[p]]

(* to the process over socket c: lost when c is not its socket any more *)
Lives(c)    == cli.on /\ cli.n = c
ToCli(c, m) == IF Lives(c) THEN Len(down) < MaxWire /\ down' = Append(down, m) ELSE UNCHANGED down

(* shouldReplayBuffer: not for the socket the entry already has *)
ShouldReplay(p, n) == entry[p].web # n

(* mutant: only a terminal that is not registered yet is replayed *)
MutReplayed(p, n) == IF entry[p] = NoEntry THEN buffer[p] ELSE {}
Replayed(p, n)    == IF ShouldReplay(p, n) THEN buffer[p] ELSE {}

(* terminal:create, on socket n of the page: refused at the limit or without a  *)
(* process, otherwise registered, opened and given what was written before      *)
Create(p, n) ==
  LET refused == \/ entry[p] = NoEntry /\ Cardinality(Registered) >= MaxTerminals
                 \/ room = {}
      answered(st) == page' = [page EXCEPT ![p] = [st |-> st, on |-> TRUE, n |-> n]]
  IN \/ /\ refused /\ answered("error")
        /\ UNCHANGED <<screen, entry, buffer, down>>
     \/ /\ ~refused /\ answered("connecting")
        /\ entry'  = [entry EXCEPT ![p] = IF @.web = n THEN @ ELSE [web |-> n, cli |-> Min(room)]]
        /\ screen' = [screen EXCEPT ![p] = @ \cup Replayed(p, n)]
        /\ ToCli(Min(room), Msg("open", p)) /\ UNCHANGED buffer

(* terminal:write *)
Write(p) ==
  /\ page[p].st = "connected" /\ page[p].on
  /\ IF entry[p].web # page[p].n THEN UNCHANGED <<page, entry, buffer, down>>
     ELSE IF entry[p].cli \in room
          THEN ToCli(entry[p].cli, Msg("write", p)) /\ UNCHANGED <<page, entry, buffer>>
          ELSE Tell({p}, "error") /\ RemoveEntries({p}) /\ UNCHANGED down
  /\ UNCHANGED <<screen, room, up, kept, cliVars>>

(* the idle timer of an entry *)
HubIdle(p) ==
  /\ p \in Registered /\ Tell({p}, "error") /\ RemoveEntries({p})
  /\ IF entry[p].cli \in room THEN ToCli(entry[p].cli, Msg("close", p)) ELSE UNCHANGED down
  /\ UNCHANGED <<screen, room, up, kept, cliVars>>

(* mutant: the end of a shell is handed on like its start, to a page that is there *)
MutHeeds(m, c) == entry[m.p].cli = c /\ (m.t \in {"exit", "error"} => Reaches(m.p))

(* resolveOwnedEntry: what socket c says of a terminal counts when the entry is bound to c *)
Heeds(m, c) == entry[m.p].cli = c

(* terminal:ready, terminal:output, terminal:exit and terminal:error of socket c *)
HandleCli(c) ==
  /\ c \in room /\ up[c] # <<>> /\ up' = [up EXCEPT ![c] = Tail(@)]
  /\ LET m == Head(up[c]) IN
     \/ /\ ~Heeds(m, c) /\ UNCHANGED <<page, screen, entry, buffer>>
     \/ /\ Heeds(m, c) /\ m.t = "ready" /\ Tell({m.p}, "connected")
        /\ UNCHANGED <<screen, entry, buffer>>
     \/ /\ Heeds(m, c) /\ m.t = "output"
        /\ buffer' = [buffer EXCEPT ![m.p] = @ \cup {m.c}]
        /\ screen' = IF Reaches(m.p) THEN [screen EXCEPT ![m.p] = @ \cup {m.c}] ELSE screen
        /\ UNCHANGED <<page, entry>>
     \/ /\ Heeds(m, c) /\ m.t \in {"exit", "error"} /\ Tell({m.p}, "error") /\ RemoveEntries({m.p})
        /\ UNCHANGED screen
  /\ UNCHANGED <<room, down, kept, cliVars>>

BoundTo(c) == {p \in Registered : entry[p].cli = c}

(* mutant: the entries of a socket that is closed are removed, and no page is told *)
MutCleanup(c) == RemoveEntries(BoundTo(c)) /\ UNCHANGED page

(* cleanupTerminalHandlers *)
Cleanup(c) == Tell(BoundTo(c), "error") /\ RemoveEntries(BoundTo(c))

(* the hub sees that a socket of the process is closed, after what was sent on it *)
SeeClose(c) ==
  /\ c \in room /\ ~Lives(c) /\ up[c] = <<>>
  /\ room' = room \ {c} /\ Cleanup(c)
  /\ UNCHANGED <<screen, linkVars, cliVars>>

-----------------------------------------------------------------------------
(* The page *)

(* the socket connects, for the first time or again, and asks for the terminal *)
Connect(p) ==
  /\ ~page[p].on /\ page[p].n < MaxWeb /\ Create(p, page[p].n + 1)
  /\ UNCHANGED <<room, up, kept, cliVars>>

(* the user asks again *)
Retry(p) ==
  /\ page[p].on /\ page[p].st = "error" /\ Create(p, page[p].n)
  /\ UNCHANGED <<room, up, kept, cliVars>>

(* detachBySocket keeps the entry *)
Disconnect(p) ==
  /\ page[p].on /\ page' = [page EXCEPT ![p].on = FALSE, ![p].st = "error"]
  /\ UNCHANGED <<screen, hubVars, linkVars, cliVars>>

-----------------------------------------------------------------------------
(* The process *)

Emit(ms) ==
  IF cli.on THEN /\ Len(up[cli.n]) + Len(ms) <= MaxWire /\ up' = [up EXCEPT ![cli.n] = @ \o ms]
                 /\ UNCHANGED kept
            ELSE kept' = kept \o ms /\ UNCHANGED up

Exited(p) == <<p, shell[p]>> \in ended

(* the shells of ps leave the map; those that run are killed *)
CleanupShells(ps) ==
  /\ shell' = [p \in Pages |-> IF p \in ps THEN NoShell ELSE shell[p]]
  /\ ended' = ended \cup {<<p, shell[p]>> : p \in ps \cap Running}

(* TerminalManager.create; the start of a shell may fail *)
OpenShell(p) ==
  \/ /\ p \in Running /\ Emit(<<Msg("ready", p)>>) /\ UNCHANGED <<shell, ended, shells>>
  \/ /\ p \notin Running /\ Emit(<<Msg("error", p)>>) /\ UNCHANGED <<shell, ended, shells>>
  \/ /\ p \notin Running /\ Cardinality(Running) < MaxTerminals /\ shells < MaxShells
     /\ shells' = shells + 1 /\ shell' = [shell EXCEPT ![p] = shells'] /\ UNCHANGED ended
     /\ Emit(<<Msg("ready", p)>>)

(* write and close *)
WriteShell(p) == /\ IF p \in Running THEN UNCHANGED <<up, kept>> ELSE Emit(<<Msg("error", p)>>)
                 /\ UNCHANGED <<shell, ended, shells>>
CloseShell(p) == CleanupShells({p}) /\ UNCHANGED <<up, kept, shells>>

HandleHub ==
  /\ cli.on /\ down # <<>> /\ down' = Tail(down)
  /\ LET m == Head(down) IN
     \/ m.t = "open"  /\ OpenShell(m.p)
     \/ m.t = "write" /\ WriteShell(m.p)
     \/ m.t = "close" /\ CloseShell(m.p)
  /\ UNCHANGED <<pageVars, hubVars, cli, chunks>>

(* a shell writes *)
ShellWrites(p) ==
  /\ p \in Running /\ ~Exited(p) /\ chunks < MaxChunks /\ chunks' = chunks + 1
  /\ Emit(<<Output(p, chunks')>>)
  /\ UNCHANGED <<pageVars, hubVars, down, cli, shell, ended, shells>>

(* a shell exits by itself *)
Exit(p) ==
  /\ p \in Running /\ ~Exited(p) /\ ended' = ended \cup {<<p, shell[p]>>}
  /\ UNCHANGED <<pageVars, hubVars, linkVars, cli, shell, shells, chunks>>

(* onExit: told by the name of the terminal, and cleaned up by it, whatever     *)
(* shell has that name by now                                                   *)
OnExit(p, k) ==
  /\ <<p, k>> \in ended /\ Emit(<<Msg("exit", p)>>)
  /\ shell' = [shell EXCEPT ![p] = NoShell]
  /\ ended' = (ended \cup (IF p \in Running THEN {<<p, shell[p]>>} ELSE {})) \ {<<p, k>>}
  /\ UNCHANGED <<pageVars, hubVars, down, cli, shells, chunks>>

(* the idle timer of a shell *)
CliIdle(p) ==
  /\ p \in Running /\ Emit(<<Msg("error", p)>>) /\ CleanupShells({p})
  /\ UNCHANGED <<pageVars, hubVars, down, cli, shells, chunks>>

(* the connection of the process is lost, closeAll, and some of what it sent with it *)
CliDisconnect ==
  /\ cli.on /\ cli' = [cli EXCEPT !.on = FALSE] /\ CleanupShells(Pages)
  /\ down' = <<>>
  /\ \E i \in 0..Len(up[cli.n]) : up' = [up EXCEPT ![cli.n] = SubSeq(@, 1, i)]
  /\ UNCHANGED <<pageVars, hubVars, kept, shells, chunks>>

(* it connects again: a new socket, on which what was kept goes out *)
CliConnect ==
  /\ ~cli.on /\ cli.n < MaxCli /\ cli' = [n |-> cli.n + 1, on |-> TRUE]
  /\ room' = room \cup {cli'.n} /\ up' = [up EXCEPT ![cli'.n] = kept] /\ kept' = <<>>
  /\ UNCHANGED <<pageVars, entry, buffer, down, shell, ended, shells, chunks>>

-----------------------------------------------------------------------------
(* a process that is connected, pages that are not opened yet *)
Init ==
  /\ page = [p \in Pages |-> [st |-> "idle", on |-> FALSE, n |-> 0]]
  /\ screen = [p \in Pages |-> {}] /\ buffer = [p \in Pages |-> {}]
  /\ entry = [p \in Pages |-> NoEntry] /\ room = {1}
  /\ cli = [n |-> 1, on |-> TRUE] /\ down = <<>> /\ up = [c \in Sockets |-> <<>>] /\ kept = <<>>
  /\ shell = [p \in Pages |-> NoShell] /\ ended = {} /\ shells = 0 /\ chunks = 0

Next == \/ \E p \in Pages : \/ Connect(p) \/ Retry(p) \/ Disconnect(p) \/ Write(p) \/ HubIdle(p)
                            \/ ShellWrites(p) \/ Exit(p) \/ CliIdle(p) \/ \E k \in 1..shells : OnExit(p, k)
        \/ \E c \in Sockets : HandleCli(c) \/ SeeClose(c)
        \/ HandleHub \/ CliDisconnect \/ CliConnect

Spec == Init /\ [][Next]_vars

(* Messages arrive, a closed socket is noticed, the end of a shell is reported; *)
(* of the idle timers only that of a shell without an entry, which nobody uses. *)
(* SF where the bound on messages under way may refuse a step now and then.     *)
Fairness ==
  /\ SF_vars(HandleHub)
  /\ \A c \in Sockets : WF_vars(HandleCli(c)) /\ WF_vars(SeeClose(c))
  /\ \A p \in Pages : /\ SF_vars(CliIdle(p) /\ p \notin Registered)
                      /\ SF_vars(\E k \in 1..shells : OnExit(p, k))

FairSpec == Spec /\ Fairness
-----------------------------------------------------------------------------
(* The types of the variables. *)
TypeOK ==
  /\ page \in [Pages -> [st : {"idle", "connecting", "connected", "error"}, on : BOOLEAN, n : 0..MaxWeb]]
  /\ entry \in [Pages -> [web : 0..MaxWeb, cli : 0..MaxCli]] /\ room \subseteq Sockets
  /\ screen \in [Pages -> SUBSET (1..MaxChunks)] /\ buffer \in [Pages -> SUBSET (1..MaxChunks)]
  /\ cli \in [n : Sockets, on : BOOLEAN] /\ DOMAIN up = Sockets
  /\ shell \in [Pages -> 0..MaxShells] /\ ended \subseteq Pages \X (1..MaxShells)
  /\ shells \in 0..MaxShells /\ chunks \in 0..MaxChunks

(* A page that has its terminal has been given all the hub has of it, also what   *)
(* was written while the page was away; scrollback is kept for a terminal only as *)
(* long as that is registered, and the session never has more than its limit.     *)
ScreenIsComplete ==
  /\ TypeOK /\ Cardinality(Registered) <= MaxTerminals
  /\ \A p \in Pages : /\ p \in Registered /\ Reaches(p) => buffer[p] \subseteq screen[p]
                      /\ p \notin Registered => buffer[p] = {}

(* A page that waits for its terminal is answered, and one that believes it has a *)
(* terminal is told when its shell is gone, whichever link is cut meanwhile.      *)
PageIsTold ==
  \A p \in Pages :
    /\ (page[p].st = "connecting") ~> (page[p].st # "connecting")
    /\ (page[p].st = "connected" /\ p \notin Running) ~> (page[p].st # "connected" \/ p \in Running)

(* The registry and the shells of the process come to agree: an entry without a shell *)
(* does not stay (it counts for the limit), nor a shell without an entry.         *)
EntriesAreShells ==
  \A p \in Pages :
    /\ (p \in Registered /\ p \notin Running) ~> (p \notin Registered \/ p \in Running)
    /\ (p \notin Registered /\ p \in Running) ~> (p \in Registered \/ p \notin Running)
=============================================================================
