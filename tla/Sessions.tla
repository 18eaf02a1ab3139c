------------------------------ MODULE Sessions -----------------------------
(***************************************************************************)
(* The two pools of interactive sessions the API process keeps in memory:  *)
(* terminals (terminal/manager.py, terminal/backends.py, their socket in   *)
(* api/routes/workspace/terminal.py) and browser sessions                  *)
(* (browser/manager.py, browser/session.py).  Each checks its limit before *)
(* it does the slow part of opening a session and enters it afterwards;    *)
(* terminals are opened by threads, browsers across awaits.                *)
(***************************************************************************)
EXTENDS Naturals, FiniteSets, FiniteSetsExt

CONSTANTS
  Terminals,     \* terminal sessions ever asked for
  MAX_SESSIONS,  \* the limit of the terminal manager
  Openers,       \* requests for a browser session
  MaxPages       \* the limit of the browser manager

ASSUME SessionsAssumption == MAX_SESSIONS \in Nat \ {0} /\ MaxPages \in Nat \ {0}

VARIABLES
  terminal,    \* state of each terminal: "none", "spawn", "listed", "closed"
  descriptor,  \* its master descriptor, 0 before it has one
  holder,      \* the terminal each descriptor of the process now belongs to
  socket,      \* its websocket: "none", "attached", "blocked" in a write, "left"
  target,      \* the terminal the shell of which the write of a socket is for
  gone,        \* terminals the client of which has disconnected
  deaf,        \* terminals the shell of which does not read, with its input full
  crossed,     \* terminals some input of which another terminal's shell got
  spawning,    \* the most terminals that were ever being opened at a time
  opening,     \* progress of each browser request
  chromium,    \* the request whose launch the manager's browser is, or NoBrowser
  stray,       \* browsers and contexts nobody will close
  crowd        \* the most browser requests that were ever being opened at a time

terminalVars == <<terminal, descriptor, holder, socket, target, gone, deaf, crossed, spawning>>
browserVars == <<opening, chromium, stray, crowd>>
sessionVars == <<terminalVars, browserVars>>

Descriptors == 1..Cardinality(Terminals)
NoTerminal == "no terminal"
NoBrowser == "no browser"

\* ---- terminals ---------------------------------------------------------
Listed == {t \in Terminals : terminal[t] = "listed"}

\* create: the limit, then the fork, then the entry
Ask(t) ==
  /\ terminal[t] = "none" /\ Cardinality(Listed) < MAX_SESSIONS
  /\ terminal' = [terminal EXCEPT ![t] = "spawn"]
  /\ spawning' = Max({spawning, Cardinality({u \in Terminals : terminal'[u] = "spawn"})})
  /\ UNCHANGED <<descriptor, holder, socket, target, gone, deaf, crossed, browserVars>>

\* openpty takes the lowest descriptor that is free.
Spawn(t) ==
  LET fd == Min({d \in Descriptors : holder[d] = NoTerminal}) IN
  /\ terminal[t] = "spawn"
  /\ terminal' = [terminal EXCEPT ![t] = "listed"]
  /\ descriptor' = [descriptor EXCEPT ![t] = fd] /\ holder' = [holder EXCEPT ![fd] = t]
  /\ UNCHANGED <<socket, target, gone, deaf, crossed, spawning, browserVars>>

Attach(t) ==
  /\ terminal[t] = "listed" /\ socket[t] = "none"
  /\ socket' = [socket EXCEPT ![t] = "attached"]
  /\ UNCHANGED <<terminal, descriptor, holder, target, gone, deaf, crossed, spawning, browserVars>>

\* manager.close: out of the table, the shell ended, the descriptor closed
CloseTerminal(t) ==
  IF terminal[t] = "listed"
  THEN terminal' = [terminal EXCEPT ![t] = "closed"] /\ holder' = [holder EXCEPT ![descriptor[t]] = NoTerminal]
  ELSE UNCHANGED <<terminal, holder>>

\* The DELETE route leaves the socket as it is.
DeleteTerminal(t) ==
  /\ terminal[t] = "listed" /\ CloseTerminal(t)
  /\ UNCHANGED <<descriptor, socket, target, gone, deaf, crossed, spawning, browserVars>>

\* What runs in the shell stops to read while its input is full, or reads on.
ShellReads(t) ==
  /\ \/ terminal[t] = "listed" /\ t \notin deaf /\ deaf' = deaf \union {t}
     \/ t \in deaf /\ deaf' = deaf \ {t}
  /\ UNCHANGED <<terminal, descriptor, holder, socket, target, gone, crossed, spawning, browserVars>>

\* The client closes; the handler learns of it from its reader or its writer.
Disconnect(t) ==
  /\ socket[t] \in {"attached", "blocked"} /\ t \notin gone
  /\ gone' = gone \union {t}
  /\ UNCHANGED <<terminal, descriptor, holder, socket, target, deaf, crossed, spawning, browserVars>>

ReaderEnds(t) ==
  /\ socket[t] = "attached" /\ t \in gone
  /\ socket' = [socket EXCEPT ![t] = "left"]
  /\ UNCHANGED <<terminal, descriptor, holder, target, gone, deaf, crossed, spawning, browserVars>>

\* The shell says something, and it cannot be sent.
WriterEnds(t) ==
  /\ socket[t] \in {"attached", "blocked"} /\ t \in gone
  /\ socket' = [socket EXCEPT ![t] = "left"]
  /\ UNCHANGED <<terminal, descriptor, holder, target, gone, deaf, crossed, spawning, browserVars>>

\* _read_client writes to the number it knows; a number nobody holds is an error,
\* which ends the socket.  The reader waits for the write, and a write waits for a
\* shell that does not read.  Bound: a client that leaves has sent no more than what
\* is being written.
Type(t) ==
  /\ socket[t] = "attached" /\ t \notin gone
  /\ LET at == holder[descriptor[t]] IN
     /\ crossed' = IF at \notin {t, NoTerminal} THEN crossed \union {t} ELSE crossed
     /\ socket' = [socket EXCEPT ![t] = IF at = NoTerminal THEN "left" ELSE IF at \in deaf THEN "blocked" ELSE @]
     /\ target' = IF at \in deaf THEN [target EXCEPT ![t] = at] ELSE target
  /\ UNCHANGED <<terminal, descriptor, holder, gone, deaf, spawning, browserVars>>

\* The shell has read.
WriteReturns(t) ==
  /\ socket[t] = "blocked" /\ target[t] \notin deaf
  /\ socket' = [socket EXCEPT ![t] = "attached"] /\ target' = [target EXCEPT ![t] = NoTerminal]
  /\ UNCHANGED <<terminal, descriptor, holder, gone, deaf, crossed, spawning, browserVars>>

\* The shell is ended with its terminal; one that ignores the signal keeps the write.
WriteFails(t) ==
  /\ socket[t] = "blocked" /\ terminal[target[t]] = "closed"
  /\ socket' = [socket EXCEPT ![t] = "left"]
  /\ UNCHANGED <<terminal, descriptor, holder, target, gone, deaf, crossed, spawning, browserVars>>

\* Mutant of SocketEnded: the handler waits for the writer as well.
BothEnded(t) == socket[t] = "left" /\ terminal[t] = "closed"

\* The reader's end wakes the handler, or the writer's, which waits for output that
\* may never come.
SocketEnded(t) == socket[t] = "left"

EndSocket(t) ==
  /\ SocketEnded(t) /\ CloseTerminal(t)
  /\ socket' = [socket EXCEPT ![t] = "none"]
  /\ UNCHANGED <<descriptor, target, gone, deaf, crossed, spawning, browserVars>>

\* ---- browser sessions --------------------------------------------------
Pages == {o \in Openers : opening[o] = "listed"}
Opened == {"ensure", "launch", "context", "goto"}
Go(o, pc) ==
  /\ opening' = [opening EXCEPT ![o] = pc]
  /\ crowd' = Max({crowd, Cardinality({p \in Openers : opening'[p] \in Opened})})

OpenPage(o) ==
  /\ opening[o] = "idle" /\ Cardinality(Pages) < MaxPages
  /\ Go(o, "ensure")
  /\ UNCHANGED <<chromium, stray, terminalVars>>

EnsureBrowser(o) ==
  /\ opening[o] = "ensure"
  /\ Go(o, IF chromium = NoBrowser THEN "launch" ELSE "context")
  /\ UNCHANGED <<chromium, stray, terminalVars>>

\* A launch puts its browser, or none when it fails, in the place of another's.
Launch(o) ==
  /\ opening[o] = "launch"
  /\ \/ chromium' = o /\ Go(o, "context")
     \/ chromium' = NoBrowser /\ Go(o, "failed")
  /\ stray' = IF chromium = NoBrowser THEN stray ELSE stray \union {<<"browser", chromium>>}
  /\ UNCHANGED terminalVars

\* The context is made, then the first address is loaded; a load that fails
\* leaves the context.
NewContext(o) ==
  /\ opening[o] = "context" /\ Go(o, "goto")
  /\ UNCHANGED <<chromium, stray, terminalVars>>

LoadFirst(o) ==
  /\ opening[o] = "goto"
  /\ \/ Go(o, "listed") /\ UNCHANGED stray
     \/ Go(o, "failed") /\ stray' = stray \union {<<"context", o>>}
  /\ UNCHANGED <<chromium, terminalVars>>

ClosePage(o) ==
  /\ opening[o] = "listed" /\ Go(o, "closed")
  /\ UNCHANGED <<chromium, stray, terminalVars>>

----------------------------------------------------------------------------
SessionsInit ==
  /\ terminal = [t \in Terminals |-> "none"] /\ descriptor = [t \in Terminals |-> 0]
  /\ holder = [d \in Descriptors |-> NoTerminal] /\ socket = [t \in Terminals |-> "none"]
  /\ target = [t \in Terminals |-> NoTerminal] /\ gone = {} /\ deaf = {}
  /\ crossed = {} /\ spawning = 0 /\ crowd = 0
  /\ opening = [o \in Openers |-> "idle"] /\ chromium = NoBrowser /\ stray = {}

TerminalNext == \E t \in Terminals :
  Ask(t) \/ Spawn(t) \/ Attach(t) \/ DeleteTerminal(t) \/ ShellReads(t) \/ Disconnect(t)
  \/ ReaderEnds(t) \/ WriterEnds(t) \/ Type(t) \/ WriteReturns(t) \/ WriteFails(t) \/ EndSocket(t)
BrowserNext == \E o \in Openers :
  OpenPage(o) \/ EnsureBrowser(o) \/ Launch(o) \/ NewContext(o) \/ LoadFirst(o) \/ ClosePage(o)

\* The event loop runs the reader and its handler, and a shell that goes on reading
\* takes the write in.
SessionsFairness == \A t \in Terminals :
  WF_sessionVars(EndSocket(t)) /\ WF_sessionVars(ReaderEnds(t)) /\ WF_sessionVars(WriteReturns(t))

\* Requests that come one at a time never exceed a limit; n at a time exceed it
\* by n - 1 at most (the limit itself is not kept: check and entry are apart).
LimitUpToRaces ==
  /\ Cardinality(Listed) <= MAX_SESSIONS + spawning - 1 \/ spawning = 0
  /\ Cardinality(Pages) <= MaxPages + crowd - 1 \/ crowd = 0

\* The place of a terminal the client of which is gone comes back, whether or
\* not the shell has anything more to say, unless its reader is again and again in a
\* write to a shell that does not read; and the pools stay within the limits up to
\* such races.
PlacesComeBack ==
  /\ \A t \in Terminals :
       \/ t \in gone ~> terminal[t] = "closed"
       \/ []<>(socket[t] = "blocked" /\ target[t] \in deaf)
  /\ []LimitUpToRaces

\* The place of a terminal comes back when its client is gone.  The code does not
\* keep this: the disconnect is not seen behind a write that waits.
GoneIsClosed == \A t \in Terminals : t \in gone ~> terminal[t] = "closed"

\* What is typed into a terminal reaches its own shell or none.  The code does
\* not keep this: a closed terminal's socket goes on writing to a descriptor
\* number that the next terminal is given.
InputGoesHome == crossed = {}
=============================================================================
