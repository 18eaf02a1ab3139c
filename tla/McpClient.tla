----------------------------- MODULE McpClient -----------------------------
(***************************************************************************)
(* A request to the MCP gateway (api/routes/mcp/mcp.py): a tool call, or   *)
(* the discovery of the tools of every server, which visits them one after *)
(* the other.  Each visit runs a server process of its own and speaks      *)
(* newline-delimited JSON-RPC with it (mcp/registry.py, mcp/protocol.py);  *)
(* a reader task resolves the one request that waits.                      *)
(***************************************************************************)
EXTENDS Naturals

CONSTANT NServers   \* servers a discovery visits

ASSUME McpAssumption == NServers \in Nat \ {0}

VARIABLES
  mcp,      \* the request: kind, step, stage of the session, servers left, size
  server,   \* its process: "none", "up", "deaf", "exited", "terminated", "killed"
  reader,   \* the reader task: "none", "reading", "ended", "cancelled"
  waiting,  \* the future of the request that waits: "none", "pending", "result", "error"
  line      \* what the reader finds in the server's output, "none" before it

mcpVars == <<mcp, server, reader, waiting, line>>

ServerRuns == server \in {"up", "deaf", "terminated"}
McpAnswered == mcp.pc = "answered"

McpAt(pc) == mcp.pc = pc
McpGo(pc) == mcp' = [mcp EXCEPT !.pc = pc]
EndVisit(as) == mcp' = [mcp EXCEPT !.pc = "close", !.result = as]

\* ---- the request -------------------------------------------------------
\* A tool that is not allowed is refused before its server is started.
BeginCall(large) ==
  /\ McpAt("idle")
  /\ \/ mcp' = [mcp EXCEPT !.kind = "call", !.pc = "start", !.left = 1, !.large = large]
     \/ mcp' = [mcp EXCEPT !.kind = "call", !.pc = "answered", !.result = "refused"]
  /\ UNCHANGED <<server, reader, waiting, line>>

BeginDiscovery ==
  /\ McpAt("idle")
  /\ mcp' = [mcp EXCEPT !.kind = "discover", !.pc = "start", !.left = NServers]
  /\ UNCHANGED <<server, reader, waiting, line>>

\* start: an executable that is missing is an McpError, another failure is not.
StartServer ==
  /\ McpAt("start")
  /\ \/ /\ server' = "up" /\ reader' = "reading"
        /\ mcp' = [mcp EXCEPT !.pc = "write", !.stage = 1, !.result = "none"]
     \/ \E as \in {"failed", "crashed"} : EndVisit(as) /\ UNCHANGED <<server, reader>>
  /\ UNCHANGED <<waiting, line>>

\* _request: the future is entered, the line is written, and drain waits, with
\* no limit, for a server that does not read while the buffers are full.
WriteRequest ==
  /\ McpAt("write")
  /\ waiting' = "pending" /\ McpGo("drain")
  /\ UNCHANGED <<server, reader, line>>

RequestFits == ~mcp.large \/ mcp.stage < 3
DrainRequest ==
  /\ McpAt("drain")
  /\ \/ (RequestFits \/ server = "up") /\ McpGo("await")
     \/ server = "exited" /\ EndVisit("crashed")
  /\ UNCHANGED <<server, reader, waiting, line>>

\* The answer to initialize is acknowledged, the tools are looked through for
\* the schema; arguments that lack a required key are refused.  An answer of
\* another shape, or a pipe that broke meanwhile, is no McpError.
TakeAnswer ==
  /\ McpAt("await") /\ waiting \in {"result", "error"}
  /\ \/ waiting = "error" /\ EndVisit("failed")
     \/ /\ waiting = "result" /\ mcp.stage < (IF mcp.kind = "call" THEN 3 ELSE 2)
        /\ \/ mcp' = [mcp EXCEPT !.pc = "write", !.stage = @ + 1]
           \/ EndVisit("crashed")
           \/ mcp.stage = 2 /\ EndVisit("refused")
     \/ waiting = "result" /\ mcp.stage = (IF mcp.kind = "call" THEN 3 ELSE 2) /\ EndVisit("ok")
  /\ waiting' = "none" /\ UNCHANGED <<server, reader, line>>

\* Mutant of RequestTimesOut: the future is awaited without a limit.
WaitForever == FALSE

RequestTimesOut ==
  /\ McpAt("await") /\ waiting = "pending"
  /\ EndVisit("failed") /\ waiting' = "none"
  /\ UNCHANGED <<server, reader, line>>

\* close: SIGTERM, five seconds, SIGKILL; the reader is cancelled.
TerminateServer ==
  /\ McpAt("close")
  /\ server' = IF server \in {"up", "deaf"} THEN "terminated" ELSE server
  /\ McpGo("closing") /\ UNCHANGED <<reader, waiting, line>>

VisitClosed ==
  /\ McpAt("closing")
  /\ server' = IF server = "terminated" THEN "killed" ELSE server
  /\ reader' = IF reader = "reading" THEN "cancelled" ELSE reader
  /\ line' = "none" /\ waiting' = "none"
  /\ McpGo("closed")

\* A discovery notes an McpError at the server and goes on.  What came back is
\* put into an entry, or stored and recorded, after the server is closed: that
\* may fail as well.
FinishVisit ==
  /\ McpAt("closed")
  /\ \/ /\ mcp.kind = "discover" /\ mcp.result # "crashed" /\ mcp.left > 1
        /\ mcp' = [mcp EXCEPT !.pc = "start", !.left = @ - 1]
        /\ server' = "none" /\ reader' = "none"
     \/ /\ mcp.kind = "call" \/ mcp.result = "crashed" \/ mcp.left = 1
        /\ McpGo("answered") /\ UNCHANGED <<server, reader>>
     \/ /\ mcp.result = "ok"
        /\ mcp' = [mcp EXCEPT !.pc = "answered", !.result = "crashed"]
        /\ UNCHANGED <<server, reader>>
  /\ UNCHANGED <<waiting, line>>

\* ---- the reader --------------------------------------------------------
\* Output that is no answer (not JSON, or the id of no request) is passed over;
\* an odd line (JSON that is no object, or longer than the reader takes) ends
\* the reader and fails what waits; the end of the output ends the reader only.
ReadLine ==
  /\ reader = "reading" /\ line # "none"
  /\ line' = "none"
  /\ \/ /\ line \in {"result", "error"} /\ UNCHANGED reader
        /\ waiting' = IF waiting = "pending" THEN line ELSE waiting
     \/ line = "junk" /\ UNCHANGED <<reader, waiting>>
     \/ line = "odd" /\ reader' = "ended" /\ waiting' = IF waiting = "pending" THEN "error" ELSE waiting
     \/ line = "eof" /\ reader' = "ended" /\ UNCHANGED waiting
  /\ UNCHANGED <<mcp, server>>

\* ---- the server process ------------------------------------------------
\* It answers what it has read, says something else, stops reading and
\* writing, for good (its standard error is a pipe nobody reads), or exits.
ServerSays(what) ==
  /\ server = "up" /\ line = "none" /\ reader = "reading"
  /\ what \in {"result", "error"} => McpAt("await") /\ waiting = "pending"
  /\ line' = what /\ UNCHANGED <<mcp, server, reader, waiting>>

ServerStalls == server = "up" /\ server' = "deaf" /\ UNCHANGED <<mcp, reader, waiting, line>>

ServerExits ==
  /\ ServerRuns /\ server' = "exited"
  /\ line' = IF reader = "reading" /\ line = "none" THEN "eof" ELSE line
  /\ UNCHANGED <<mcp, reader, waiting>>

EndOfOutput ==
  /\ server = "exited" /\ reader = "reading" /\ line = "none"
  /\ line' = "eof" /\ UNCHANGED <<mcp, server, reader, waiting>>

----------------------------------------------------------------------------
McpInit ==
  /\ mcp = [kind |-> "none", pc |-> "idle", stage |-> 0, left |-> 0, large |-> FALSE, result |-> "none"]
  /\ server = "none" /\ reader = "none" /\ waiting = "none" /\ line = "none"

McpClientStep == StartServer \/ WriteRequest \/ DrainRequest \/ TakeAnswer \/ RequestTimesOut \/ TerminateServer \/ VisitClosed \/ FinishVisit
McpServerStep == (\E what \in {"result", "error", "junk", "odd"} : ServerSays(what)) \/ ServerStalls \/ ServerExits \/ EndOfOutput
McpNext == (\E large \in BOOLEAN : BeginCall(large)) \/ BeginDiscovery \/ McpClientStep \/ ReadLine \/ McpServerStep

\* The event loop and its timers go on; nothing is asked of the server.
McpFairness == WF_mcpVars(McpClientStep) /\ WF_mcpVars(ReadLine)

\* A request, unless its arguments fill the pipe of a server that does not read
\* (McpStdioClient._request waits in drain outside its timeout), is answered,
\* whatever the server says, and leaves no server running.
ToolCallsEnd == ~mcp.large /\ ~McpAt("idle") ~> McpAnswered /\ ~ServerRuns
=============================================================================
