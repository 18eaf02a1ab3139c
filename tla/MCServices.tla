----------------------------- MODULE MCServices -----------------------------
(***************************************************************************)
(* The services beside the run, one at a time: `system` says which of them *)
(* moves in a behaviour, the others stay as they are.                      *)
(***************************************************************************)
EXTENDS Ports, MessageOutbox, Review, Oversight, ProcessRunner, Sessions, AgentExecution, McpClient,
        Evaluation, Workspace, Planning, ContextBroker, RateLimit, AgentSessions, Downloads,
        CompletionGate, TLC

CONSTANTS Systems, c1, c2, k1, w1, r1, r2, ka, kb

VARIABLE system

\* One call with a key and a preferred port, one with neither.
PortKeys == (c1 :> k1) @@ (c2 :> NoPortKey)
Preferences == (c1 :> 2) @@ (c2 :> 0)
Roles == <<"reviewer-1", "reviewer-2">>
CriteriaOf == (ka :> r1) @@ (kb :> r2)
CommandLists == {<<"gated", "plain">>, <<"denied">>, <<"empty">>}
OneCase == <<"case">>
TwoPaths == <<"a", "b">>
FirstTree == [p \in {"a", "b"} |-> IF p = "b" THEN "text" ELSE "none"]
SameName == [o \in ProjectCalls |-> "name"]
\* Two tasks in a chain, one alone, one that names itself, a later title, one twice.
Plans == {<<<<>>, <<1>>>>, <<<<>>>>, <<<<1>>>>, <<<<2>>, <<>>>>, <<<<>>, <<1, 1>>>>}

\* Lines of the lengths that matter: short, longer than a stub, empty at an end.
OfferedTexts == {<<40>>, <<0, 60, 24, 50>>, <<200>>}

\* Every range around the ends of a content of up to three bytes.
RangeHeaders ==
  {[form |-> f, first |-> 0, last |-> 0] : f \in {"none", "malformed"}}
    \cup {[form |-> "suffix", first |-> 0, last |-> n] : n \in {0, 1, 2, 4}}
    \cup {[form |-> "open", first |-> n, last |-> 0] : n \in {0, 2, 3}}
    \cup {[form |-> "closed", first |-> a, last |-> b] : a \in {0, 1, 3}, b \in {0, 1, 2, 5}}

vars == <<system, portVars, outboxVars, reviewVars, blobVars, oversightVars, runnerVars, sessionVars,
          executionVars, mcpVars, evalVars, workspaceVars, planningVars, contextVars, rateVars, supervisionVars,
          downloadVars, completionVars>>

Init ==
  /\ system \in Systems
  /\ PortsInit /\ OutboxInit /\ ReviewInit /\ OversightInit /\ RunnerInit /\ SessionsInit /\ ExecutionInit
  /\ McpInit /\ EvaluationInit /\ WorkspaceInit /\ PlanningInit
  /\ ContextInit /\ RateInit /\ SupervisionInit
  /\ DownloadInit /\ (system # "downloads" => length = 0)
  /\ CompletionInit

\* Bound: beside the report one writer stores, and nothing grows old.
Quiet == old' = {} /\ deaths' = 0 /\ \A w \in Writers \ {w1} : writer'[w] = writer[w]

\* Bounds: only the first port of the range is ever listened on by others, only
\* the first row is ever renewed.
OneListener == bound' \subseteq {1} /\ renewing' \subseteq {1}

\* Bound: a client that was refused calls no more within its window.
RefusedOnce == \A c \in DOMAIN buckets' : buckets'[c].count <= Allowed + 1

Next ==
  /\ UNCHANGED system
  /\ \/ system = "ports" /\ PortsNext /\ OneListener
     \/ system # "ports" /\ UNCHANGED portVars
  /\ \/ system = "messages" /\ OutboxNext
     \/ system # "messages" /\ UNCHANGED outboxVars
  /\ \/ system = "review" /\ ReviewNext
     \/ system # "review" /\ UNCHANGED reviewVars
  /\ \/ system = "artifacts" /\ BlobNext /\ UNCHANGED oversightVars
     \/ system = "oversight" /\ OversightNext /\ Quiet
     \/ system \notin {"artifacts", "oversight"} /\ UNCHANGED <<blobVars, oversightVars>>
  /\ \/ system = "runner" /\ RunnerNext
     \/ system # "runner" /\ UNCHANGED runnerVars
  /\ \/ system = "terminals" /\ TerminalNext
     \/ system = "browsers" /\ BrowserNext
     \/ system \notin {"terminals", "browsers"} /\ UNCHANGED sessionVars
  /\ \/ system = "execution" /\ ExecutionNext
     \/ system # "execution" /\ UNCHANGED executionVars
  /\ \/ system = "mcp" /\ McpNext
     \/ system # "mcp" /\ UNCHANGED mcpVars
  /\ \/ system = "suites" /\ SuiteNext
     \/ system = "audits" /\ AuditNext
     \/ system \notin {"suites", "audits"} /\ UNCHANGED evalVars
  /\ \/ system = "workspace" /\ WorkspaceNext
     \/ system # "workspace" /\ UNCHANGED workspaceVars
  /\ \/ system = "planning" /\ PlanningNext
     \/ system # "planning" /\ UNCHANGED planningVars
  /\ \/ system = "context" /\ ContextNext
     \/ system # "context" /\ UNCHANGED contextVars
  /\ \/ system = "limiter" /\ RateNext /\ RefusedOnce
     \/ system # "limiter" /\ UNCHANGED rateVars
  /\ \/ system = "agents" /\ SupervisionNext
     \/ system # "agents" /\ UNCHANGED supervisionVars
  /\ \/ system = "downloads" /\ DownloadNext
     \/ system # "downloads" /\ UNCHANGED downloadVars
  /\ \/ system = "gates" /\ CompletionNext
     \/ system # "gates" /\ UNCHANGED completionVars

Spec == Init /\ [][Next]_vars /\ PortsFairness /\ OutboxFairness /\ RunnerFairness /\ SessionsFairness
        /\ McpFairness

\* Whatever says that work is complete, the project's report or the gate of a
\* task, rests on evidence, however its reads interleave with the writers of
\* what it reads (completion_report and completion_gate, both fail-closed).
CompletionRests == ReportedWasVerified /\ LetThroughWasClear
=============================================================================
