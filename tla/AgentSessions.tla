---------------------------- MODULE AgentSessions ----------------------------
(***************************************************************************)
(* The sessions of one agent (services/orchestration/agents.py,            *)
(* durable/activities/agents.py): started and ended by requests, kept      *)
(* alive by heartbeats, and given up by the supervisor when they fall      *)
(* silent.  A request reads rows and writes them in a later statement, and *)
(* an UPDATE holds only what the request changed of what it read.          *)
(***************************************************************************)
EXTENDS Integers, FiniteSets

CONSTANTS
  Beaters,     \* sessions the agent may ever have
  Enders,      \* requests that end a session
  Starters,    \* requests that start one
  STALE,       \* session_stale_seconds
  MaxClock     \* bound: the clock

ASSUME SupervisionAssumption == STALE \in Nat /\ MaxClock \in Nat

VARIABLES
  clock,
  agentState,  \* agents.state
  beats,       \* session -> [status, started, beat], "none" before it exists
  starting,    \* start requests: "new", "running" or "other" as they read the agent, "done"
  ending,      \* end requests: [at, of, whether the agent was read as running]
  supervisor,  \* the supervisor: [at, rows, whether the agent was read as running]
  silent,      \* sessions that ever were silent for longer than STALE
  drained      \* whether the recovery of an attempt ended a session

supervisionVars == <<clock, agentState, beats, starting, ending, supervisor, silent, drained>>

NoSession == [status |-> "none", started |-> 0, beat |-> 0]
Asleep == [at |-> "idle", rows |-> {}, running |-> FALSE]
NotAsked == [at |-> "new", of |-> "none", running |-> FALSE]

Alive == {s \in Beaters : beats[s].status = "running"}
Working == agentState = "running"
Set(s, status) == beats' = [beats EXCEPT ![s].status = status]

\* Mutant of LastSign: the query's own condition.
StartOnly(s) == beats[s].started

\* heartbeat_at or started_at
LastSign(s) == beats[s].beat

----------------------------------------------------------------------------
Elapse ==
  /\ clock < MaxClock /\ clock' = clock + 1
  /\ silent' = silent \cup {s \in Alive : clock' - beats[s].beat > STALE}
  /\ UNCHANGED <<agentState, beats, starting, ending, supervisor, drained>>

\* A new session, with its first heartbeat.
OpenSession(s) ==
  /\ beats[s].status = "none"
  /\ beats' = [beats EXCEPT ![s] = [status |-> "running", started |-> clock, beat |-> clock]]

\* start_agent_activity: an agent and its session in one transaction
StartWorker(s) ==
  /\ agentState = "none" /\ OpenSession(s) /\ agentState' = "created"
  /\ UNCHANGED <<clock, starting, ending, supervisor, silent, drained>>

\* create_agent: an agent without a session
CreateAgent ==
  /\ agentState = "none" /\ agentState' = "created"
  /\ UNCHANGED <<clock, beats, starting, ending, supervisor, silent, drained>>

\* set_agent_state_activity, as the workflow calls it for the work
SetRunning ==
  /\ agentState = "created" /\ agentState' = "running"
  /\ UNCHANGED <<clock, beats, starting, ending, supervisor, silent, drained>>

\* start_session: whatever the state of the agent is, it becomes running
AskStart(r) ==
  /\ starting[r] = "new" /\ agentState # "none"
  /\ starting' = [starting EXCEPT ![r] = IF Working THEN "running" ELSE "other"]
  /\ UNCHANGED <<clock, agentState, beats, ending, supervisor, silent, drained>>

Start(r, s) ==
  /\ starting[r] \notin {"new", "done"} /\ OpenSession(s)
  /\ agentState' = IF starting[r] = "running" THEN agentState ELSE "running"
  /\ starting' = [starting EXCEPT ![r] = "done"]
  /\ UNCHANGED <<clock, ending, supervisor, silent, drained>>

\* heartbeat_session, of a worker, and heartbeat, of a request.  (A request may
\* stamp a session that is over as well; nobody looks at the stamp again.)
Heartbeat(s) ==
  /\ s \in Alive /\ beats[s].beat # clock
  /\ beats' = [beats EXCEPT ![s].beat = clock]
  /\ UNCHANGED <<clock, agentState, starting, ending, supervisor, silent, drained>>

\* end_session: a session that was given up counts as ended from then on
AskEnd(r, s) ==
  /\ ending[r].at = "new" /\ beats[s].status # "none"
  /\ ending' = [ending EXCEPT ![r] = [at |-> "read", of |-> s, running |-> Working]]
  /\ UNCHANGED <<clock, agentState, beats, starting, supervisor, silent, drained>>

End(r) ==
  /\ ending[r].at = "read" /\ Set(ending[r].of, "ended")
  /\ agentState' = IF ending[r].running THEN "waiting" ELSE agentState
  /\ ending' = [ending EXCEPT ![r] = [NotAsked EXCEPT !.at = "done"]]
  /\ UNCHANGED <<clock, starting, supervisor, silent, drained>>

\* end_agent_session_activity: the attempt's session, and the agent with it
EndAttempt(s) ==
  /\ s \in Alive /\ Set(s, "ended")
  /\ agentState' = "failed" /\ drained' = TRUE
  /\ UNCHANGED <<clock, starting, ending, supervisor, silent>>

\* supervise_sessions: the rows, then the agent, then both are written
Sweep ==
  /\ supervisor.at = "idle"
  /\ LET lost == {s \in Alive : beats[s].started < clock - STALE /\ LastSign(s) < clock - STALE} IN
       lost # {} /\ supervisor' = [at |-> "rows", rows |-> lost, running |-> FALSE]
  /\ UNCHANGED <<clock, agentState, beats, starting, ending, silent, drained>>

LoadAgent ==
  /\ supervisor.at = "rows" /\ supervisor' = [supervisor EXCEPT !.at = "agent", !.running = Working]
  /\ UNCHANGED <<clock, agentState, beats, starting, ending, silent, drained>>

GiveUpSessions ==
  /\ supervisor.at = "agent" /\ supervisor' = Asleep
  /\ beats' = [s \in Beaters |-> IF s \in supervisor.rows THEN [beats[s] EXCEPT !.status = "lost"] ELSE beats[s]]
  /\ agentState' = IF supervisor.running THEN "failed" ELSE agentState
  /\ UNCHANGED <<clock, starting, ending, silent, drained>>

----------------------------------------------------------------------------
SupervisionInit ==
  /\ clock = 0 /\ agentState = "none" /\ silent = {} /\ drained = FALSE
  /\ beats = [s \in Beaters |-> NoSession]
  /\ starting = [r \in Starters |-> "new"] /\ ending = [r \in Enders |-> NotAsked]
  /\ supervisor = Asleep

SupervisionNext ==
  \/ Elapse \/ CreateAgent \/ SetRunning \/ Sweep \/ LoadAgent \/ GiveUpSessions
  \/ \E s \in Beaters :
       \/ StartWorker(s) \/ Heartbeat(s) \/ EndAttempt(s)
       \/ \E r \in Starters : Start(r, s)
       \/ \E r \in Enders : AskEnd(r, s)
  \/ \E r \in Starters : AskStart(r)
  \/ \E r \in Enders : End(r)

\* "Supervision only records reality" (agents.py:127): a session whose heartbeats
\* came in time is never given up, however requests, heartbeats and the sweep
\* overlap, and the agent fails only with a session that fell silent, or with the
\* attempt.
LostWasSilent ==
  /\ \A s \in Beaters : beats[s].status = "lost" => s \in silent
  /\ agentState = "failed" => drained \/ silent # {}
=============================================================================
