--------------------------- MODULE TaskExecution ---------------------------
(***************************************************************************)
(* TaskExecutionWorkflow (durable/workflows.py) driving one task row.      *)
(*                                                                         *)
(* The workflow is a sequence of activity calls; pc names the call it is   *)
(* waiting for.  Temporal delivers an activity at least once: a worker may *)
(* crash before the activity commits, or after it commits and before its   *)
(* result is recorded, and the call is then delivered again, MaxTries      *)
(* times in all (RETRY_DB).  Around the workflow run the API requests that *)
(* share the row: execute and scheduler tick (both start the workflow and  *)
(* then write the status), cancel, and the session supervisor.  A request  *)
(* reads the row and writes it back without a lock.                        *)
(***************************************************************************)
EXTENDS Naturals, Sequences, FiniteSets, Lifecycles, RecoveryPolicy

CONSTANTS
  MaxAttempts,   \* retry_policy.max_attempts after the clamp to 1..10
  MaxTries,      \* RETRY_DB.maximum_attempts
  MaxFaults,     \* bound: lost results, crashes and timeouts in a behaviour
  Classes,       \* failure classes agent_execute_activity may report
  Execs,         \* ids of POST /tasks/{id}/execute requests
  Ticks,         \* ids of POST /scheduler/tick requests that reach this task
  Directs,       \* ids of workflow starts that do not touch the row
  Cancels,       \* ids of POST /tasks/{id}/cancel requests
  MaxPauses,     \* bound: pause signals in a behaviour
  MaxStale       \* bound: sessions found stale by supervision

Starts   == Execs \cup Ticks \cup Directs
Requests == Starts \cup Cancels

ASSUME BoundsAssumption ==
  /\ MaxAttempts \in 1..10
  /\ MaxTries \in Nat \ {0}
  /\ MaxFaults \in Nat /\ MaxPauses \in Nat /\ MaxStale \in Nat
ASSUME ClassesAssumption == Classes \subseteq FailureClass
ASSUME RequestsAssumption ==
  /\ Execs \cap Ticks = {} /\ Execs \cap Directs = {} /\ Ticks \cap Directs = {}
  /\ Starts \cap Cancels = {}

VARIABLES
  \* ---- rows in the database
  status,      \* tasks.status
  attempts,    \* task_attempts.outcome in creation order ("open" is NULL)
  agents,      \* agents.state in creation order
  children,    \* idempotency keys of the follow-up tasks, in creation order
  terminal,    \* idempotency keys of the TASK_TERMINALLY_FAILED events
  announced,   \* recovery keys of the RETRY_STARTED events
  \* ---- the workflow
  run,         \* number of runs started (one open run per workflow id)
  pc,          \* the call the run waits for, or "closed"
  tries,       \* failed deliveries of that call
  seen,        \* status read by a set_task_status delivery about to write
  loaded,      \* status in the last load_task_activity result
  n,           \* attempt_number of the for loop
  att, ag,     \* rows of this iteration: indexes into attempts and agents
  result,      \* outcome returned by agent_execute_activity
  decision,    \* recovery_decision of the last failed attempt
  paused,      \* the pause/resume flag
  closing,     \* how the last run closed
  \* ---- around the workflow
  req,         \* progress of every API request
  doomed,      \* agent row supervision has read as running and will fail
  strays,      \* execute activities still working after their call timed out
  execs,       \* executions begun by the current run
  faults, pauses, stale   \* bounded counters

dbVars    == <<status, attempts, agents, children, terminal, announced>>
localVars == <<loaded, n, att, ag, result, decision>>
callVars  == <<pc, tries, seen, closing>>
envVars   == <<run, paused, req, doomed, strays, pauses, stale>>
vars == <<dbVars, localVars, callVars, envVars, execs, faults>>

NoStatus  == "none"
NoAction  == [action |-> "none", attempts_left |-> 0, retryable |-> FALSE,
              budget_sensitive |-> FALSE]
Decisions == {Decision(c, k, MaxAttempts) : c \in FailureClass, k \in 1..MaxAttempts}

-----------------------------------------------------------------------------
(* The program text of the workflow: what each call asks for and which     *)
(* call follows it when nothing has to be decided.                         *)

\* Mutant of StatusArg: the final status is "completed" whatever the outcome.
StatusAlwaysCompleted ==
  [ toReady |-> "ready", toRunning |-> "running", block |-> "blocked",
    unblock |-> "running", complete |-> "completed", fail |-> "completed",
    rRun |-> "running", rFail |-> "failed", rCancel |-> "cancelled" ]

\* Calls of set_task_status_activity and the status they ask for.
StatusArg ==
  [ toReady |-> "ready", toRunning |-> "running", block |-> "blocked",
    unblock |-> "running", complete |-> "completed", fail |-> "failed",
    rRun |-> "running", rFail |-> "failed", rCancel |-> "cancelled" ]

\* Calls of set_agent_state_activity and the state they ask for.  The digit
\* is the checkpoint: 1 before the work, 2 after it.
AgentArg ==
  [ agentRun |-> "running", verify |-> "verifying",
    agentDone |-> "completed", agentFail |-> "failed",
    pauseReq1 |-> "pause_requested", pausing1 |-> "paused",
    resuming1 |-> "resuming", rerun1 |-> "running",
    pauseReq2 |-> "pause_requested", pausing2 |-> "paused",
    resuming2 |-> "resuming", rerun2 |-> "running" ]

\* Calls that change no row the model keeps but the event log: events, the
\* repository snapshot and rollback, and reads of other tables.
Notes == {"snapshot", "rollback", "announce", "retryNote", "depSatisfied",
          "depResumed", "finalNote", "dependents", "rNote"}

Follows ==
  [ toReady |-> "toRunning", toRunning |-> "startAttempt",
    block |-> "depWait", unblock |-> "nextAttempt",
    complete |-> "finalNote", fail |-> "finalNote",
    rRun |-> "rFail", rFail |-> "rNote", rCancel |-> "rNote",
    verify |-> "finish", agentDone |-> "complete", agentFail |-> "selected",
    pauseReq1 |-> "pausing1", pausing1 |-> "parked1",
    resuming1 |-> "rerun1", rerun1 |-> "snapshot",
    pauseReq2 |-> "pausing2", pausing2 |-> "parked2",
    resuming2 |-> "rerun2", rerun2 |-> "verify",
    snapshot |-> "execute", rollback |-> "spawn",
    announce |-> "retryNote", retryNote |-> "backoff",
    depSatisfied |-> "nextAttempt", depResumed |-> "unblock" ]

Reconciling == {"rLoad", "rFinish", "rTerminal", "rRun", "rFail", "rCancel", "rNote"}
Parked      == {"parked1", "parked2", "depWait"}
\* Steps of the workflow itself: no activity, nothing to deliver.
Local       == Parked \cup {"closed", "nextAttempt", "backoff"}
Labels == DOMAIN StatusArg \cup DOMAIN AgentArg \cup Notes \cup Reconciling \cup Parked
            \cup {"closed", "load", "startAttempt", "startAgent", "execute", "finish",
                  "selected", "replan", "terminal", "budget", "budgetGate", "hitlGate",
                  "spawn", "endSession", "depCheck", "backoff", "nextAttempt"}

\* Mutant of Once: the execution is retried like a database activity.
OnceButExecute == {"budgetGate", "hitlGate"}

\* Calls with RETRY_NONE: one delivery only.
Once == {"execute", "budgetGate", "hitlGate"}

\* After an agent state write the checkpoint looks at the pause flag.
Checkpoint(l) ==
  IF l = "agentRun" THEN IF paused THEN "pauseReq1" ELSE "snapshot"
  ELSE IF paused THEN "pauseReq2" ELSE "verify"

\* The dispatch of the decided action once cost control has agreed.
Dispatch(action) ==
  CASE action = "spawn_debugger"          -> "spawn"
    [] action = "create_integration_task" -> "rollback"
    [] action = "wait_for_dependency"     -> "depCheck"
    [] action = "request_hitl"            -> "hitlGate"
    [] action = "replace_agent"           -> "endSession"
    [] action \in {"retry_alternate_model", "escalate_model", "rebuild_context"}
         -> "announce"
    [] OTHER -> "retryNote"

\* recovery_id is derived from the task, the attempt row and its number.
RecoveryKey == <<run, n>>
\* Reconciliation keys its evidence by the task alone.
ReconcileKey == <<0, 0>>

\* The status reconciliation settles an abandoned run on.
RTarget == IF loaded = "pending" THEN "rCancel"
           ELSE IF loaded = "ready" THEN "rRun" ELSE "rFail"

\* Mutant of OnError: an exception ends the run with nothing reconciled.
OnErrorUnreconciled(l) == "closed"

\* Where an exhausted call leads: the exception escapes _execute into
\* _reconcile_terminal_failure; there every step is suppressed on its own,
\* except that rRun and the write after it share one suppress block.
OnError(l) ==
  CASE l \in {"load", "rLoad", "rNote"}     -> "closed"
    [] l = "rFinish"                        -> "rTerminal"
    [] l = "rTerminal"                      -> RTarget
    [] l \in {"rRun", "rFail", "rCancel"}   -> "rNote"
    [] OTHER                                -> "rLoad"

-----------------------------------------------------------------------------
(* One delivery of the call the run waits for.                             *)

Goto(l) == pc' = l /\ tries' = 0 /\ seen' = NoStatus /\ UNCHANGED closing

Close(how) == pc' = "closed" /\ tries' = 0 /\ seen' = NoStatus /\ closing' = how

\* Mutant of Redeliver: deliveries are not counted (no maximum_attempts).
RedeliverForever ==
  IF pc \notin Once
  THEN seen' = NoStatus /\ UNCHANGED <<pc, tries, closing>>
  ELSE IF OnError(pc) = "closed" THEN Close("raised") ELSE Goto(OnError(pc))

\* The delivery failed: Temporal schedules another, or the run sees an error.
Redeliver ==
  IF pc \notin Once /\ tries + 1 < MaxTries
  THEN tries' = tries + 1 /\ seen' = NoStatus /\ UNCHANGED <<pc, closing>>
  ELSE IF OnError(pc) = "closed" THEN Close("raised") ELSE Goto(OnError(pc))

Fault == faults < MaxFaults /\ faults' = faults + 1

\* A worker dies before the activity commits.
CrashBefore ==
  /\ pc \in Labels \ (Local \cup {"execute"})
  /\ Fault /\ Redeliver
  /\ UNCHANGED <<dbVars, localVars, envVars, execs>>

\* An activity commits its effect; the result then reaches the run, which
\* continues with ack, or is lost.
Deliver(effect, ack) ==
  /\ effect
  /\ \/ ack /\ UNCHANGED faults
     \/ Fault /\ Redeliver /\ UNCHANGED localVars
  /\ UNCHANGED <<envVars, execs>>

\* An ack that changes nothing but the call waited for.
Then(l) == Goto(l) /\ UNCHANGED localVars

-----------------------------------------------------------------------------
(* Activities over the rows.                                               *)

LoadTask ==
  /\ pc = "load"
  /\ Deliver(UNCHANGED dbVars,
             /\ loaded' = status
             /\ Goto(IF status = "pending" THEN "toReady" ELSE "toRunning")
             /\ UNCHANGED <<n, att, ag, result, decision>>)

\* set_task_status_activity reads the row ...
ReadStatus ==
  /\ pc \in DOMAIN StatusArg /\ seen = NoStatus /\ status # StatusArg[pc]
  /\ IF LawfulTask(status, StatusArg[pc])
     THEN seen' = status /\ UNCHANGED <<pc, tries, closing>>
     ELSE Redeliver
  /\ UNCHANGED <<dbVars, localVars, envVars, execs, faults>>

\* ... and writes it.  A status already in place is acknowledged unwritten.
WriteStatus ==
  /\ pc \in DOMAIN StatusArg
  /\ seen # NoStatus \/ status = StatusArg[pc]
  /\ Deliver(/\ status' = IF seen = NoStatus THEN status ELSE StatusArg[pc]
             /\ UNCHANGED <<attempts, agents, children, terminal, announced>>,
             Then(Follows[pc]))

\* start_attempt_activity: one more row per delivery.
StartAttempt ==
  /\ pc = "startAttempt"
  /\ Deliver(/\ attempts' = Append(attempts, "open")
             /\ UNCHANGED <<status, agents, children, terminal, announced>>,
             /\ att' = Len(attempts) + 1
             /\ Goto("startAgent")
             /\ UNCHANGED <<loaded, n, ag, result, decision>>)

\* start_agent_activity: one more agent and session per delivery.
StartAgent ==
  /\ pc = "startAgent"
  /\ Deliver(/\ agents' = Append(agents, "created")
             /\ UNCHANGED <<status, attempts, children, terminal, announced>>,
             /\ ag' = Len(agents) + 1
             /\ Goto("agentRun")
             /\ UNCHANGED <<loaded, n, att, result, decision>>)

\* set_agent_state_activity: the assertion has no exception for a state that
\* is already in place, so a second delivery of a committed write is refused.
SetAgentState ==
  /\ pc \in DOMAIN AgentArg
  /\ IF LawfulAgent(agents[ag], AgentArg[pc])
     THEN Deliver(/\ agents' = [agents EXCEPT ![ag] = AgentArg[pc]]
                  /\ UNCHANGED <<status, attempts, children, terminal, announced>>,
                  Then(IF pc = "agentRun" THEN Checkpoint(pc) ELSE Follows[pc]))
     ELSE /\ Redeliver
          /\ UNCHANGED <<dbVars, localVars, envVars, execs, faults>>

\* _checkpoint waits for the resume signal.
LeaveCheckpoint ==
  /\ pc \in {"parked1", "parked2"} /\ ~paused
  /\ Goto(IF pc = "parked1" THEN "resuming1" ELSE "resuming2")
  /\ UNCHANGED <<dbVars, localVars, envVars, execs, faults>>

\* agent_execute_activity: the work itself, never delivered twice.  It reports
\* success or a failure class; or it raises, or its worker dies; or its call
\* times out while the work goes on.
Execute ==
  /\ pc = "execute" /\ execs' = execs + 1
  /\ \/ /\ \E r \in {"success"} \cup Classes :
             /\ result' = IF r = "success" THEN "success" ELSE "failed"
             /\ decision' = IF r = "success" THEN NoAction
                            ELSE Decision(r, n, MaxAttempts)
        /\ Goto(Checkpoint(pc))
        /\ UNCHANGED <<loaded, n, att, ag, faults, strays>>
     \/ /\ Fault /\ Redeliver
        /\ strays' \in {strays, strays + 1}
        /\ UNCHANGED localVars
  /\ UNCHANGED <<dbVars, run, paused, req, doomed, pauses, stale>>

StrayEnds ==
  /\ strays > 0 /\ strays' = strays - 1
  /\ UNCHANGED <<dbVars, localVars, callVars, run, paused, req, doomed, pauses,
                 stale, execs, faults>>

\* The outcome reconciliation gives the attempt of an abandoned run.
AbandonedOutcome == IF loaded = "pending" THEN "cancelled" ELSE "failed"

\* Mutant of FinishAttempt: the run goes on as if every attempt had succeeded.
FinishAsSuccess ==
  /\ pc \in {"finish", "rFinish"}
  /\ Deliver(/\ attempts' = [attempts EXCEPT ![att] =
                  IF pc = "finish" THEN result ELSE AbandonedOutcome]
             /\ UNCHANGED <<status, agents, children, terminal, announced>>,
             Then(IF pc = "rFinish" THEN "rTerminal" ELSE "agentDone"))

\* finish_attempt_activity overwrites the outcome of its row.
FinishAttempt ==
  /\ pc \in {"finish", "rFinish"}
  /\ Deliver(/\ attempts' = [attempts EXCEPT ![att] =
                  IF pc = "finish" THEN result ELSE AbandonedOutcome]
             /\ UNCHANGED <<status, agents, children, terminal, announced>>,
             Then(IF pc = "rFinish" THEN "rTerminal"
                  ELSE IF result = "success" THEN "agentDone" ELSE "agentFail"))

\* record_event_activity and the other calls in Notes.
Note ==
  /\ pc \in Notes
  /\ Deliver(/\ announced' = IF pc = "retryNote" THEN Append(announced, RecoveryKey)
                             ELSE announced
             /\ UNCHANGED <<status, attempts, agents, children, terminal>>,
             /\ \/ pc \in DOMAIN Follows /\ Goto(Follows[pc])
                \/ pc = "finalNote" /\ result = "success" /\ Goto("dependents")
                \/ pc = "finalNote" /\ result # "success" /\ Close("returned")
                \/ pc = "dependents" /\ Close("returned")
                \/ pc = "rNote" /\ Close("raised")
             /\ UNCHANGED localVars)

-----------------------------------------------------------------------------
(* The recovery coordinator.                                               *)

\* Mutant of SelectRecovery: a stop fails the task without its evidence.
SelectRecoveryUnrecorded ==
  /\ pc = "selected"
  /\ Deliver(UNCHANGED dbVars,
             Then(IF decision.action = "stop" THEN "fail"
                  ELSE IF decision.action = LadderEnd THEN "replan" ELSE "budget"))

\* RECOVERY_SELECTED, then the branch on the decided action.
SelectRecovery ==
  /\ pc = "selected"
  /\ Deliver(UNCHANGED dbVars,
             Then(IF decision.action = "stop" THEN "terminal"
                  ELSE IF decision.action = LadderEnd THEN "replan" ELSE "budget"))

\* recovery_budget_activity, and the gate when an expensive action is over it.
CheckBudget ==
  /\ pc = "budget"
  /\ \E within_budget \in BOOLEAN :
       Deliver(UNCHANGED dbVars,
               Then(IF decision.budget_sensitive /\ ~within_budget THEN "budgetGate"
                    ELSE Dispatch(decision.action)))

\* hitl_recovery_gate_activity answers for the human (or the timeout).
Gate ==
  /\ pc \in {"budgetGate", "hitlGate"}
  /\ \E approved \in BOOLEAN :
       Deliver(UNCHANGED dbVars,
               Then(IF pc = "budgetGate"
                    THEN IF approved THEN Dispatch(decision.action) ELSE "fail"
                    ELSE IF approved THEN "nextAttempt" ELSE "terminal"))

\* _event_exists guards the creation of a row that carries a key.
Recorded(rows, key)  == \E i \in DOMAIN rows : rows[i] = key
AppendNew(rows, key) == IF Recorded(rows, key) THEN rows ELSE Append(rows, key)

\* Mutant of FollowUp: the run goes on beside the task that replaces it.
FollowUpAndRetry ==
  /\ pc \in {"replan", "spawn"}
  /\ Deliver(/\ children' = AppendNew(children, RecoveryKey)
             /\ UNCHANGED <<status, attempts, agents, terminal, announced>>,
             Then("retryNote"))

\* replan_task_activity and spawn_child_task_activity: create a follow-up
\* task unless one carries the idempotency key already.
FollowUp ==
  /\ pc \in {"replan", "spawn"}
  /\ Deliver(/\ children' = AppendNew(children, RecoveryKey)
             /\ UNCHANGED <<status, attempts, agents, terminal, announced>>,
             Then("terminal"))

\* terminal_failure_activity, once per key.
RecordTerminal ==
  /\ pc \in {"terminal", "rTerminal"}
  /\ Deliver(/\ terminal' = AppendNew(terminal,
                  IF pc = "terminal" THEN RecoveryKey ELSE ReconcileKey)
             /\ UNCHANGED <<status, attempts, agents, children, announced>>,
             Then(IF pc = "terminal" THEN "fail" ELSE RTarget))

\* end_agent_session_activity: forces the agent row to failed, unasserted.
EndSession ==
  /\ pc = "endSession"
  /\ Deliver(/\ agents' = [agents EXCEPT ![ag] =
                  IF @ \in {"failed", "cancelled"} THEN @ ELSE "failed"]
             /\ UNCHANGED <<status, attempts, children, terminal, announced>>,
             Then("announce"))

\* dependency_status_activity with the DEPENDENCY_WAIT_STARTED event.
CheckDependencies ==
  /\ pc = "depCheck"
  /\ \E unfinished \in BOOLEAN :
       Deliver(UNCHANGED dbVars, Then(IF unfinished THEN "block" ELSE "depSatisfied"))

\* The durable wait ends by signal, or at its deadline.
LeaveDependencyWait ==
  /\ pc = "depWait"
  /\ \E signalled \in BOOLEAN : Goto(IF signalled THEN "depResumed" ELSE "fail")
  /\ UNCHANGED <<dbVars, localVars, envVars, execs, faults>>

\* The loop takes the next attempt, after the durable timer if there is one.
NextAttempt ==
  /\ pc \in {"backoff", "nextAttempt"}
  /\ IF n < MaxAttempts THEN n' = n + 1 /\ Goto("startAttempt")
     ELSE n' = n /\ Goto("fail")
  /\ UNCHANGED <<dbVars, loaded, att, ag, result, decision, envVars, execs, faults>>

\* _reconcile_terminal_failure reloads the task; a settled one is left alone.
ReconcileLoad ==
  /\ pc = "rLoad"
  /\ Deliver(UNCHANGED dbVars,
             /\ loaded' = status
             /\ IF status \in SettledStatus THEN Close("raised")
                ELSE IF att # 0 /\ attempts[att] = "open" THEN Goto("rFinish")
                ELSE Goto("rTerminal")
             /\ UNCHANGED <<n, att, ag, result, decision>>)

-----------------------------------------------------------------------------
(* The requests around the run.                                            *)

Step(r, from, to) == req[r] = from /\ req' = [req EXCEPT ![r] = to]

\* start_workflow: a second start while the run is open is refused.
StartRun ==
  /\ pc = "closed"
  /\ pc' = "load" /\ tries' = 0 /\ seen' = NoStatus /\ closing' = "none"
  /\ run' = run + 1 /\ execs' = 0 /\ paused' = FALSE
  /\ loaded' = NoStatus /\ n' = 1 /\ att' = 0 /\ ag' = 0
  /\ result' = "none" /\ decision' = NoAction

Start(r, from, done) ==
  /\ \/ StartRun /\ Step(r, from, done)
     \/ /\ pc # "closed" /\ Step(r, from, "done")
        /\ UNCHANGED <<localVars, callVars, run, paused, execs>>
  /\ UNCHANGED <<dbVars, doomed, strays, pauses, stale, faults>>

Touch(r, from, to) ==
  /\ Step(r, from, to)
  /\ UNCHANGED <<dbVars, localVars, callVars, run, paused, doomed, strays, pauses,
                 stale, execs, faults>>

WriteBack(r, s) ==
  /\ Step(r, "write", "wrote")
  /\ status' = s
  /\ UNCHANGED <<attempts, agents, children, terminal, announced, localVars, callVars,
                 run, paused, doomed, strays, pauses, stale, execs, faults>>

\* POST /tasks/{id}/execute: start the run, then mark_status(ready).
ExecuteRequest(r) ==
  \/ Start(r, "new", "started")
  \/ Touch(r, "started", IF LawfulTask(status, "ready") THEN "write" ELSE "done")
  \/ WriteBack(r, "ready")

\* POST /scheduler/tick: plan_schedule picks the task, the run is started,
\* commit_scheduled writes running.
Schedulable == {"pending", "ready"}
TickRequest(r) ==
  \/ status \in Schedulable /\ Touch(r, "new", "planned")
  \/ Start(r, "planned", "started")
  \/ Touch(r, "started", IF status \in Schedulable THEN "write" ELSE "done")
  \/ WriteBack(r, "running")

\* A start whose client writes nothing after it: a direct invocation, or an
\* execute request whose API process died once the run was started.
DirectRequest(r) == Start(r, "new", "done")

\* cancel_task: refused only for a task already completed or cancelled.
CancelRequest(r) ==
  \/ Touch(r, "new", IF status \in FinalStatus THEN "done" ELSE "write")
  \/ WriteBack(r, "cancelled")

\* The pause and resume signals, delivered to an open run.
SignalPause ==
  /\ pc # "closed" /\ ~paused /\ pauses < MaxPauses
  /\ paused' = TRUE /\ pauses' = pauses + 1
  /\ UNCHANGED <<dbVars, localVars, callVars, run, req, doomed, strays, stale, execs,
                 faults>>

SignalResume ==
  /\ pc # "closed" /\ paused
  /\ paused' = FALSE
  /\ UNCHANGED <<dbVars, localVars, callVars, run, req, doomed, strays, pauses, stale,
                 execs, faults>>

\* supervise_sessions finds the heartbeat of a running agent's session stale ...
FindStale ==
  /\ doomed = 0 /\ stale < MaxStale /\ stale' = stale + 1
  /\ \E i \in DOMAIN agents : agents[i] = "running" /\ doomed' = i
  /\ UNCHANGED <<dbVars, localVars, callVars, run, paused, req, strays, pauses, execs,
                 faults>>

\* ... and fails the agent, whatever became of it since.
MarkLost ==
  /\ doomed # 0 /\ doomed' = 0
  /\ agents' = [agents EXCEPT ![doomed] = "failed"]
  /\ UNCHANGED <<status, attempts, children, terminal, announced, localVars, callVars,
                 run, paused, req, strays, pauses, stale, execs, faults>>

Supervise == FindStale \/ MarkLost

-----------------------------------------------------------------------------
Init ==
  /\ status = "pending" /\ attempts = <<>> /\ agents = <<>> /\ children = <<>>
  /\ terminal = <<>> /\ announced = <<>>
  /\ run = 0 /\ pc = "closed" /\ tries = 0 /\ seen = NoStatus
  /\ loaded = NoStatus /\ n = 1 /\ att = 0 /\ ag = 0
  /\ result = "none" /\ decision = NoAction
  /\ paused = FALSE /\ closing = "none"
  /\ req = [r \in Requests |-> "new"]
  /\ doomed = 0 /\ strays = 0 /\ execs = 0 /\ faults = 0 /\ pauses = 0 /\ stale = 0

Activity ==
  \/ LoadTask \/ ReadStatus \/ WriteStatus \/ StartAttempt \/ StartAgent
  \/ SetAgentState \/ Execute \/ FinishAttempt \/ Note \/ SelectRecovery
  \/ CheckBudget \/ Gate \/ FollowUp \/ RecordTerminal \/ EndSession
  \/ CheckDependencies \/ ReconcileLoad

Worker == Activity \/ LeaveCheckpoint \/ LeaveDependencyWait \/ NextAttempt

Client ==
  \/ \E r \in Execs   : ExecuteRequest(r)
  \/ \E r \in Ticks   : TickRequest(r)
  \/ \E r \in Directs : DirectRequest(r)
  \/ \E r \in Cancels : CancelRequest(r)

Next ==
  \/ Worker \/ CrashBefore \/ StrayEnds
  \/ Client \/ SignalPause \/ SignalResume \/ Supervise

Spec == Init /\ [][Next]_vars

\* A worker polls the task queue as long as it runs, durable timers fire and
\* human gates time out; nothing obliges a client to resume or to call again.
FairSpec == Spec /\ WF_vars(Worker)

-----------------------------------------------------------------------------
(* Properties.                                                             *)

Key     == Nat \X Nat
Outcome == {"open", "success", "failed", "cancelled"}

\* Calls of an iteration before and after the work.
Preparing == {"startAgent", "agentRun", "pauseReq1", "pausing1", "parked1", "resuming1",
              "rerun1", "snapshot", "execute"}
Wrapping  == {"pauseReq2", "pausing2", "parked2", "resuming2", "rerun2", "verify"}

\* Every variable holds a value of its kind, and the run's references to
\* attempt and agent rows point at rows that exist.
RowsOK ==
  /\ status \in TaskStatus
  /\ attempts \in Seq(Outcome) /\ agents \in Seq(AgentState)
  /\ children \in Seq(Key) /\ terminal \in Seq(Key) /\ announced \in Seq(Key)
RunOK ==
  /\ loaded \in TaskStatus \cup {NoStatus}
  /\ n \in 1..MaxAttempts /\ att \in 0..Len(attempts) /\ ag \in 0..Len(agents)
  /\ result \in {"none", "success", "failed"}
  /\ decision \in Decisions \cup {NoAction}
CallOK ==
  /\ pc \in Labels /\ tries \in 0..(MaxTries - 1)
  /\ seen \in TaskStatus \cup {NoStatus}
  /\ closing \in {"none", "returned", "raised"}
EnvOK ==
  /\ run \in Nat /\ paused \in BOOLEAN /\ doomed \in 0..Len(agents)
  /\ req \in [Requests -> {"new", "planned", "started", "write", "wrote", "done"}]
  /\ strays \in Nat /\ execs \in Nat
  /\ faults \in 0..MaxFaults /\ pauses \in 0..MaxPauses /\ stale \in 0..MaxStale
TypeOK == RowsOK /\ RunOK /\ CallOK /\ EnvOK

\* A task is never reported completed without an attempt whose recorded
\* outcome is success, whatever requests and redeliveries race with the run.
CompletedHasSuccess ==
  status = "completed" => \E i \in DOMAIN attempts : attempts[i] = "success"

\* The work of a task is begun at most max_attempts times per run (REC-002),
\* redelivered activities included: the side effects of an execution are
\* never repeated on their own.
BoundedExecutions == execs <= MaxAttempts

\* Why it is: the work is begun once per iteration at most.
ExecutionsTracked ==
  /\ execs <= n
  /\ pc \in Preparing \cup {"load", "toReady", "toRunning", "startAttempt"} => execs < n

\* A recovery creates at most one follow-up task and one terminal failure
\* event however often the activity that creates it is delivered.
KeyedOnce ==
  \A rows \in {children, terminal} :
    \A i, j \in DOMAIN rows : rows[i] = rows[j] => i = j

\* A follow-up replaces the rest of the ladder: the run that spawned it makes
\* no further attempt, and if it returns it leaves the terminal failure that
\* refers to the follow-up.
FollowUpIsTerminal ==
  \A i \in DOMAIN children : children[i][1] = run =>
    /\ children[i][2] = n
    /\ execs = n \/ pc = "closed"
    /\ closing = "returned" => Recorded(terminal, RecoveryKey)

\* Why the ledger is kept: the row the run works on stays open until it is
\* finished, is finished with one outcome only, and holds a success before the
\* run asks for "completed".
OutcomeTracked ==
  /\ pc \in Preparing \cup Wrapping \cup {"finish", "rFinish", "agentDone", "complete"}
       => att # 0
  /\ pc \in Preparing \cup Wrapping => attempts[att] = "open"
  /\ pc \in Wrapping \cup {"finish"} => result # "none"
  /\ pc = "finish"  => attempts[att] \in {"open", result}
  /\ pc = "rFinish" => attempts[att] \in {"open", AbandonedOutcome}
  /\ pc \in {"agentDone", "complete"} => attempts[att] = "success"

\* The run is parked at a checkpoint only while the agent row says paused, and
\* works only while the row says running (supervision may declare the agent
\* failed in both): what the office shows is what happens.
CheckpointTruthful ==
  /\ pc \in {"parked1", "parked2"} => agents[ag] \in {"paused", "failed"}
  /\ pc = "execute" => agents[ag] \in {"running", "failed"}

\* The human refused to pay for the recovery, or the dependency did not finish
\* in time: the run gave up with attempts left, and nothing follows it.
GaveUp ==
  /\ n < MaxAttempts
  /\ decision.budget_sensitive \/ decision.action = "wait_for_dependency"
  /\ ~Recorded(children, RecoveryKey)

\* A run that returns without success has recorded a terminal failure with
\* its evidence for the attempt it gave up on, unless it gave up at the budget
\* gate or waiting for a dependency: only there is the evidence missing, and
\* never once the attempts are spent or a follow-up task refers to it.
EvidencedFailure ==
  closing = "returned" /\ result # "success" => Recorded(terminal, RecoveryKey) \/ GaveUp

\* "a rejected or timed-out gate fails the task terminally with evidence"
\* (durable/workflows.py:493); both ways out above leave none.
FailureLeavesEvidence ==
  closing = "returned" /\ result # "success" => Recorded(terminal, RecoveryKey)

\* Every attempt after the first is preceded by the RETRY_STARTED event (and
\* the backoff) of the one before.
AnnouncedRetries ==
  pc = "startAttempt" /\ n > 1 => Recorded(announced, <<run, n - 1>>)

\* A request that started a run has written the status behind it.
Overwritten == \E r \in Execs \cup Ticks : req[r] = "wrote"

\* Once the run is over its task is in a settled status: no task is left
\* running with nobody running it, unless the requests that start runs have
\* put it back to ready or running, or as many results were lost as a call has
\* deliveries.
NoOrphanedTask ==
  closing # "none" =>
    \/ status \in SettledStatus
    \/ Overwritten /\ status \in {"ready", "running"}
    \/ faults >= MaxTries

\* A run whose work succeeded ends with the task completed, or cancelled.
SuccessSettles ==
  closing # "none" /\ result = "success" => status \in FinalStatus

\* The work of one task is never executed twice at the same time.
NoConcurrentExecution == pc = "execute" => strays = 0

\* A run is not failed by the requests that started it.
NoSpuriousFailure == closing # "raised"

\* The rows behave as the abstract ledger says: attempts are appended, closed
\* once and never rewritten, and no task is completed without a success, over
\* all runs, requests and redeliveries.
Ledger == INSTANCE AttemptLedger WITH status <- status, attempts <- attempts
LedgerKept == Ledger!Spec

\* Terminal statuses are terminal: no writer moves a completed or cancelled
\* task.
TerminalIsTerminal == [][status \notin FinalStatus]_status

\* Every run comes to an end, unless it is parked at a checkpoint nobody
\* resumes.
RunCloses == pc # "closed" ~> pc \in {"closed", "parked1", "parked2"}
=============================================================================
