------------------------------ MODULE Dispatch ------------------------------
(***************************************************************************)
(* Many tasks: scheduler ticks that plan, start and claim them within the  *)
(* limits (services/orchestration/scheduler.py, its route), and the runs   *)
(* of the tasks (durable/workflows.py) as far as they meet each other:     *)
(* when they enter, wait for a dependency, are woken by the completion of  *)
(* one, and end.  What one run does on its own is TaskExecution's; here a  *)
(* write of a status is one step and a refused one ends the run.           *)
(*                                                                         *)
(* Tasks are numbered in the order of (priority, created_at).              *)
(***************************************************************************)
EXTENDS Naturals, FiniteSets, FiniteSetsExt, Lifecycles, RecoveryPolicy

CONSTANTS
  NTasks,
  DependsOn,        \* per task, the rows of task_dependencies: earlier created tasks
  Role, Depth,      \* payload.role, payload.spawn_depth
  MaxConcurrency, RoleLimits, SpawnMaxDepth,   \* SchedulingLimits
  Exclusive,        \* tasks with resource_requirements
  Passes,           \* POST /scheduler/tick requests that may be open at once
  MaxAttempts,
  MaxEvents         \* bound: cancellations, foreign leases, and faults of ticks

Tasks == 1..NTasks

ASSUME BoundsAssumption ==
  /\ NTasks \in Nat \ {0} /\ MaxConcurrency \in Nat \ {0} /\ MaxAttempts \in 1..10
  /\ SpawnMaxDepth \in Nat /\ MaxEvents \in Nat
ASSUME TasksAssumption ==
  /\ DependsOn \in [Tasks -> SUBSET Tasks] /\ \A t \in Tasks : t \notin DependsOn[t]
  /\ DOMAIN Role = Tasks /\ Depth \in [Tasks -> Nat] /\ Exclusive \subseteq Tasks
  /\ \A r \in DOMAIN RoleLimits : RoleLimits[r] \in Nat \ {0}
ASSUME PassesAssumption == IsFiniteSet(Passes)

VARIABLES
  status,     \* tasks.status
  phase,      \* where the run of a task stands, "none" if there is none
  attempt,    \* its attempt_number
  unmet,      \* the dependency check found unfinished dependencies
  flag,       \* _dependency_completed
  outcome,    \* final_status
  dependents, \* dependents it has still to signal
  pass,       \* progress of each tick
  leased,     \* tasks a resource of which is actively leased
  cancels, leases, faults,
  completed,  \* history: tasks whose completion was written
  unclaimed   \* history: tasks whose run a tick started and did not claim

runVars  == <<phase, attempt, unmet, flag, outcome, dependents, completed>>
envVars  == <<leased, cancels, leases, faults>>
vars     == <<status, runVars, pass, envVars, unclaimed>>

Schedulable == {"pending", "ready"}

\* Cancellations, leases and faults are few.
May == cancels + leases + faults < MaxEvents

\* rest and chosen are lists in the order of the tasks' numbers: their sets say it all.
NoPass == [phase |-> "idle", running |-> {}, rest |-> {}, chosen |-> {}, claims |-> {}]

-----------------------------------------------------------------------------
(* A tick: plan_schedule, the starts, commit_scheduled.                    *)

\* Mutant of Counted: a task that waits for its dependencies keeps its slot.
CountedWithBlocked == {t \in Tasks : status[t] \in {"running", "blocked"}}

\* What takes up a slot.
Counted == {t \in Tasks : status[t] = "running"}

CountRunning(k) ==
  /\ pass[k].phase = "idle"
  /\ pass' = [pass EXCEPT ![k] = [NoPass EXCEPT !.phase = "counted", !.running = Counted]]
  /\ UNCHANGED <<status, runVars, envVars, unclaimed>>

Candidates == {t \in Tasks : status[t] \in Schedulable}

ReadCandidates(k) ==
  /\ pass[k].phase = "counted"
  /\ pass' = [pass EXCEPT ![k].phase = "planning", ![k].rest = Candidates]
  /\ UNCHANGED <<status, runVars, envVars, unclaimed>>

OfRole(S, r) == {t \in S : Role[t] = r}

\* Mutant of Fits: one slot too many.
FitsOneMore(t, running, chosen) ==
  LET taken == OfRole(running, Role[t]) \cup OfRole(chosen, Role[t])
  IN /\ Cardinality(running) + Cardinality(chosen) <= MaxConcurrency
     /\ Role[t] \in DOMAIN RoleLimits => Cardinality(taken) < RoleLimits[Role[t]]
     /\ Depth[t] <= SpawnMaxDepth
     /\ t \notin leased

\* The limits in the order of plan_schedule: slots, the role's cap, the depth, leases.
Fits(t, running, chosen) ==
  LET taken == OfRole(running, Role[t]) \cup OfRole(chosen, Role[t])
  IN /\ Cardinality(running) + Cardinality(chosen) < MaxConcurrency
     /\ Role[t] \in DOMAIN RoleLimits => Cardinality(taken) < RoleLimits[Role[t]]
     /\ Depth[t] <= SpawnMaxDepth
     /\ t \notin leased

\* One turn of the loop over the candidates, or its end.
Consider(k) ==
  /\ pass[k].phase = "planning"
  /\ LET p == pass[k]
         t == Min(p.rest)
     IN IF p.rest = {}
        THEN pass' = [pass EXCEPT ![k] = [NoPass EXCEPT !.phase = "starting", !.rest = p.chosen]]
        ELSE pass' = [pass EXCEPT ![k].rest = @ \ {t},
                                  ![k].chosen = IF Fits(t, p.running, @) THEN @ \cup {t} ELSE @]
  /\ UNCHANGED <<status, runVars, envVars, unclaimed>>

Fault == May /\ faults' = faults + 1

\* start_task_execution: refused while a run is open; a call that fails may have
\* reached Temporal.  Only what was told to have started is claimed.
StartNext(k) ==
  /\ pass[k].phase = "starting" /\ pass[k].rest # {}
  /\ LET t == Min(pass[k].rest) IN
     \/ /\ phase[t] = "none" /\ phase' = [phase EXCEPT ![t] = "load"]
        /\ \/ /\ pass' = [pass EXCEPT ![k].rest = @ \ {t}, ![k].claims = @ \cup {t}]
              /\ UNCHANGED <<faults, unclaimed>>
           \/ /\ Fault /\ pass' = [pass EXCEPT ![k].rest = @ \ {t}]
              /\ unclaimed' = unclaimed \cup {t}
     \/ /\ phase[t] # "none" /\ UNCHANGED <<phase, faults, unclaimed>>
        /\ pass' = [pass EXCEPT ![k].rest = @ \ {t}]
     \/ /\ Fault /\ UNCHANGED <<phase, unclaimed>>
        /\ pass' = [pass EXCEPT ![k].rest = @ \ {t}]
  /\ UNCHANGED <<status, attempt, unmet, flag, outcome, dependents, completed>>
  /\ UNCHANGED <<leased, cancels, leases>>

\* Claims that are dropped though the run may still go on to work: it was started again,
\* by a plan older than the failure its row shows.
Dropped(k) ==
  {t \in pass[k].claims : /\ status[t] \notin Schedulable /\ LawfulTask(status[t], "running")
                          /\ phase[t] \in {"load", "ready", "enter"}}

\* commit_scheduled reads the started rows, and keeps those nobody has moved on ...
ReadClaims(k) ==
  /\ pass[k].phase = "starting" /\ pass[k].rest = {}
  /\ pass' = [pass EXCEPT ![k].phase = "claiming",
                          ![k].claims = {t \in @ : status[t] \in Schedulable}]
  /\ unclaimed' = unclaimed \cup Dropped(k)
  /\ UNCHANGED <<status, runVars, envVars>>

\* ... and writes them, whatever they have become.
WriteClaims(k) ==
  /\ pass[k].phase = "claiming"
  /\ status' = [t \in Tasks |-> IF t \in pass[k].claims THEN "running" ELSE status[t]]
  /\ pass' = [pass EXCEPT ![k] = NoPass]
  /\ UNCHANGED <<runVars, envVars, unclaimed>>

\* The API process dies in the middle of a tick.
LosePass(k) ==
  /\ pass[k].phase # "idle" /\ Fault
  /\ pass' = [pass EXCEPT ![k] = NoPass]
  /\ unclaimed' = unclaimed \cup pass[k].claims
  /\ UNCHANGED <<status, runVars, leased, cancels, leases>>

Tick(k) == CountRunning(k) \/ ReadCandidates(k) \/ Consider(k) \/ StartNext(k)
             \/ ReadClaims(k) \/ WriteClaims(k)

-----------------------------------------------------------------------------
(* The run of a task.                                                      *)

Move(t, p) == phase' = [phase EXCEPT ![t] = p]

\* _reconcile_terminal_failure: what is settled stays, the rest is settled.
Reconcile(t) ==
  /\ status' = [status EXCEPT ![t] =
       IF @ \in SettledStatus THEN @ ELSE IF @ = "pending" THEN "cancelled" ELSE "failed"]
  /\ Move(t, "none")

\* set_task_status_activity: a status in place is left, an unlawful one refused.
SetStatus(t, s, next) ==
  IF status[t] = s \/ LawfulTask(status[t], s)
  THEN status' = [status EXCEPT ![t] = s] /\ Move(t, next)
  ELSE Reconcile(t)

\* load_task_activity, and the entry through ready.
Load(t) ==
  /\ phase[t] = "load"
  /\ attempt' = [attempt EXCEPT ![t] = 1]
  /\ Move(t, IF status[t] = "pending" THEN "ready" ELSE "enter")
  /\ UNCHANGED <<status, unmet, flag, outcome, dependents, pass, envVars, completed, unclaimed>>

Enter(t) ==
  /\ \/ phase[t] = "ready" /\ SetStatus(t, "ready", "enter")
     \/ phase[t] = "enter" /\ SetStatus(t, "running", "work")
  /\ UNCHANGED <<attempt, unmet, flag, outcome, dependents, pass, envVars, completed, unclaimed>>

\* recovery_decision for a DEPENDENCY_FAILURE of attempt n.
MayWait(n) == ActionFor("DEPENDENCY_FAILURE", AttemptsLeft(n, MaxAttempts)) = "wait_for_dependency"

\* The attempt, and those after it that do not wait: success, a failure for good,
\* or a dependency failure that leads to _wait_for_dependency.
Work(t) ==
  /\ phase[t] = "work"
  /\ \/ \E s \in {"completed", "failed"} :
          outcome' = [outcome EXCEPT ![t] = s] /\ Move(t, "settle")
     \/ MayWait(attempt[t]) /\ Move(t, "check") /\ UNCHANGED outcome
  /\ UNCHANGED <<status, attempt, unmet, flag, dependents, pass, envVars, completed, unclaimed>>

\* dependency_status_activity.
CheckDependencies(t) ==
  /\ phase[t] = "check" /\ Move(t, "checked")
  /\ unmet' = [unmet EXCEPT ![t] = \E d \in DependsOn[t] : status[d] \notin SettledStatus]
  /\ UNCHANGED <<status, attempt, flag, outcome, dependents, pass, envVars, completed, unclaimed>>

NextAttempt(t) == attempt' = [attempt EXCEPT ![t] = @ + 1] /\ Move(t, "work")

\* Its result arrives: the flag is cleared; with nothing unfinished the run goes on.
Park(t) ==
  /\ phase[t] = "checked"
  /\ flag' = [flag EXCEPT ![t] = FALSE] /\ unmet' = [unmet EXCEPT ![t] = FALSE]
  /\ IF unmet[t] THEN Move(t, "park") /\ UNCHANGED attempt ELSE NextAttempt(t)
  /\ UNCHANGED <<status, outcome, dependents, pass, envVars, completed, unclaimed>>

Block(t) ==
  /\ phase[t] = "park" /\ SetStatus(t, "blocked", "wait")
  /\ UNCHANGED <<attempt, unmet, flag, outcome, dependents, pass, envVars, completed, unclaimed>>

\* The wait ends with the signal ...
Resume(t) ==
  /\ phase[t] = "wait" /\ flag[t]
  /\ SetStatus(t, "running", "work")
  /\ attempt' = [attempt EXCEPT ![t] = IF phase'[t] = "work" THEN @ + 1 ELSE @]
  /\ UNCHANGED <<unmet, flag, outcome, dependents, pass, envVars, completed, unclaimed>>

\* ... or at its deadline, which leaves the loop.
Deadline(t) ==
  /\ phase[t] = "wait" /\ ~flag[t]
  /\ outcome' = [outcome EXCEPT ![t] = "failed"] /\ Move(t, "settle")
  /\ UNCHANGED <<status, attempt, unmet, flag, dependents, pass, envVars, completed, unclaimed>>

\* Mutant of Woken: a failure wakes the dependents as well.
WokenByAnyEnd(t) == {d \in Tasks : t \in DependsOn[d]}

\* task_dependents_activity, of a completed task only.
Woken(t) == IF outcome[t] = "completed" THEN {d \in Tasks : t \in DependsOn[d]} ELSE {}

\* The final status, then the list of those to signal (its rows do not change).
Settle(t) ==
  /\ phase[t] = "settle" /\ SetStatus(t, outcome[t], IF Woken(t) = {} THEN "none" ELSE "signal")
  /\ dependents' = [dependents EXCEPT ![t] = IF phase'[t] = "signal" THEN Woken(t) ELSE {}]
  /\ completed' = IF outcome[t] = "completed" /\ status'[t] = "completed"
                  THEN completed \cup {t} ELSE completed
  /\ UNCHANGED <<attempt, unmet, flag, outcome, pass, envVars, unclaimed>>

\* The signal dependency_completed; it is lost when the dependent has no open run.
Signal(t) ==
  /\ \E d \in dependents[t] :
       /\ dependents' = [dependents EXCEPT ![t] = @ \ {d}]
       /\ flag' = [flag EXCEPT ![d] = @ \/ phase[d] # "none"]
  /\ IF dependents'[t] = {} THEN Move(t, "none") ELSE UNCHANGED phase
  /\ UNCHANGED <<status, attempt, unmet, outcome, pass, envVars, completed, unclaimed>>

Run(t) == Load(t) \/ Enter(t) \/ Work(t) \/ CheckDependencies(t) \/ Park(t) \/ Block(t)
            \/ Resume(t) \/ Settle(t) \/ Signal(t)

-----------------------------------------------------------------------------
(* People and leases.                                                      *)

\* cancel_task; the run is not told.
Cancel(t) ==
  /\ May /\ cancels' = cancels + 1
  /\ status[t] \notin FinalStatus /\ status' = [status EXCEPT ![t] = "cancelled"]
  /\ UNCHANGED <<runVars, pass, leased, leases, faults, unclaimed>>

\* Somebody else acquires, then gives up, a resource task t requires.
TakeLease(t) ==
  /\ t \in Exclusive \ leased /\ May
  /\ leases' = leases + 1 /\ leased' = leased \cup {t}
  /\ UNCHANGED <<status, runVars, pass, cancels, faults, unclaimed>>

EndLease(t) ==
  /\ t \in leased /\ leased' = leased \ {t}
  /\ UNCHANGED <<status, runVars, pass, cancels, leases, faults, unclaimed>>

-----------------------------------------------------------------------------
Init ==
  /\ status = [t \in Tasks |-> "pending"]
  /\ phase = [t \in Tasks |-> "none"] /\ attempt = [t \in Tasks |-> 0]
  /\ unmet = [t \in Tasks |-> FALSE] /\ flag = [t \in Tasks |-> FALSE]
  /\ outcome = [t \in Tasks |-> "failed"] /\ dependents = [t \in Tasks |-> {}]
  /\ pass = [k \in Passes |-> NoPass]
  /\ leased = {} /\ cancels = 0 /\ leases = 0 /\ faults = 0
  /\ completed = {} /\ unclaimed = {}

Next ==
  \/ \E k \in Passes : Tick(k) \/ LosePass(k)
  \/ \E t \in Tasks : Run(t) \/ Deadline(t) \/ Cancel(t) \/ TakeLease(t) \/ EndLease(t)

Spec == Init /\ [][Next]_vars

\* Somebody keeps asking for ticks, Temporal drives every run, leases expire.  No
\* deadline has to pass, no signal to arrive.
FairSpec ==
  /\ Spec
  /\ \A k \in Passes : WF_vars(Tick(k))
  /\ \A t \in Tasks : WF_vars(Run(t)) /\ WF_vars(EndLease(t))

-----------------------------------------------------------------------------
(* Properties.                                                             *)

TypeOK ==
  /\ status \in [Tasks -> TaskStatus]
  /\ phase \in [Tasks -> {"none", "load", "ready", "enter", "work", "check", "checked",
                          "park", "wait", "settle", "signal"}]
  /\ attempt \in [Tasks -> 0..MaxAttempts]
  /\ unmet \in [Tasks -> BOOLEAN] /\ flag \in [Tasks -> BOOLEAN]
  /\ outcome \in [Tasks -> {"completed", "failed"}]
  /\ dependents \in [Tasks -> SUBSET Tasks]
  /\ \A k \in Passes :
       /\ pass[k].phase \in {"idle", "counted", "planning", "starting", "claiming"}
       /\ pass[k].running \subseteq Tasks /\ pass[k].claims \subseteq Tasks
       /\ pass[k].rest \subseteq Tasks /\ pass[k].chosen \subseteq Tasks
  /\ leased \subseteq Exclusive
  /\ {cancels, leases, faults} \subseteq 0..MaxEvents
  /\ completed \subseteq Tasks /\ unclaimed \subseteq Tasks

\* Tasks that run and have not come back from a wait, which a tick claimed.
FirstRuns == {t \in Tasks : status[t] = "running" /\ attempt[t] <= 1} \ unclaimed

\* Until it has waited for a dependency a task that a tick started and claimed keeps to
\* the limits (scheduler.py: bounded concurrency): each of the ticks that may be open at
\* once brings at most one round of tasks.  What a tick starts and does not claim, as it
\* dies or is not told of the run, nobody counts (scheduler.py:163: nothing but rows).
WithinLimits ==
  /\ Cardinality(FirstRuns) <= MaxConcurrency * Cardinality(Passes)
  /\ \A r \in DOMAIN RoleLimits :
       Cardinality(OfRole(FirstRuns, r)) <= RoleLimits[r] * Cardinality(Passes)

\* A run leaves its wait for the work only when a task it depends on has completed
\* (workflows.py:654: failures do not wake).
WokenByCompletion ==
  [][\A t \in Tasks : phase[t] = "wait" /\ phase'[t] = "work"
       => DependsOn[t] \cap completed # {}]_vars

\* A row that says running though nobody works on it: WriteClaims came after the run
\* had parked or ended.
Overclaimed == \E t \in Tasks : status[t] = "running" /\ phase[t] \in {"wait", "none"}

\* Every pending task of a lawful depth is started in the end, though tasks wait for
\* each other in any order: a waiting task gives its slot back.
EventuallyStarted ==
  \A t \in Tasks : (status[t] = "pending" /\ Depth[t] <= SpawnMaxDepth)
                     ~> (status[t] # "pending" \/ Overclaimed)

\* The limit as documented: never more running tasks than max_concurrency.
BoundedConcurrency == Cardinality(Counted) <= MaxConcurrency
=============================================================================
