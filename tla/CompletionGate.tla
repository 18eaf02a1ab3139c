--------------------------- MODULE CompletionGate --------------------------
(***************************************************************************)
(* The credential scan of a project's tree and the completion gate of a    *)
(* task (services/quality/gates.py, secrets.py, api/routes/quality/        *)
(* gates.py).  A scan reads the tree file by file while agents write to    *)
(* it; the gate reads the attempts, then the validations, each as          *)
(* committed at that moment.                                               *)
(***************************************************************************)
EXTENDS Naturals, Sequences, FiniteSets

CONSTANTS
  GatedTasks,
  NoTask,        \* a scan of the project for no task in particular
  NFiles,        \* files of the tree, numbered in the order of their paths
  Unscannable,   \* files in a skipped directory, binary, too long or unreadable
  MAX_FILES,     \* files a scan reads at most
  Scans, Asks,   \* requests of either kind that may be open at once
  MaxPlants      \* bound: how often a credential is put into a file

Files == 1..NFiles

ASSUME CompletionAssumption ==
  /\ NoTask \notin GatedTasks /\ Unscannable \subseteq Files
  /\ NFiles \in Nat /\ MAX_FILES \in Nat /\ MaxPlants \in Nat

VARIABLES
  planted,      \* files that hold a credential now
  plants,       \* how often one was put there
  scan,         \* progress of each scan
  validations,  \* rows of kind "security", in the order of their commits
  evidenced,    \* tasks with a successful attempt that recorded artifacts
  ask,          \* progress of each request of the gate
  allowed       \* tasks the gate let through, with the validations it began from

completionVars == <<planted, plants, scan, validations, evidenced, ask, allowed>>

IdleScan == [pc |-> "idle", task |-> NoTask, at |-> 1, read |-> 0, found |-> FALSE]
IdleAsk  == [pc |-> "idle", task |-> NoTask, evidence |-> FALSE, began |-> 0]

\* ---- the tree, written to by agents and editors -------------------------
Plant(f) ==
  /\ f \notin planted /\ plants < MaxPlants
  /\ planted' = planted \union {f} /\ plants' = plants + 1
  /\ UNCHANGED <<scan, validations, evidenced, ask, allowed>>

Clean(f) ==
  /\ f \in planted /\ planted' = planted \ {f}
  /\ UNCHANGED <<plants, scan, validations, evidenced, ask, allowed>>

\* ---- security_scan ------------------------------------------------------
\* The request names a task or, by default, none.
StartScan(s, t) ==
  /\ scan[s].pc = "idle"
  /\ scan' = [scan EXCEPT ![s] = [IdleScan EXCEPT !.pc = "read", !.task = t]]
  /\ UNCHANGED <<planted, plants, validations, evidenced, ask, allowed>>

Scannable(s) == scan[s].at \notin Unscannable /\ scan[s].read < MAX_FILES

ScanFile(s) ==
  /\ scan[s].pc = "read" /\ scan[s].at \in Files
  /\ scan' = [scan EXCEPT ![s].at = @ + 1,
                ![s].read  = IF Scannable(s) THEN @ + 1 ELSE @,
                ![s].found = @ \/ (Scannable(s) /\ scan[s].at \in planted)]
  /\ UNCHANGED <<planted, plants, validations, evidenced, ask, allowed>>

Status(s) == IF scan[s].found THEN "failed" ELSE "passed"

RecordScan(s) ==
  /\ scan[s].pc = "read" /\ scan[s].at \notin Files
  /\ validations' = Append(validations, [task |-> scan[s].task, status |-> Status(s)])
  /\ scan' = [scan EXCEPT ![s] = [IdleScan EXCEPT !.pc = "done"]]
  /\ UNCHANGED <<planted, plants, evidenced, ask, allowed>>

\* ---- the gate -----------------------------------------------------------
\* finish_attempt records a success with its artifacts (module TaskExecution).
RecordSuccess(t) ==
  /\ evidenced' = evidenced \union {t}
  /\ UNCHANGED <<planted, plants, scan, validations, ask, allowed>>

ReadAttempts(a, t) ==
  /\ ask[a].pc = "idle"
  /\ ask' = [ask EXCEPT ![a] = [pc |-> "attempts", task |-> t, evidence |-> t \in evidenced,
                                began |-> Len(validations)]]
  /\ UNCHANGED <<planted, plants, scan, validations, evidenced, allowed>>

\* Rows of this task only; a later scan that passes takes no failed row away.
FailedFor(t) == \E i \in 1..Len(validations) : validations[i] = [task |-> t, status |-> "failed"]

\* The two blockers; a task without requirement or plan is only warned of.
GateBlocked(a) == ~ ask[a].evidence \/ FailedFor(ask[a].task)

AnswerGate(a) ==
  /\ ask[a].pc = "attempts"
  /\ allowed' = IF GateBlocked(a) THEN allowed
                ELSE allowed \union {[task |-> ask[a].task, began |-> ask[a].began]}
  /\ ask' = [ask EXCEPT ![a] = [IdleAsk EXCEPT !.pc = "done"]]
  /\ UNCHANGED <<planted, plants, scan, validations, evidenced>>

----------------------------------------------------------------------------
CompletionInit ==
  /\ planted = {} /\ plants = 0 /\ validations = <<>> /\ evidenced = {} /\ allowed = {}
  /\ scan = [s \in Scans |-> IdleScan]
  /\ ask = [a \in Asks |-> IdleAsk]

CompletionNext ==
  \/ \E f \in Files : Plant(f) \/ Clean(f)
  \/ \E s \in Scans : ScanFile(s) \/ RecordScan(s) \/ \E t \in GatedTasks \union {NoTask} : StartScan(s, t)
  \/ \E t \in GatedTasks : RecordSuccess(t)
  \/ \E a \in Asks : AnswerGate(a) \/ \E t \in GatedTasks : ReadAttempts(a, t)

\* The gate let a task through on a success with evidence, and no scan recorded
\* for the task before the gate was asked had found credentials.
LetThroughWasClear ==
  \A g \in allowed :
    /\ g.task \in evidenced
    /\ \A i \in 1..g.began : validations[i] # [task |-> g.task, status |-> "failed"]

\* The gate lets no task through when the last scan of the project's tree that
\* was recorded before it was asked had found credentials.  The code does not
\* keep this: a scan requested without a task counts for no task, though it
\* reads the same tree (gates.completion_gate asks for the rows of the task).
AllowedWasClean ==
  \A g \in allowed : g.began > 0 => validations[g.began].status = "passed"
=============================================================================
