--------------------------- MODULE AgentExecution --------------------------
(***************************************************************************)
(* The work of one attempt (durable/activities/execution.py): the budget   *)
(* check, the model call with its retries and its fallback route           *)
(* (agents_runtime/models_registry.py), the ledger row (services/          *)
(* intelligence/costs.py), the execution slot (services/execution/         *)
(* executions.py) and the commands, each through the tool gateway          *)
(* (agents_runtime/gateway.py) and, where policy asks for it, a human.     *)
(* Several executions of one project run at once; a worker may die.        *)
(***************************************************************************)
EXTENDS Naturals, Sequences, FiniteSets, FiniteSetsExt

CONSTANTS
  Executions,    \* lanes of attempts that may run beside each other
  Payloads,      \* command lists an attempt may have: of "plain", "gated", "denied", "empty"
  CallBudget,    \* model_budget_invocations_per_task, not 0
  MaxTries,      \* model_provider_max_attempts
  HasFallback,   \* whether the route names another role to fall back to
  NSlots,        \* exec_max_concurrent_per_project
  MaxUpsets      \* bound: workers that die, leases that lapse, rows not written

ASSUME ExecutionAssumption ==
  /\ IsFiniteSet(Executions) /\ 0 \notin Executions
  /\ CallBudget \in Nat \ {0} /\ MaxTries \in Nat \ {0} /\ NSlots \in Nat
  /\ Payloads \subseteq Seq({"plain", "gated", "denied", "empty"})
  /\ HasFallback \in BOOLEAN /\ MaxUpsets \in Nat

VARIABLES
  exec,      \* progress of each execution
  ledger,    \* rows of model_invocations of the task
  answered,  \* model calls that were answered
  unwritten, \* of them, those the row of which was lost
  slotRow,   \* the lease row of each slot, and the execution that holds it now, or NoOne
  lapses,    \* leases that their holder lost
  overtaken, \* history: rows taken that were not any more what had been read of them
  ran,       \* commands that were run: what policy says of each, approved or not
  upsets

executionVars == <<exec, ledger, answered, unwritten, slotRow, lapses, overtaken, ran, upsets>>

SlotIds == 1..NSlots
NoOne == 0
\* A row is absent until its slot is first taken, open while released_at is null.
NoRow == [state |-> "absent", holder |-> NoOne]
FreshExec == [pc |-> "idle", tries |-> 0, slot |-> 0, read |-> NoRow, at |-> 1, approved |-> FALSE,
              class |-> "none", payload |-> <<>>]

Is(e, pc) == exec[e].pc = pc
To(e, pc) == exec' = [exec EXCEPT ![e].pc = pc]
\* An outcome; an exception that leaves the activity has none.
FailWith(e, class) == exec' = [exec EXCEPT ![e].pc = "ended", ![e].class = class]
Upset == upsets < MaxUpsets /\ upsets' = upsets + 1

\* ---- budget and model --------------------------------------------------
\* Mutant of Exhausted: one call more.
BudgetPassed == ledger > CallBudget

Exhausted == ledger >= CallBudget

CheckBudget(e) ==
  /\ Is(e, "idle")
  /\ IF Exhausted THEN FailWith(e, "BUDGET_EXCEEDED") ELSE To(e, "model")
  /\ UNCHANGED <<ledger, answered, unwritten, slotRow, lapses, overtaken, ran, upsets>>

ModelAnswers(e) ==
  /\ exec[e].pc \in {"model", "fallback"}
  /\ answered' = answered + 1 /\ To(e, "record")
  /\ UNCHANGED <<ledger, unwritten, slotRow, lapses, overtaken, ran, upsets>>

\* A transient failure is tried again; the last one, or a permanent one, goes
\* to the fallback route once, or leaves the activity as an exception.
ModelFails(e) ==
  /\ Is(e, "model")
  /\ \/ exec[e].tries + 1 < MaxTries /\ exec' = [exec EXCEPT ![e].tries = @ + 1]
     \/ HasFallback /\ To(e, "fallback")
     \/ ~ HasFallback /\ FailWith(e, "exception")
  /\ UNCHANGED <<ledger, answered, unwritten, slotRow, lapses, overtaken, ran, upsets>>

FallbackFails(e) ==
  /\ Is(e, "fallback") /\ FailWith(e, "exception")
  /\ UNCHANGED <<ledger, answered, unwritten, slotRow, lapses, overtaken, ran, upsets>>

\* record_invocation: a row for the answered call, committed at once
RowWritten == ledger' = ledger + 1

\* Accounting never breaks a run: a row that cannot be written is left out.
RecordInvocation(e) ==
  /\ Is(e, "record") /\ To(e, "slot")
  /\ \/ RowWritten /\ UNCHANGED <<unwritten, upsets>>
     \/ Upset /\ unwritten' = unwritten + 1 /\ UNCHANGED ledger
  /\ UNCHANGED <<answered, slotRow, lapses, overtaken, ran>>

\* ---- the slot ----------------------------------------------------------
\* acquire_slot goes through the slots; acquire reads the row without a lock: an
\* active lease is a conflict, and the next slot is tried.
ReadSlot(e) ==
  LET s == exec[e].slot + 1
  IN /\ Is(e, "slot")
     /\ \/ s > NSlots /\ FailWith(e, "QUOTA_EXCEEDED")
        \/ s <= NSlots /\ slotRow[s].holder # NoOne /\ exec' = [exec EXCEPT ![e].slot = s]
        \/ /\ s <= NSlots /\ slotRow[s].holder = NoOne
           /\ exec' = [exec EXCEPT ![e].pc = "take", ![e].slot = s, ![e].read = slotRow[s]]
     /\ UNCHANGED <<ledger, answered, unwritten, slotRow, lapses, overtaken, ran, upsets>>

\* What the update leaves: a column that has the value it was read with is not
\* written, so that a row read open and released since stays released.
RowTaken(e, read, now) ==
  IF read.state = "open" /\ now.state = "released" THEN now ELSE [state |-> "open", holder |-> e]

\* _apply_holding and the commit.  Only the insert of a row can collide, and is
\* read again; an update takes the row from whoever has taken it since.
TakeSlot(e) ==
  LET s == exec[e].slot
      read == exec[e].read
      now == slotRow[s]
  IN /\ Is(e, "take")
     /\ \/ /\ read.state = "absent" /\ now.state # "absent"
           /\ exec' = [exec EXCEPT ![e].pc = "slot", ![e].slot = s - 1]
           /\ UNCHANGED <<slotRow, overtaken>>
        \/ /\ ~ (read.state = "absent" /\ now.state # "absent")
           /\ slotRow' = [slotRow EXCEPT ![s] = RowTaken(e, read, now)]
           /\ overtaken' = IF now = read THEN overtaken ELSE overtaken + 1
           /\ \E p \in Payloads : exec' = [exec EXCEPT ![e].pc = "command", ![e].payload = p]
     /\ UNCHANGED <<ledger, answered, unwritten, lapses, ran, upsets>>

\* The lease runs out after an hour, under a holder that works on or is dead; or it
\* is marked released by a sweep that had read it run out, before it was taken again.
LapseSlot(s) ==
  /\ slotRow[s].holder # NoOne /\ Upset
  /\ \E state \in {"open", "released"} :
       slotRow' = [slotRow EXCEPT ![s] = [state |-> state, holder |-> NoOne]]
  /\ lapses' = lapses + 1
  /\ UNCHANGED <<exec, ledger, answered, unwritten, overtaken, ran>>

\* expire_stale marks what has run out.
SweepSlot(s) ==
  /\ slotRow[s] = [state |-> "open", holder |-> NoOne]
  /\ slotRow' = [slotRow EXCEPT ![s].state = "released"]
  /\ UNCHANGED <<exec, ledger, answered, unwritten, lapses, overtaken, ran, upsets>>

\* release by the row's id, if it is active: a lease without a holder_agent_id is
\* anybody's
ReleaseSlot(e) ==
  slotRow' = [slotRow EXCEPT ![exec[e].slot] =
                IF @.holder = NoOne THEN @ ELSE [state |-> "released", holder |-> NoOne]]

Leave(e) ==
  /\ Is(e, "release") /\ ReleaseSlot(e)
  /\ exec' = [exec EXCEPT ![e] = [FreshExec EXCEPT !.pc = "ended", !.class = exec[e].class]]
  /\ UNCHANGED <<ledger, answered, unwritten, lapses, overtaken, ran, upsets>>

\* ---- the commands ------------------------------------------------------
Payload(e) == exec[e].payload
Command(e) == Payload(e)[exec[e].at]
Commands(e) == Is(e, "command") /\ exec[e].at <= Len(Payload(e))
Stop(e, class) == exec' = [exec EXCEPT ![e].pc = "release", ![e].class = class]

\* check_policy, with the approval of this invocation only
Denied(e) == Command(e) = "denied"
NeedsApproval(e) == Command(e) = "gated" /\ ~ exec[e].approved

\* success, a failure, a timeout, or an exception (no such executable, no argv)
GoToNext(e) == exec' = [exec EXCEPT ![e].at = @ + 1, ![e].approved = FALSE]

Invoke(e) ==
  /\ Commands(e) /\ ~ Denied(e) /\ ~ NeedsApproval(e) /\ Command(e) # "empty"
  /\ ran' = ran \union {[command |-> Command(e), approved |-> exec[e].approved]}
  /\ \/ GoToNext(e)
     \/ \E class \in {"failed", "timeout", "exception"} : Stop(e, class)
  /\ UNCHANGED <<ledger, answered, unwritten, slotRow, lapses, overtaken, upsets>>

InvokeEmpty(e) ==
  /\ Commands(e) /\ Command(e) = "empty" /\ Stop(e, "exception")
  /\ UNCHANGED <<ledger, answered, unwritten, slotRow, lapses, overtaken, ran, upsets>>

Deny(e) ==
  /\ Commands(e) /\ Denied(e) /\ Stop(e, "SECURITY_BLOCK")
  /\ UNCHANGED <<ledger, answered, unwritten, slotRow, lapses, overtaken, ran, upsets>>

\* hitl_gate (module HitlGate): approved, or not by rejection or timeout
Gate(e) ==
  /\ Commands(e) /\ NeedsApproval(e)
  /\ \/ exec' = [exec EXCEPT ![e].approved = TRUE]
     \/ Stop(e, "SECURITY_BLOCK")
  /\ UNCHANGED <<ledger, answered, unwritten, slotRow, lapses, overtaken, ran, upsets>>

AllDone(e) ==
  /\ Is(e, "command") /\ exec[e].at > Len(Payload(e))
  /\ Stop(e, "none")
  /\ UNCHANGED <<ledger, answered, unwritten, slotRow, lapses, overtaken, ran, upsets>>

\* The next attempt of the task, on the same lane.
AgainExecution(e) ==
  /\ exec[e].pc \in {"ended", "dead"} /\ exec' = [exec EXCEPT ![e] = FreshExec]
  /\ UNCHANGED <<ledger, answered, unwritten, slotRow, lapses, overtaken, ran, upsets>>

DieExecution(e) ==
  /\ exec[e].pc \notin {"idle", "ended", "dead"} /\ Upset
  /\ exec' = [exec EXCEPT ![e] = [FreshExec EXCEPT !.pc = "dead"]]
  /\ unwritten' = IF Is(e, "record") THEN unwritten + 1 ELSE unwritten
  /\ UNCHANGED <<ledger, answered, slotRow, lapses, overtaken, ran>>

----------------------------------------------------------------------------
ExecutionInit ==
  /\ exec = [e \in Executions |-> FreshExec]
  /\ ledger = 0 /\ answered = 0 /\ unwritten = 0 /\ lapses = 0 /\ overtaken = 0 /\ upsets = 0
  /\ slotRow = [s \in SlotIds |-> NoRow] /\ ran = {}

Execute(e) ==
  \/ CheckBudget(e) \/ ModelAnswers(e) \/ ModelFails(e) \/ FallbackFails(e) \/ RecordInvocation(e)
  \/ ReadSlot(e) \/ TakeSlot(e) \/ Invoke(e) \/ InvokeEmpty(e) \/ Deny(e) \/ Gate(e) \/ AllDone(e) \/ Leave(e)
ExecutionNext ==
  \/ \E e \in Executions : Execute(e) \/ DieExecution(e) \/ AgainExecution(e)
  \/ \E s \in SlotIds : LapseSlot(s) \/ SweepSlot(s)

Running == {e \in Executions : exec[e].pc \in {"command", "release"}}

\* The bounds of the work on a task, under executions that run at once:
\* the model answers at most one call beyond the budget for each further
\* lane of attempts, and one for each row not written;
\* no more executions run than there are slots, but for leases that were lost and
\* rows that were taken by two who had both read them free;
\* a command that needs a human's approval ran with one of its own.
SpendBounded == answered <= CallBudget + Cardinality(Executions) - 1 + unwritten
QuotaHolds == Cardinality(Running) <= NSlots + lapses + overtaken
GatedWasApproved == \A c \in ran :
  c.approved <=> c.command = "gated"
WorkBounded == SpendBounded /\ QuotaHolds /\ GatedWasApproved

\* "Bounded concurrency per project" (executions.py).  The code does not keep this:
\* two executions read one released slot before either takes it.
QuotaBinds == lapses = 0 => Cardinality(Running) <= NSlots
=============================================================================
