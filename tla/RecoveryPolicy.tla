--------------------------- MODULE RecoveryPolicy ---------------------------
(***************************************************************************)
(* The pure policy core of recovery (services/orchestration/recovery.py):  *)
(* which action follows a failure of a given class when a given number of  *)
(* attempts is left.  The workflow computes Decision and executes it.      *)
(***************************************************************************)
EXTENDS Integers, FiniteSets

\* _CLASS_ACTIONS: the action of each class while attempts remain.
ClassAction ==
  [ MODEL_FAILURE       |-> "retry_alternate_model",
    TOOL_FAILURE        |-> "retry_if_safe",
    ENVIRONMENT_FAILURE |-> "recreate_runtime",
    CONTEXT_FAILURE     |-> "rebuild_context",
    TASK_FAILURE        |-> "retry_then_replan",
    TIMEOUT             |-> "retry_then_replan",
    DEPENDENCY_FAILURE  |-> "wait_for_dependency",
    MERGE_CONFLICT      |-> "create_integration_task",
    RESOURCE_LIMIT      |-> "throttle_then_retry",
    QUOTA_EXCEEDED      |-> "throttle_then_retry",
    BUDGET_EXCEEDED     |-> "stop",
    HITL_TIMEOUT        |-> "stop",
    SECURITY_BLOCK      |-> "stop" ]

FailureClass == DOMAIN ClassAction

NonRetryable == {"SECURITY_BLOCK", "HITL_TIMEOUT", "BUDGET_EXCEEDED"}

\* _LAST_ATTEMPT_ACTIONS: what replaces the class action when exactly one
\* attempt remains.
LastAttemptAction ==
  [ MODEL_FAILURE  |-> "escalate_model",
    TOOL_FAILURE   |-> "replace_agent",
    TASK_FAILURE   |-> "spawn_debugger",
    RESOURCE_LIMIT |-> "request_hitl" ]

LadderEnd == "escalate_or_replan"

BudgetSensitive == {"retry_alternate_model", "escalate_model", "replace_agent",
                    "spawn_debugger", "escalate_or_replan"}

Action == {ClassAction[c] : c \in FailureClass}
            \cup {LastAttemptAction[c] : c \in DOMAIN LastAttemptAction}
            \cup {LadderEnd}

IsRetryable(class) == class \notin NonRetryable /\ ClassAction[class] # "stop"

\* max(0, max_attempts - attempt_number), with attempt_number at least 1.
AttemptsLeft(attempt, max) ==
  LET spent == IF attempt < 1 THEN 1 ELSE attempt
  IN  IF spent < max THEN max - spent ELSE 0

\* recovery_decision's if/elif ladder.
ActionFor(class, left) ==
  CASE ~IsRetryable(class) -> ClassAction[class]
    [] IsRetryable(class) /\ left = 0 -> LadderEnd
    [] IsRetryable(class) /\ left = 1 /\ class \in DOMAIN LastAttemptAction
         -> LastAttemptAction[class]
    [] OTHER -> ClassAction[class]

Decision(class, attempt, max) ==
  LET left   == AttemptsLeft(attempt, max)
      action == ActionFor(class, left)
  IN  [ action           |-> action,
        attempts_left    |-> left,
        retryable        |-> IsRetryable(class)
                               /\ action \notin {LadderEnd, "spawn_debugger"},
        budget_sensitive |-> action \in BudgetSensitive ]
=============================================================================
