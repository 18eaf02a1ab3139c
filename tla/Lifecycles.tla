----------------------------- MODULE Lifecycles -----------------------------
(***************************************************************************)
(* The two transition matrices every other module refers to: the status of *)
(* a task row (TASK_TRANSITIONS) and the state of an agent row (spec §12,  *)
(* TRANSITIONS).  Both are plain tables; the code asserts a transition     *)
(* against them before most, not all, of its writes.                       *)
(***************************************************************************)
EXTENDS Naturals, FiniteSets

\* TASK_TRANSITIONS, one successor set per status.
TaskSuccessors ==
  [ pending   |-> {"ready", "cancelled"},
    ready     |-> {"running", "blocked", "cancelled"},
    running   |-> {"blocked", "completed", "failed", "cancelled"},
    blocked   |-> {"ready", "running", "failed", "cancelled"},
    failed    |-> {"ready", "running", "cancelled"},
    completed |-> {},
    cancelled |-> {} ]

TaskStatus == DOMAIN TaskSuccessors

\* assert_task_transition: a status is not its own successor.
LawfulTask(from, to) == to \in TaskSuccessors[from]

\* Nothing leaves these; "failed" is re-enterable by a retry.
FinalStatus == {s \in TaskStatus : TaskSuccessors[s] = {}}

\* Statuses _reconcile_terminal_failure and the dependency check call terminal.
SettledStatus == FinalStatus \cup {"failed"}

\* lifecycle.TRANSITIONS.
AgentSuccessors ==
  [ created         |-> {"planning", "running", "cancelled"},
    planning        |-> {"running", "failed", "cancelled"},
    running         |-> {"waiting", "blocked", "pause_requested", "verifying",
                         "failed", "cancelled"},
    waiting         |-> {"running", "blocked", "failed", "cancelled"},
    blocked         |-> {"running", "failed", "cancelled"},
    pause_requested |-> {"paused", "running", "cancelled"},
    draining        |-> {"paused", "running", "cancelled"},
    paused          |-> {"resuming", "cancelled"},
    resuming        |-> {"running", "failed", "cancelled"},
    verifying       |-> {"completed", "running", "failed", "cancelled"},
    failed          |-> {"recovering", "cancelled"},
    recovering      |-> {"running", "planning", "failed", "cancelled"},
    completed       |-> {},
    cancelled       |-> {} ]

AgentState == DOMAIN AgentSuccessors

\* can_transition / assert_transition.
LawfulAgent(from, to) == to \in AgentSuccessors[from]
=============================================================================
