-------------------------- MODULE MCTaskExecution --------------------------
(***************************************************************************)
(* Instances of TaskExecution for TLC.  The configurations choose among    *)
(* these failure classes.                                                  *)
(***************************************************************************)
EXTENDS TaskExecution

\* Every class agent_execute_activity can report; HITL_TIMEOUT is in the
\* table but nothing emits it.
EmittedClasses == FailureClass \ {"HITL_TIMEOUT"}

OneClass        == {"TIMEOUT"}
=============================================================================
