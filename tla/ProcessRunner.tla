--------------------------- MODULE ProcessRunner ---------------------------
(***************************************************************************)
(* One command of an agent or of the editor (runtime/runner.py, and the    *)
(* docker backend of runtime/runtimes.py): the process, what it starts,    *)
(* the two pipes, the timeout and the kill.  run_process waits for the     *)
(* process and for the end of both pipes, which every process that has     *)
(* inherited them holds open.                                              *)
(***************************************************************************)
EXTENDS Naturals, FiniteSets

CONSTANTS
  Processes,   \* processes the command may start besides the first
  MaxKills     \* bound: cancellations of the caller

ASSUME RunnerAssumption == MaxKills \in Nat

VARIABLES
  leader,    \* the process run_process has started: "none", "alive", "exited"
  child,     \* the others: "none", "group" (of the process group, pipes held),
             \* "quiet" (of the group, pipes closed), "apart" (a container, or a
             \* session of its own), "gone"
  runner,    \* progress of run_process
  kills

runnerVars == <<leader, child, runner, kills>>

Children(state) == {p \in Processes : child[p] = state}
PipesOpen == leader = "alive" \/ Children("group") # {}
Completed == leader = "exited" /\ ~ PipesOpen

\* ---- the command -------------------------------------------------------
StartProcess ==
  /\ runner.pc = "idle"
  /\ leader' = "alive" /\ child' = [p \in Processes |-> "none"]
  /\ runner' = [pc |-> "wait", timedOut |-> FALSE, reached |-> FALSE]
  /\ UNCHANGED kills

Fork(p, kind) ==
  /\ leader = "alive" \/ Children("group") \union Children("quiet") # {}
  /\ child[p] = "none" /\ runner.pc \in {"wait", "kill", "drain"}
  /\ child' = [child EXCEPT ![p] = kind]
  /\ UNCHANGED <<leader, runner, kills>>

LeaderExits ==
  /\ leader = "alive" /\ leader' = "exited"
  /\ UNCHANGED <<child, runner, kills>>

ChildExits(p) ==
  /\ child[p] \in {"group", "quiet", "apart"}
  /\ child' = [child EXCEPT ![p] = "gone"]
  /\ UNCHANGED <<leader, runner, kills>>

\* ---- run_process -------------------------------------------------------
Complete ==
  /\ runner.pc = "wait" /\ Completed
  /\ runner' = [runner EXCEPT !.pc = "done"]
  /\ UNCHANGED <<leader, child, kills>>

\* The time is up; a command that has just completed may be reported either way.
TimeOut ==
  /\ runner.pc = "wait"
  /\ runner' = [runner EXCEPT !.pc = "kill", !.timedOut = TRUE]
  /\ UNCHANGED <<leader, child, kills>>

\* The caller is cancelled, and cancellation is raised again in the end.
CancelRun ==
  /\ runner.pc = "wait" /\ kills < MaxKills
  /\ kills' = kills + 1 /\ runner' = [runner EXCEPT !.pc = "kill"]
  /\ UNCHANGED <<leader, child>>

\* killpg ends the group, if the first process has not been seen to exit.
EndGroup ==
  /\ leader' = "exited"
  /\ child' = [p \in Processes |-> IF child[p] \in {"group", "quiet"} THEN "gone" ELSE child[p]]

KillTree ==
  /\ runner.pc = "kill"
  /\ \/ leader = "alive" /\ EndGroup /\ runner' = [runner EXCEPT !.pc = "drain", !.reached = TRUE]
     \/ leader = "exited" /\ runner' = [runner EXCEPT !.pc = "drain"] /\ UNCHANGED <<leader, child>>
  /\ UNCHANGED kills

\* Mutant of Drain: it waits for the end of both pipes.
DrainToTheEnd == Completed /\ runner' = [runner EXCEPT !.pc = "done"]

\* The pipes may stay open after the kill: the drains get five seconds.
Drain == runner' = [runner EXCEPT !.pc = "done"]

FinishDrain ==
  /\ runner.pc = "drain" /\ Drain
  /\ UNCHANGED <<leader, child, kills>>

\* The caller takes the result; the command leaves nothing the runner knows of.
TakeResult ==
  /\ runner.pc = "done"
  /\ runner' = [pc |-> "idle", timedOut |-> FALSE, reached |-> FALSE]
  /\ leader' = "none" /\ child' = [p \in Processes |-> "none"]
  /\ UNCHANGED kills

----------------------------------------------------------------------------
RunnerInit ==
  /\ leader = "none" /\ child = [p \in Processes |-> "none"] /\ kills = 0
  /\ runner = [pc |-> "idle", timedOut |-> FALSE, reached |-> FALSE]

RunNext == Complete \/ TimeOut \/ KillTree \/ FinishDrain
RunnerNext ==
  \/ StartProcess \/ RunNext \/ CancelRun \/ TakeResult \/ LeaderExits
  \/ \E p \in Processes : ChildExits(p) \/ \E kind \in {"group", "quiet", "apart"} : Fork(p, kind)

\* The event loop goes on: a timer that has run out fires, a ready task runs.
RunnerFairness == WF_runnerVars(RunNext)

\* After a timeout that found the first process alive nothing of its process
\* group is left ("Terminate the whole process tree").
GroupEnds == runner.pc \in {"drain", "done"} /\ runner.reached => Children("group") \union Children("quiet") = {}

\* run_process comes back whatever the command does: a process that never ends,
\* one that keeps the pipes open after the kill, one that is out of reach; and
\* what it has reached has ended by then.
RunsEnd == (runner.pc = "wait" ~> runner.pc = "done") /\ []GroupEnds

\* No process of the command outlives its timeout.  The code does not keep this:
\* a first process that has exited stops the kill, a container is never reached.
NoneOutlivesTimeout == runner.pc = "done" /\ runner.timedOut => Children("group") \union Children("apart") = {}
=============================================================================
