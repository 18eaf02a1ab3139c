------------------------ MODULE TaskExecution_proofs ------------------------
(***************************************************************************)
(* Theorems about TaskExecution, for every number of attempts, tries and   *)
(* faults, every set of failure classes and every set of requests.         *)
(***************************************************************************)
EXTENDS TaskExecution, TLAPS, SequenceTheorems

-----------------------------------------------------------------------------
(* The program text is well-typed.                                         *)

LEMMA StatusArgType == \A l \in DOMAIN StatusArg : StatusArg[l] \in TaskStatus
  BY DEF StatusArg, TaskStatus, TaskSuccessors

LEMMA CompletedArg == \A l \in DOMAIN StatusArg : StatusArg[l] = "completed" => l = "complete"
  BY DEF StatusArg

LEMMA AgentArgType == \A l \in DOMAIN AgentArg : AgentArg[l] \in AgentState
  BY DEF AgentArg, AgentState, AgentSuccessors

LEMMA FollowsType == \A l \in DOMAIN Follows : Follows[l] \in Labels
  BY DEF Follows, Labels, StatusArg, AgentArg, Notes, Reconciling, Parked

LEMMA DispatchType == \A a : Dispatch(a) \in Labels \ {"terminal"}
  BY DEF Dispatch, Labels, StatusArg, AgentArg, Notes, Reconciling, Parked

\* Where errors lead, for the calls that reconcile and for the others.
Errors == {"closed", "rLoad", "rTerminal", "rCancel", "rRun", "rFail", "rNote"}

LEMMA OnErrorType == \A l : OnError(l) \in Errors
  BY DEF OnError, RTarget, Errors

LEMMA ErrorsType == Errors \subseteq Labels
  BY DEF Errors, Labels, Reconciling

-----------------------------------------------------------------------------
(* What the building blocks of an action do to the call and the counters.  *)

LEMMA GotoCall ==
  ASSUME CallOK, NEW l \in Labels, Goto(l)
  PROVE  CallOK'
  BY BoundsAssumption DEF CallOK, Goto, NoStatus

LEMMA CloseCall ==
  ASSUME CallOK, NEW how \in {"returned", "raised"}, Close(how)
  PROVE  CallOK' /\ pc' = "closed"
  BY BoundsAssumption DEF CallOK, Close, NoStatus, Labels, Local

\* A failed delivery repeats the call or leads to reconciliation.
LEMMA RedeliverCall ==
  ASSUME CallOK, Redeliver
  PROVE  CallOK' /\ pc' \in {pc} \cup Errors
  <1>1. CASE pc \notin Once /\ tries + 1 < MaxTries
    BY <1>1, BoundsAssumption DEF CallOK, Redeliver, NoStatus
  <1>2. CASE ~(pc \notin Once /\ tries + 1 < MaxTries) /\ OnError(pc) = "closed"
    BY <1>2, CloseCall DEF Redeliver, Errors
  <1>3. CASE ~(pc \notin Once /\ tries + 1 < MaxTries) /\ OnError(pc) # "closed"
    <2>1. Goto(OnError(pc))
      BY <1>3 DEF Redeliver
    <2>2. OnError(pc) \in Errors /\ OnError(pc) \in Labels
      BY OnErrorType, ErrorsType
    <2>3. CallOK'
      BY <2>1, <2>2, GotoCall
    <2> QED
      BY <2>1, <2>2, <2>3 DEF Goto
  <1> QED
    BY <1>1, <1>2, <1>3

\* Overwriting a row keeps the sequence of rows well-formed, whatever the index.
LEMMA OverwriteRow ==
  ASSUME NEW S, NEW rows \in Seq(S), NEW i, NEW row \in S
  PROVE  /\ [rows EXCEPT ![i] = row] \in Seq(S)
         /\ Len([rows EXCEPT ![i] = row]) = Len(rows)
  <1>1. CASE i \in 1..Len(rows)
    BY <1>1, ExceptSeq
  <1>2. CASE i \notin 1..Len(rows)
    <2>1. [rows EXCEPT ![i] = row] = rows
      BY <1>2
    <2> QED
      BY <2>1
  <1> QED
    BY <1>1, <1>2

LEMMA AppendNewRow ==
  ASSUME NEW S, NEW rows \in Seq(S), NEW row \in S
  PROVE  AppendNew(rows, row) \in Seq(S)
  BY DEF AppendNew

LEMMA KeysType == RunOK /\ EnvOK => RecoveryKey \in Key /\ ReconcileKey \in Key
  BY BoundsAssumption DEF RunOK, EnvOK, RecoveryKey, ReconcileKey, Key

LEMMA FaultCount ==
  ASSUME faults \in 0..MaxFaults, Fault
  PROVE  faults' \in 0..MaxFaults
  BY BoundsAssumption DEF Fault

-----------------------------------------------------------------------------
(* Type correctness.                                                       *)

LEMMA TypeInit == Init => TypeOK
  <1> SUFFICES ASSUME Init PROVE TypeOK
    OBVIOUS
  <1>1. RowsOK
    BY DEF Init, RowsOK, TaskStatus, TaskSuccessors
  <1>2. RunOK
    BY BoundsAssumption DEF Init, RunOK, NoStatus, NoAction
  <1>3. CallOK
    BY BoundsAssumption DEF Init, CallOK, Labels, Local, NoStatus
  <1>4. EnvOK
    <2>1. doomed \in 0..Len(agents)
      BY DEF Init
    <2>2. req \in [Requests -> {"new", "planned", "started", "write", "wrote", "done"}]
      BY DEF Init
    <2>3. paused \in BOOLEAN
      BY DEF Init
    <2>4. 0 \in 0..MaxFaults /\ 0 \in 0..MaxPauses /\ 0 \in 0..MaxStale
      BY BoundsAssumption
    <2>5. run \in Nat /\ strays \in Nat /\ execs \in Nat
      BY DEF Init
    <2>6. faults \in 0..MaxFaults /\ pauses \in 0..MaxPauses /\ stale \in 0..MaxStale
      BY <2>4 DEF Init
    <2> QED
      BY <2>1, <2>2, <2>3, <2>5, <2>6 DEF EnvOK
  <1> QED
    BY <1>1, <1>2, <1>3, <1>4 DEF TypeOK

\* Rows: an activity writes values of the right kind.
LEMMA RowsStep ==
  ASSUME TypeOK, OutcomeTracked, [Next]_vars
  PROVE  RowsOK'
  <1> USE DEF TypeOK
  <1>1. CASE LoadTask
    BY <1>1 DEF LoadTask, RowsOK, dbVars, Deliver
  <1>2. CASE ReadStatus
    BY <1>2 DEF ReadStatus, RowsOK, dbVars
  <1>3. CASE WriteStatus
    BY StatusArgType, <1>3 DEF WriteStatus, RowsOK, dbVars, Deliver
  <1>4. CASE StartAttempt
    BY <1>4 DEF StartAttempt, RowsOK, dbVars, Deliver, Outcome
  <1>5. CASE StartAgent
    BY <1>5 DEF StartAgent, RowsOK, dbVars, Deliver, AgentState, AgentSuccessors
  <1>6. CASE SetAgentState
    <2>1. CASE UNCHANGED dbVars
      BY <2>1 DEF dbVars, RowsOK
    <2>2. CASE agents' = [agents EXCEPT ![ag] = AgentArg[pc]]
                 /\ UNCHANGED <<status, attempts, children, terminal, announced>>
      <3>1. AgentArg[pc] \in AgentState
        BY <1>6, AgentArgType DEF SetAgentState
      <3>2. agents' \in Seq(AgentState)
        BY <2>2, <3>1, OverwriteRow DEF RowsOK
      <3> QED
        BY <2>2, <3>2 DEF RowsOK
    <2> QED
      BY <1>6, <2>1, <2>2 DEF SetAgentState, Deliver
  <1>7. CASE Execute
    BY <1>7 DEF Execute, RowsOK, dbVars
  <1>8. CASE FinishAttempt
    BY <1>8 DEF FinishAttempt, RowsOK, dbVars, Deliver, OutcomeTracked, Outcome,
       AbandonedOutcome, RunOK
  <1>9. CASE Note
    <2>1. announced' \in {announced, Append(announced, RecoveryKey)}
      BY <1>9 DEF Note, Deliver
    <2>2. announced' \in Seq(Key)
      <3>1. RecoveryKey \in Key /\ announced \in Seq(Key)
        BY KeysType DEF RowsOK
      <3> HIDE DEF TypeOK
      <3> QED
        BY <2>1, <3>1
    <2> QED
      BY <1>9, <2>2 DEF Note, Deliver, RowsOK
  <1>10. CASE SelectRecovery
    BY <1>10 DEF SelectRecovery, RowsOK, dbVars, Deliver
  <1>11. CASE CheckBudget
    BY <1>11 DEF CheckBudget, RowsOK, dbVars, Deliver
  <1>12. CASE Gate
    BY <1>12 DEF Gate, RowsOK, dbVars, Deliver
  <1>13. CASE FollowUp
    <2>1. children' \in Seq(Key)
      BY <1>13, KeysType, AppendNewRow DEF FollowUp, Deliver, RowsOK
    <2> QED
      BY <1>13, <2>1 DEF FollowUp, Deliver, RowsOK
  <1>14. CASE RecordTerminal
    <2>1. terminal' = AppendNew(terminal,
              IF pc = "terminal" THEN RecoveryKey ELSE ReconcileKey)
      BY <1>14 DEF RecordTerminal, Deliver
    <2>2. terminal' \in Seq(Key)
      BY <2>1, KeysType, AppendNewRow DEF RowsOK
    <2> QED
      BY <1>14, <2>2 DEF RecordTerminal, Deliver, RowsOK
  <1>15. CASE EndSession
    BY OverwriteRow, <1>15 DEF EndSession, RowsOK, dbVars, Deliver, AgentState,
       AgentSuccessors
  <1>16. CASE CheckDependencies
    BY <1>16 DEF CheckDependencies, RowsOK, dbVars, Deliver
  <1>17. CASE ReconcileLoad
    BY <1>17 DEF ReconcileLoad, RowsOK, dbVars, Deliver
  <1>18. CASE LeaveCheckpoint
    BY <1>18 DEF LeaveCheckpoint, RowsOK, dbVars
  <1>19. CASE LeaveDependencyWait
    BY <1>19 DEF LeaveDependencyWait, RowsOK, dbVars
  <1>20. CASE NextAttempt
    BY <1>20 DEF NextAttempt, RowsOK, dbVars
  <1>21. CASE CrashBefore
    BY <1>21 DEF CrashBefore, RowsOK, dbVars
  <1>22. CASE StrayEnds
    BY <1>22 DEF StrayEnds, RowsOK, dbVars
  <1>23. CASE SignalPause
    BY <1>23 DEF SignalPause, RowsOK, dbVars
  <1>24. CASE SignalResume
    BY <1>24 DEF SignalResume, RowsOK, dbVars
  <1>25. CASE Supervise
    <2>1. CASE FindStale
      BY <2>1 DEF FindStale, RowsOK, dbVars
    <2>2. CASE MarkLost
      <3>1. "failed" \in AgentState
        BY DEF AgentState, AgentSuccessors
      <3>2. agents' \in Seq(AgentState)
        BY <2>2, <3>1, OverwriteRow DEF MarkLost, RowsOK
      <3> QED
        BY <2>2, <3>2 DEF MarkLost, RowsOK
    <2> QED
      BY <1>25, <2>1, <2>2 DEF Supervise
  <1>26. CASE Client
    BY <1>26 DEF Client, RowsOK, dbVars, ExecuteRequest, TickRequest, DirectRequest,
       CancelRequest, Start, Touch, WriteBack, TaskStatus, TaskSuccessors
  <1>27. CASE UNCHANGED vars
    BY <1>27 DEF vars, RowsOK, dbVars
  <1> QED
    BY <1>1, <1>2, <1>3, <1>4, <1>5, <1>6, <1>7, <1>8, <1>9, <1>10, <1>11, <1>12, <1>13,
       <1>14, <1>15, <1>16, <1>17, <1>18, <1>19, <1>20, <1>21, <1>22, <1>23, <1>24, <1>25,
       <1>26, <1>27 DEF Next, Worker, Activity

\* Rows are only ever added.
LEMMA LengthsStep ==
  ASSUME TypeOK, OutcomeTracked, [Next]_vars
  PROVE  Len(attempts') >= Len(attempts) /\ Len(agents') >= Len(agents)
  <1> USE DEF TypeOK
  <1>1. CASE StartAttempt
    BY <1>1 DEF StartAttempt, dbVars, RowsOK, Deliver
  <1>2. CASE StartAgent
    BY <1>2 DEF StartAgent, dbVars, RowsOK, Deliver
  <1>3. CASE SetAgentState
    <2>1. AgentArg[pc] \in AgentState
      BY <1>3, AgentArgType DEF SetAgentState
    <2> QED
      BY <1>3, <2>1, OverwriteRow DEF SetAgentState, Deliver, dbVars, RowsOK
  <1>4. CASE EndSession
    <2>1. PICK row \in AgentState : agents' = [agents EXCEPT ![ag] = row]
      <3>1. "failed" \in AgentState
        BY DEF AgentState, AgentSuccessors
      <3>2. CASE agents[ag] \in {"failed", "cancelled"}
        BY <1>4, <3>2 DEF EndSession, Deliver, AgentState, AgentSuccessors
      <3>3. CASE agents[ag] \notin {"failed", "cancelled"}
        BY <1>4, <3>1, <3>3 DEF EndSession, Deliver
      <3> QED
        BY <3>2, <3>3
    <2> QED
      BY <1>4, <2>1, OverwriteRow DEF EndSession, Deliver, RowsOK
  <1>5. CASE FinishAttempt
    <2>1. PICK o \in Outcome : attempts' = [attempts EXCEPT ![att] = o]
      BY <1>5 DEF FinishAttempt, Deliver, OutcomeTracked, Outcome, AbandonedOutcome, RunOK
    <2> QED
      BY <1>5, <2>1, OverwriteRow DEF FinishAttempt, Deliver, RowsOK
  <1>6. CASE Supervise
    <2>1. "failed" \in AgentState
      BY DEF AgentState, AgentSuccessors
    <2> QED
      BY <1>6, <2>1, OverwriteRow DEF Supervise, FindStale, MarkLost, dbVars, RowsOK
  <1>7. CASE Client
    BY <1>7 DEF Client, dbVars, RowsOK, ExecuteRequest, TickRequest, DirectRequest,
       CancelRequest, Start, Touch, WriteBack
  <1>8. CASE LoadTask \/ ReadStatus \/ WriteStatus \/ Note \/ SelectRecovery \/
     CheckBudget \/ Gate \/ FollowUp \/ RecordTerminal \/ CheckDependencies \/ ReconcileLoad
    BY <1>8 DEF LoadTask, ReadStatus, WriteStatus, Note, SelectRecovery, CheckBudget, Gate,
       FollowUp, RecordTerminal, CheckDependencies, ReconcileLoad, Deliver, dbVars, RowsOK
  <1>9. CASE Execute \/ LeaveCheckpoint \/ LeaveDependencyWait \/ NextAttempt \/
     CrashBefore \/ StrayEnds \/ SignalPause \/ SignalResume
    BY <1>9 DEF Execute, LeaveCheckpoint, LeaveDependencyWait, NextAttempt, CrashBefore,
       StrayEnds, SignalPause, SignalResume, dbVars, RowsOK
  <1>10. CASE UNCHANGED vars
    BY <1>10 DEF vars, envVars, callVars, dbVars, RowsOK
  <1> QED
    BY <1>1, <1>2, <1>3, <1>4, <1>5, <1>6, <1>7, <1>8, <1>9, <1>10 DEF Next, Worker,
       Activity

\* The run keeps values of the right kind and references to rows that exist.
LEMMA RunStep ==
  ASSUME TypeOK, OutcomeTracked, [Next]_vars
  PROVE  RunOK'
  <1> USE DEF TypeOK
  <1>a. RowsOK' /\ Len(attempts') >= Len(attempts) /\ Len(agents') >= Len(agents)
    BY RowsStep, LengthsStep
  <1>b. Len(attempts) \in Nat /\ Len(agents) \in Nat /\ Len(attempts') \in Nat /\ Len(agents') \in Nat
    BY <1>a DEF RowsOK
  <1>c. UNCHANGED localVars => RunOK'
    BY <1>a, <1>b DEF localVars, RunOK
  <1>1. CASE LoadTask
    <2>1. \/ UNCHANGED localVars
          \/ loaded' = status /\ UNCHANGED <<n, att, ag, result, decision>>
      BY <1>1 DEF LoadTask, Deliver, localVars
    <2> QED
      BY <1>a, <1>b, <1>c, <2>1, SMTT(30) DEF RowsOK, RunOK
  <1>2. CASE ReconcileLoad
    <2>1. \/ UNCHANGED localVars
          \/ loaded' = status /\ UNCHANGED <<n, att, ag, result, decision>>
      BY <1>2 DEF ReconcileLoad, Deliver, localVars
    <2> QED
      BY <1>a, <1>b, <1>c, <2>1, SMTT(30) DEF RowsOK, RunOK
  <1>3. CASE StartAttempt
    <2>1. CASE UNCHANGED localVars
      BY <1>c, <2>1
    <2>2. CASE att' = Len(attempts) + 1 /\ UNCHANGED <<loaded, n, ag, result, decision>>
      <3>1. Len(attempts') = Len(attempts) + 1
        BY <1>3 DEF StartAttempt, Deliver, RowsOK
      <3> QED
        BY <1>a, <1>b, <2>2, <3>1 DEF RunOK
    <2> QED
      BY <1>3, <2>1, <2>2 DEF StartAttempt, Deliver
  <1>4. CASE StartAgent
    <2>1. CASE UNCHANGED localVars
      BY <1>c, <2>1
    <2>2. CASE ag' = Len(agents) + 1 /\ UNCHANGED <<loaded, n, att, result, decision>>
      <3>1. Len(agents') = Len(agents) + 1
        BY <1>4 DEF StartAgent, Deliver, RowsOK
      <3> QED
        BY <1>a, <1>b, <2>2, <3>1 DEF RunOK
    <2> QED
      BY <1>4, <2>1, <2>2 DEF StartAgent, Deliver
  <1>5. CASE Execute
    <2>1. CASE UNCHANGED localVars
      BY <1>c, <2>1
    <2>2. CASE \E r \in {"success"} \cup Classes :
                 /\ result' = IF r = "success" THEN "success" ELSE "failed"
                 /\ decision' = IF r = "success" THEN NoAction
                                ELSE Decision(r, n, MaxAttempts)
                 /\ UNCHANGED <<loaded, n, att, ag>>
      <3>1. PICK r \in {"success"} \cup Classes :
                 /\ result' = IF r = "success" THEN "success" ELSE "failed"
                 /\ decision' = IF r = "success" THEN NoAction
                                ELSE Decision(r, n, MaxAttempts)
                 /\ UNCHANGED <<loaded, n, att, ag>>
        BY <2>2
      <3>2. decision' \in Decisions \cup {NoAction}
        BY <3>1, ClassesAssumption DEF Decisions, RunOK
      <3> QED
        BY <1>a, <1>b, <3>1, <3>2 DEF RunOK
    <2> QED
      BY <1>5, <2>1, <2>2 DEF Execute
  <1>6. CASE NextAttempt
    <2>1. n' \in 1..MaxAttempts
      BY <1>6, BoundsAssumption DEF NextAttempt, RunOK
    <2> QED
      BY <1>6, <1>a, <1>b, <2>1 DEF NextAttempt, RunOK
  <1>7. CASE Client
    <2>1. CASE UNCHANGED localVars
      BY <1>c, <2>1
    <2>2. CASE StartRun
      BY <1>b, <2>2, BoundsAssumption DEF StartRun, RunOK
    <2> QED
      BY <1>7, <2>1, <2>2 DEF Client, ExecuteRequest, TickRequest, DirectRequest,
         CancelRequest,
         Start, Touch, WriteBack
  <1>8. CASE ReadStatus \/ WriteStatus \/ SetAgentState \/ FinishAttempt \/ Note \/
     SelectRecovery \/ CheckBudget \/ Gate \/ FollowUp \/ RecordTerminal \/
     EndSession \/ CheckDependencies
    BY <1>8, <1>c DEF ReadStatus, WriteStatus, SetAgentState, FinishAttempt, Note,
       SelectRecovery, CheckBudget, Gate, FollowUp, RecordTerminal, EndSession,
       CheckDependencies, Deliver, Then
  <1>9. CASE LeaveCheckpoint \/ LeaveDependencyWait \/ CrashBefore \/ StrayEnds \/
     SignalPause \/ SignalResume \/ Supervise \/ UNCHANGED vars
    BY <1>9, <1>c DEF LeaveCheckpoint, LeaveDependencyWait, CrashBefore, StrayEnds,
       SignalPause, SignalResume, Supervise, FindStale,
       MarkLost, vars
  <1> QED
    BY <1>1, <1>2, <1>3, <1>4, <1>5, <1>6, <1>7, <1>8, <1>9 DEF Next, Worker, Activity

\* The call stays well-formed.
LEMMA CallStep ==
  ASSUME TypeOK, OutcomeTracked, [Next]_vars
  PROVE  CallOK'
  <1> USE DEF TypeOK
  <1>a. UNCHANGED callVars => CallOK'
    BY DEF callVars, CallOK
  <1>1. CASE LoadTask
    <2>1. Redeliver \/ \E l \in Labels : Goto(l)
      BY <1>1 DEF LoadTask, Deliver, Labels, StatusArg, AgentArg, Notes, Reconciling, Parked
    <2> QED
      BY <2>1, GotoCall, RedeliverCall
  <1>2. CASE ReadStatus
    <2>1. CASE seen' = status /\ UNCHANGED <<pc, tries, closing>>
      BY <2>1 DEF CallOK, RowsOK
    <2>2. CASE Redeliver
      BY <2>2, RedeliverCall
    <2> QED
      BY <1>2, <2>1, <2>2 DEF ReadStatus
  <1>3. CASE WriteStatus
    <2>1. Follows[pc] \in Labels
      BY <1>3, FollowsType DEF WriteStatus, StatusArg, Follows
    <2> QED
      BY <1>3, <2>1, GotoCall, RedeliverCall DEF WriteStatus, Deliver, Then
  <1>4. CASE StartAttempt
    <2>1. "startAgent" \in Labels
      BY DEF Labels, StatusArg, AgentArg, Notes, Reconciling, Parked
    <2> QED
      BY <1>4, <2>1, GotoCall, RedeliverCall DEF StartAttempt, Deliver, Then
  <1>5. CASE StartAgent
    <2>1. "agentRun" \in Labels
      BY DEF Labels, StatusArg, AgentArg, Notes, Reconciling, Parked
    <2> QED
      BY <1>5, <2>1, GotoCall, RedeliverCall DEF StartAgent, Deliver, Then
  <1>6. CASE SetAgentState
    <2>1. (IF pc = "agentRun" THEN Checkpoint(pc) ELSE Follows[pc]) \in Labels
      <3>1. CASE pc = "agentRun"
        BY <3>1 DEF Checkpoint, Labels, StatusArg, AgentArg, Notes, Reconciling, Parked
      <3>2. CASE pc # "agentRun"
        BY <1>6, <3>2, FollowsType DEF SetAgentState, AgentArg, Follows
      <3> QED
        BY <3>1, <3>2
    <2> QED
      BY <1>6, <2>1, GotoCall, RedeliverCall DEF SetAgentState, Deliver, Then
  <1>7. CASE Execute
    <2>1. Checkpoint(pc) \in Labels
      BY <1>7 DEF Execute, Checkpoint, Labels, StatusArg, AgentArg, Notes, Reconciling,
         Parked
    <2> QED
      BY <1>7, <2>1, GotoCall, RedeliverCall DEF Execute
  <1>8. CASE FinishAttempt
    <2>1. Redeliver \/ \E l \in Labels : Goto(l)
      BY <1>8 DEF FinishAttempt, Deliver, Then, Labels, StatusArg, AgentArg, Notes,
         Reconciling, Parked
    <2> QED
      BY <2>1, GotoCall, RedeliverCall
  <1>9. CASE Note
    <2>1. Redeliver \/ (pc \in DOMAIN Follows /\ Goto(Follows[pc])) \/ Goto("dependents")
            \/ Close("returned") \/ Close("raised")
      BY <1>9 DEF Note, Deliver
    <2>2. "dependents" \in Labels
      BY DEF Labels, StatusArg, AgentArg, Notes, Reconciling, Parked
    <2> QED
      BY <2>1, <2>2, FollowsType, GotoCall, CloseCall, RedeliverCall
  <1>10. CASE SelectRecovery
    <2>1. Redeliver \/ \E l \in Labels : Goto(l)
      BY <1>10 DEF SelectRecovery, Deliver, Then, Labels, StatusArg, AgentArg, Notes,
         Reconciling, Parked
    <2> QED
      BY <2>1, GotoCall, RedeliverCall
  <1>11. CASE CheckBudget
    <2>1. Redeliver \/ \E l \in Labels : Goto(l)
      BY <1>11, DispatchType DEF CheckBudget, Deliver, Then, Labels, StatusArg, AgentArg,
         Notes, Reconciling, Parked
    <2> QED
      BY <2>1, GotoCall, RedeliverCall
  <1>12. CASE Gate
    <2>1. Redeliver \/ \E l \in Labels : Goto(l)
      BY <1>12, DispatchType DEF Gate, Deliver, Then, Labels, StatusArg, AgentArg, Notes,
         Reconciling, Parked
    <2> QED
      BY <2>1, GotoCall, RedeliverCall
  <1>13. CASE FollowUp
    <2>1. "terminal" \in Labels
      BY DEF Labels, StatusArg, AgentArg, Notes, Reconciling, Parked
    <2> QED
      BY <1>13, <2>1, GotoCall, RedeliverCall DEF FollowUp, Deliver, Then
  <1>14. CASE RecordTerminal
    <2>1. RTarget \in Labels /\ "fail" \in Labels
      BY DEF RTarget, Labels, StatusArg, AgentArg, Notes, Reconciling, Parked
    <2> QED
      BY <1>14, <2>1, GotoCall, RedeliverCall DEF RecordTerminal, Deliver, Then
  <1>15. CASE EndSession
    <2>1. "announce" \in Labels
      BY DEF Labels, StatusArg, AgentArg, Notes, Reconciling, Parked
    <2> QED
      BY <1>15, <2>1, GotoCall, RedeliverCall DEF EndSession, Deliver, Then
  <1>16. CASE CheckDependencies
    <2>1. Redeliver \/ \E l \in Labels : Goto(l)
      BY <1>16 DEF CheckDependencies, Deliver, Then, Labels, StatusArg, AgentArg, Notes,
         Reconciling, Parked
    <2> QED
      BY <2>1, GotoCall, RedeliverCall
  <1>17. CASE ReconcileLoad
    <2>1. Redeliver \/ Close("raised") \/ Goto("rFinish") \/ Goto("rTerminal")
      BY <1>17 DEF ReconcileLoad, Deliver
    <2>2. "rFinish" \in Labels /\ "rTerminal" \in Labels
      BY DEF Labels, StatusArg, AgentArg, Notes, Reconciling, Parked
    <2> QED
      BY <2>1, <2>2, GotoCall, CloseCall, RedeliverCall
  <1>18. CASE LeaveCheckpoint
    <2>1. \E l \in Labels : Goto(l)
      BY <1>18 DEF LeaveCheckpoint, Labels, StatusArg, AgentArg, Notes, Reconciling, Parked
    <2> QED
      BY <2>1, GotoCall
  <1>19. CASE LeaveDependencyWait
    <2>1. \E l \in Labels : Goto(l)
      BY <1>19 DEF LeaveDependencyWait, Labels, StatusArg, AgentArg, Notes, Reconciling,
         Parked
    <2> QED
      BY <2>1, GotoCall
  <1>20. CASE NextAttempt
    <2>1. \E l \in Labels : Goto(l)
      BY <1>20 DEF NextAttempt, Labels, StatusArg, AgentArg, Notes, Reconciling, Parked
    <2> QED
      BY <2>1, GotoCall
  <1>21. CASE CrashBefore
    BY <1>21, RedeliverCall DEF CrashBefore
  <1>22. CASE Client
    <2>1. CASE UNCHANGED callVars
      BY <1>a, <2>1
    <2>2. CASE StartRun
      BY <2>2, BoundsAssumption DEF StartRun, CallOK, NoStatus, Labels
    <2> QED
      BY <1>22, <2>1, <2>2 DEF Client, ExecuteRequest, TickRequest, DirectRequest,
         CancelRequest,
         Start, Touch, WriteBack
  <1>23. CASE StrayEnds \/ SignalPause \/ SignalResume \/ Supervise \/ UNCHANGED vars
    BY <1>23, <1>a DEF StrayEnds, SignalPause, SignalResume, Supervise, FindStale,
       MarkLost, vars
  <1> QED
    BY <1>1, <1>2, <1>3, <1>4, <1>5, <1>6, <1>7, <1>8, <1>9, <1>10, <1>11, <1>12, <1>13,
       <1>14, <1>15, <1>16, <1>17, <1>18, <1>19, <1>20, <1>21, <1>22, <1>23 DEF Next,
       Worker, Activity

\* The requests, signals and counters stay well-formed.
LEMMA EnvStep ==
  ASSUME TypeOK, OutcomeTracked, [Next]_vars
  PROVE  EnvOK'
  <1> USE DEF TypeOK
  <1>a. Len(agents) \in Nat /\ Len(agents') \in Nat /\ Len(agents') >= Len(agents)
    BY RowsStep, LengthsStep DEF RowsOK
  <1>b. UNCHANGED <<envVars, execs>> /\ faults' \in 0..MaxFaults => EnvOK'
    BY <1>a DEF envVars, EnvOK
  <1>1. CASE Execute
    <2>1. faults' \in 0..MaxFaults
      BY <1>1, FaultCount DEF Execute, EnvOK
    <2> QED
      BY <1>1, <1>a, <2>1 DEF Execute, dbVars, EnvOK
  <1>2. CASE StrayEnds
    BY <1>2, <1>a DEF StrayEnds, EnvOK
  <1>3. CASE SignalPause
    BY <1>3, <1>a, BoundsAssumption DEF SignalPause, EnvOK
  <1>4. CASE SignalResume
    <2>1. paused' \in BOOLEAN
      BY <1>4 DEF SignalResume
    <2> QED
      BY <1>4, <1>a, <2>1 DEF SignalResume, EnvOK
  <1>5. CASE Supervise
    <2>1. CASE FindStale
      BY <1>a, <2>1, BoundsAssumption DEF FindStale, EnvOK, RowsOK
    <2>2. CASE MarkLost
      BY <1>a, <2>2 DEF MarkLost, EnvOK
    <2> QED
      BY <1>5, <2>1, <2>2 DEF Supervise
  <1>6. CASE Client
    <2>1. req' \in [Requests -> {"new", "planned", "started", "write", "wrote", "done"}]
      BY <1>6 DEF Client, ExecuteRequest, TickRequest, DirectRequest, CancelRequest,
         Start, Touch, WriteBack, Step, Requests, Starts, EnvOK
    <2>2. UNCHANGED <<run, paused, execs>> \/
       (run' = run + 1 /\ paused' = FALSE /\ execs' = 0)
      BY <1>6 DEF Client, ExecuteRequest, TickRequest, DirectRequest, CancelRequest,
         Start, StartRun, Touch, WriteBack
    <2>3. UNCHANGED <<doomed, strays, faults, pauses, stale>>
      BY <1>6 DEF Client, ExecuteRequest, TickRequest, DirectRequest, CancelRequest,
         Start, Touch, WriteBack
    <2> QED
      <3>1. paused' \in BOOLEAN
        BY <2>2 DEF EnvOK
      <3>2. run' \in Nat /\ execs' \in Nat
        BY <2>2 DEF EnvOK
      <3>3. doomed' \in 0..Len(agents')
        BY <1>a, <2>3 DEF EnvOK
      <3>4. /\ strays' \in Nat /\ faults' \in 0..MaxFaults /\ pauses' \in 0..MaxPauses
            /\ stale' \in 0..MaxStale
        BY <2>3 DEF EnvOK
      <3> QED
        BY <2>1, <3>1, <3>2, <3>3, <3>4 DEF EnvOK
  <1>7. CASE LoadTask \/ WriteStatus \/ StartAttempt \/ StartAgent \/ SetAgentState \/
     FinishAttempt \/ Note \/ SelectRecovery \/ CheckBudget \/ Gate \/ FollowUp \/
     RecordTerminal \/ EndSession \/ CheckDependencies \/ ReconcileLoad
    <2>1. Fault \/ UNCHANGED faults
      BY <1>7 DEF LoadTask, WriteStatus, StartAttempt, StartAgent, SetAgentState,
         FinishAttempt, Note, SelectRecovery, CheckBudget, Gate, FollowUp, RecordTerminal,
         EndSession, CheckDependencies, ReconcileLoad, Deliver
    <2>2. UNCHANGED <<envVars, execs>>
      BY <1>7 DEF LoadTask, WriteStatus, StartAttempt, StartAgent, SetAgentState,
         FinishAttempt, Note, SelectRecovery, CheckBudget, Gate, FollowUp, RecordTerminal,
         EndSession, CheckDependencies, ReconcileLoad, Deliver
    <2> QED
      BY <1>b, <2>1, <2>2, FaultCount DEF EnvOK
  <1>8. CASE CrashBefore
    BY <1>8, <1>b, FaultCount DEF CrashBefore, EnvOK
  <1>9. CASE ReadStatus \/ LeaveCheckpoint \/ LeaveDependencyWait \/ NextAttempt \/
     UNCHANGED vars
    BY <1>9, <1>b DEF ReadStatus, LeaveCheckpoint, LeaveDependencyWait, NextAttempt, vars,
       EnvOK
  <1> QED
    BY <1>1, <1>2, <1>3, <1>4, <1>5, <1>6, <1>7, <1>8, <1>9 DEF Next, Worker, Activity

-----------------------------------------------------------------------------
(* The run tracks the outcome of its attempt.                              *)

Tracked == Preparing \cup Wrapping \cup {"finish", "rFinish", "agentDone", "complete"}

LEMMA ErrorsUntracked == Errors \cap Tracked = {}
  BY DEF Errors, Tracked, Preparing, Wrapping

LEMMA OutcomeInit == Init => OutcomeTracked
  BY DEF Init, OutcomeTracked, Preparing, Wrapping


\* Every step keeps track of the outcome.
LEMMA OutcomeStep ==
  ASSUME TypeOK, OutcomeTracked, [Next]_vars
  PROVE  OutcomeTracked'
  <1> USE DEF TypeOK
  <1>a. pc' \notin Tracked => OutcomeTracked'
    BY DEF OutcomeTracked, Tracked
  <1>b. UNCHANGED <<pc, att, attempts, result, loaded>> => OutcomeTracked'
    BY DEF OutcomeTracked, AbandonedOutcome
  <1>c. Redeliver /\ UNCHANGED <<att, attempts, result, loaded>> => OutcomeTracked'
    BY <1>a, <1>b, RedeliverCall, ErrorsUntracked
  <1>1. CASE LoadTask
    <2>1. pc' \notin Tracked \/ Redeliver
      BY <1>1 DEF LoadTask, Deliver, Then, Goto, Close, Tracked, Preparing, Wrapping
    <2>2. pc \notin Tracked
      BY <1>1 DEF LoadTask, Tracked, Preparing, Wrapping
    <2> QED
      BY <1>a, <2>1, <2>2, RedeliverCall, ErrorsUntracked
  <1>2. CASE ReadStatus
    BY <1>2, <1>b, <1>c DEF ReadStatus, dbVars, localVars
  <1>3. CASE WriteStatus
    <2>1. CASE Goto(Follows[pc])
      BY <1>3, <1>a, <2>1 DEF WriteStatus, Goto, StatusArg, Follows, Tracked, Preparing,
         Wrapping
    <2>2. CASE Redeliver
      BY <1>3, <1>c, <2>2 DEF WriteStatus, Deliver, Then, localVars
    <2> QED
      BY <1>3, <2>1, <2>2 DEF WriteStatus, Deliver, Then
  <1>4. CASE StartAttempt
    <2>1. CASE Redeliver
      BY <1>4, <1>a, <2>1, RedeliverCall, ErrorsUntracked DEF StartAttempt, Tracked,
         Preparing, Wrapping
    <2>2. CASE att' = Len(attempts) + 1 /\ Goto("startAgent")
      <3>1. att' # 0 /\ attempts'[att'] = "open"
        BY <1>4, <2>2 DEF StartAttempt, Deliver, RowsOK
      <3> QED
        BY <2>2, <3>1 DEF Goto, OutcomeTracked, Tracked, Preparing, Wrapping
    <2> QED
      BY <1>4, <2>1, <2>2 DEF StartAttempt, Deliver
  <1>5. CASE StartAgent
    <2>1. CASE Redeliver
      BY <1>5, <1>a, <2>1, RedeliverCall, ErrorsUntracked, <1>c DEF StartAgent, Deliver,
         localVars, Goto
    <2>2. CASE Goto("agentRun") /\ UNCHANGED <<att, attempts>>
      BY <1>5, <2>2 DEF StartAgent, Goto, OutcomeTracked, Tracked, Preparing, Wrapping
    <2> QED
      BY <1>5, <2>1, <2>2 DEF StartAgent, Deliver
  <1>6. CASE SetAgentState
    <2>1. UNCHANGED <<att, attempts, result, loaded>>
      BY <1>6 DEF SetAgentState, Deliver, Then, localVars, dbVars
    <2>2. CASE Redeliver
      BY <1>c, <2>1, <2>2
    <2>3. CASE Goto(IF pc = "agentRun" THEN Checkpoint(pc) ELSE Follows[pc])
      <3>1. CASE pc \in Preparing
        <4>1. pc' \in Preparing
          BY <1>6, <2>3, <3>1 DEF SetAgentState, Goto, Checkpoint, AgentArg, Follows,
             Preparing
        <4> QED
          BY <2>1, <3>1, <4>1 DEF OutcomeTracked, Preparing, Wrapping
      <3>2. CASE pc \in Wrapping
        <4>1. pc' \in Wrapping \cup {"finish"}
          BY <1>6, <2>3, <3>2 DEF SetAgentState, Goto, AgentArg, Follows, Wrapping
        <4> QED
          BY <2>1, <3>2, <4>1 DEF OutcomeTracked, Preparing, Wrapping
      <3>3. CASE pc = "agentDone"
        <4>1. pc' = "complete"
          BY <2>3, <3>3 DEF Goto, Follows
        <4> QED
          BY <2>1, <3>3, <4>1 DEF OutcomeTracked, Preparing, Wrapping
      <3>4. CASE pc = "agentFail"
        <4>1. pc' = "selected"
          BY <2>3, <3>4 DEF Goto, Follows
        <4> QED
          BY <1>a, <4>1 DEF Tracked, Preparing, Wrapping
      <3> QED
        BY <1>6, <3>1, <3>2, <3>3, <3>4 DEF SetAgentState, AgentArg, Preparing, Wrapping
    <2> QED
      BY <1>6, <2>2, <2>3 DEF SetAgentState, Deliver, Then
  <1>7. CASE Execute
    <2>1. CASE Redeliver /\ UNCHANGED localVars
      BY <1>7, <1>c, <2>1 DEF Execute, dbVars, localVars
    <2>2. CASE Goto(Checkpoint(pc)) /\ result' # "none" /\ UNCHANGED att
      <3>1. pc' \in Wrapping
        BY <1>7, <2>2 DEF Execute, Goto, Checkpoint, Wrapping
      <3>2. att # 0 /\ attempts[att] = "open" /\ UNCHANGED attempts
        BY <1>7 DEF Execute, OutcomeTracked, Preparing, dbVars
      <3> QED
        BY <2>2, <3>1, <3>2 DEF OutcomeTracked, Preparing, Wrapping
    <2> QED
      BY <1>7, <2>1, <2>2 DEF Execute
  <1>8. CASE FinishAttempt
    <2>1. att \in DOMAIN attempts
      BY <1>8 DEF FinishAttempt, OutcomeTracked, RowsOK, RunOK
    <2>2. UNCHANGED <<att, result, loaded>>
      BY <1>8 DEF FinishAttempt, Deliver, Then, localVars
    <2>3. CASE pc = "finish"
      <3>1. attempts'[att] = result
        BY <1>8, <2>1, <2>3 DEF FinishAttempt, Deliver
      <3>2. pc' \notin Tracked \/ pc' = "finish" \/
         (pc' = "agentDone" /\ result = "success")
        BY <1>8, <2>3, RedeliverCall, ErrorsUntracked DEF FinishAttempt, Deliver, Then,
           Goto, Tracked, Preparing, Wrapping
      <3> QED
        BY <1>a, <2>2, <2>3, <3>1, <3>2 DEF OutcomeTracked, Preparing, Wrapping
    <2>4. CASE pc = "rFinish"
      <3>1. attempts'[att] = AbandonedOutcome
        BY <1>8, <2>1, <2>4 DEF FinishAttempt, Deliver
      <3>2. pc' \notin Tracked \/ pc' = "rFinish"
        BY <1>8, <2>4, RedeliverCall, ErrorsUntracked DEF FinishAttempt, Deliver, Then,
           Goto, Tracked, Preparing, Wrapping
      <3> QED
        BY <1>a, <2>2, <2>4, <3>1, <3>2 DEF OutcomeTracked, AbandonedOutcome, Preparing,
           Wrapping
    <2> QED
      BY <1>8, <2>3, <2>4 DEF FinishAttempt
  <1>9. CASE Note
    <2>1. UNCHANGED <<att, attempts, result, loaded>>
      BY <1>9 DEF Note, Deliver, localVars
    <2>2. CASE Redeliver
      BY <1>c, <2>1, <2>2
    <2>3. CASE pc = "snapshot" /\ Goto(Follows[pc])
      BY <2>1, <2>3 DEF Goto, Follows, OutcomeTracked, Preparing, Wrapping
    <2>4. CASE pc # "snapshot" /\ pc \in DOMAIN Follows /\ Goto(Follows[pc])
      BY <1>9, <1>a, <2>4 DEF Note, Notes, Goto, Follows, Tracked, Preparing, Wrapping
    <2>5. CASE Goto("dependents") \/ Close("returned") \/ Close("raised")
      BY <1>a, <2>5 DEF Goto, Close, Tracked, Preparing, Wrapping
    <2> QED
      BY <1>9, <2>2, <2>3, <2>4, <2>5 DEF Note, Deliver
  <1>10. CASE SelectRecovery
    <2>1. pc' \notin Tracked \/ Redeliver
      BY <1>10 DEF SelectRecovery, Deliver, Then, Goto, Close, Tracked, Preparing, Wrapping
    <2>2. pc \notin Tracked
      BY <1>10 DEF SelectRecovery, Tracked, Preparing, Wrapping
    <2> QED
      BY <1>a, <2>1, <2>2, RedeliverCall, ErrorsUntracked
  <1>11. CASE CheckBudget
    <2>1. pc' \notin Tracked \/ Redeliver
      BY <1>11 DEF CheckBudget, Deliver, Then, Goto, Close, Tracked, Preparing, Wrapping,
         Dispatch
    <2>2. pc \notin Tracked
      BY <1>11 DEF CheckBudget, Tracked, Preparing, Wrapping
    <2> QED
      BY <1>a, <2>1, <2>2, RedeliverCall, ErrorsUntracked
  <1>12. CASE Gate
    <2>1. pc' \notin Tracked \/ Redeliver
      BY <1>12 DEF Gate, Deliver, Then, Goto, Close, Tracked, Preparing, Wrapping, Dispatch
    <2>2. pc \notin Tracked
      BY <1>12 DEF Gate, Tracked, Preparing, Wrapping
    <2> QED
      BY <1>a, <2>1, <2>2, RedeliverCall, ErrorsUntracked
  <1>13. CASE FollowUp
    <2>1. pc' \notin Tracked \/ Redeliver
      BY <1>13 DEF FollowUp, Deliver, Then, Goto, Close, Tracked, Preparing, Wrapping
    <2>2. pc \notin Tracked
      BY <1>13 DEF FollowUp, Tracked, Preparing, Wrapping
    <2> QED
      BY <1>a, <2>1, <2>2, RedeliverCall, ErrorsUntracked
  <1>14. CASE RecordTerminal
    <2>1. pc' \notin Tracked \/ Redeliver
      BY <1>14 DEF RecordTerminal, Deliver, Then, Goto, Close, Tracked, Preparing,
         Wrapping, RTarget
    <2>2. pc \notin Tracked
      BY <1>14 DEF RecordTerminal, Tracked, Preparing, Wrapping
    <2> QED
      BY <1>a, <2>1, <2>2, RedeliverCall, ErrorsUntracked
  <1>15. CASE EndSession
    <2>1. pc' \notin Tracked \/ Redeliver
      BY <1>15 DEF EndSession, Deliver, Then, Goto, Close, Tracked, Preparing, Wrapping
    <2>2. pc \notin Tracked
      BY <1>15 DEF EndSession, Tracked, Preparing, Wrapping
    <2> QED
      BY <1>a, <2>1, <2>2, RedeliverCall, ErrorsUntracked
  <1>16. CASE CheckDependencies
    <2>1. pc' \notin Tracked \/ Redeliver
      BY <1>16 DEF CheckDependencies, Deliver, Then, Goto, Close, Tracked, Preparing,
         Wrapping
    <2>2. pc \notin Tracked
      BY <1>16 DEF CheckDependencies, Tracked, Preparing, Wrapping
    <2> QED
      BY <1>a, <2>1, <2>2, RedeliverCall, ErrorsUntracked
  <1>17. CASE ReconcileLoad
    <2>1. CASE Redeliver \/ Close("raised") \/ Goto("rTerminal")
      BY <1>17, <1>a, <2>1, RedeliverCall, ErrorsUntracked DEF ReconcileLoad, Goto, Close,
         Tracked, Preparing, Wrapping
    <2>2. CASE Goto("rFinish") /\ att # 0 /\ attempts[att] = "open" /\ UNCHANGED <<att,
       attempts>>
      BY <2>2 DEF Goto, OutcomeTracked, Preparing, Wrapping
    <2> QED
      BY <1>17, <2>1, <2>2 DEF ReconcileLoad, Deliver, dbVars
  <1>18. CASE LeaveCheckpoint
    <2>1. UNCHANGED <<att, attempts, result, loaded>>
      BY <1>18 DEF LeaveCheckpoint, localVars, dbVars
    <2> QED
      BY <1>18, <2>1 DEF LeaveCheckpoint, Goto, OutcomeTracked, Preparing, Wrapping
  <1>19. CASE LeaveDependencyWait
    BY <1>19, <1>a DEF LeaveDependencyWait, Goto, Tracked, Preparing, Wrapping
  <1>20. CASE NextAttempt
    BY <1>20, <1>a DEF NextAttempt, Goto, Tracked, Preparing, Wrapping
  <1>21. CASE CrashBefore
    BY <1>21, <1>c DEF CrashBefore, dbVars, localVars
  <1>22. CASE Client
    <2>1. CASE UNCHANGED <<attempts, localVars, callVars>>
      BY <1>b, <2>1 DEF localVars, callVars
    <2>2. CASE StartRun
      BY <1>a, <2>2 DEF StartRun, Tracked, Preparing, Wrapping
    <2> QED
      BY <1>22, <2>1, <2>2 DEF Client, ExecuteRequest, TickRequest, DirectRequest,
         CancelRequest,
         Start, Touch, WriteBack, dbVars
  <1>23. CASE StrayEnds \/ SignalPause \/ SignalResume \/ Supervise \/ UNCHANGED vars
    BY <1>23, <1>b DEF StrayEnds, SignalPause, SignalResume, Supervise, FindStale,
       MarkLost, vars,
       dbVars, localVars, callVars
  <1> QED
    BY <1>1, <1>2, <1>3, <1>4, <1>5, <1>6, <1>7, <1>8, <1>9, <1>10, <1>11, <1>12, <1>13,
       <1>14, <1>15, <1>16, <1>17, <1>18, <1>19, <1>20, <1>21, <1>22, <1>23 DEF Next,
       Worker, Activity

-----------------------------------------------------------------------------
(* The invariant, and the refinement of the ledger.                        *)

Inv == TypeOK /\ OutcomeTracked

LEMMA InvStep == Inv /\ [Next]_vars => Inv'
  BY RowsStep, RunStep, CallStep, EnvStep, OutcomeStep DEF Inv, TypeOK

LEMMA Invariance == Spec => []Inv
  <1>1. Init => Inv
    BY TypeInit, OutcomeInit DEF Inv
  <1> QED
    BY <1>1, InvStep, PTL DEF Spec

\* Every variable keeps its type: the rows of the database, the run's own
\* state, the call under way and the counters.
THEOREM TypeCorrect == Spec => []TypeOK
  BY Invariance, PTL DEF Inv

LEMMA SameStatus == Ledger!TaskStatus = TaskStatus
  BY DEF Ledger!TaskStatus, Ledger!TaskSuccessors, TaskStatus, TaskSuccessors

LEMMA LedgerInit == Init => Ledger!Init
  BY DEF Init, Ledger!Init


\* Every step enters the ledger lawfully, or leaves it alone.
LEMMA LedgerStep ==
  ASSUME Inv, [Next]_vars
  PROVE  [Ledger!Next]_<<status, attempts>>
  <1> USE DEF Inv, TypeOK
  <1>1. CASE StartAttempt
    BY <1>1 DEF StartAttempt, Deliver, Ledger!Next, Ledger!Open
  <1>2. CASE FinishAttempt
    <2>1. UNCHANGED status
      BY <1>2 DEF FinishAttempt, Deliver
    <2>2. att \in DOMAIN attempts
      BY <1>2 DEF FinishAttempt, OutcomeTracked, RowsOK, RunOK
    <2>3. PICK o \in Ledger!Closed :
            attempts[att] \in {"open", o} /\ attempts' = [attempts EXCEPT ![att] = o]
      BY <1>2 DEF FinishAttempt, Deliver, OutcomeTracked, AbandonedOutcome, RunOK,
         Ledger!Closed
    <2>4. CASE attempts[att] = "open"
      BY <2>1, <2>2, <2>3, <2>4 DEF Ledger!Next, Ledger!Close
    <2>5. CASE attempts[att] = o
      <3>1. attempts' = attempts
        BY <2>2, <2>3, <2>5 DEF RowsOK
      <3> QED
        BY <2>1, <3>1
    <2> QED
      BY <2>3, <2>4, <2>5
  <1>3. CASE WriteStatus
    <2>1. UNCHANGED attempts /\ status' \in {status,
       StatusArg[pc]} /\ pc \in DOMAIN StatusArg
      BY <1>3 DEF WriteStatus, Deliver
    <2>2. CASE status' = status
      BY <2>1, <2>2
    <2>3. CASE status' = StatusArg[pc]
      <3>1. status' \in TaskStatus
        BY <2>1, <2>3, StatusArgType
      <3>2. status' = "completed" => Ledger!Succeeded
        <4>1. status' = "completed" => pc = "complete"
          BY <2>1, <2>3, CompletedArg
        <4>2. pc = "complete" => att \in DOMAIN attempts /\ attempts[att] = "success"
          BY DEF OutcomeTracked, RowsOK, RunOK
        <4> QED
          BY <4>1, <4>2 DEF Ledger!Succeeded
      <3> QED
        BY <2>1, <3>1, <3>2, SameStatus DEF Ledger!Next, Ledger!Move
    <2> QED
      BY <2>1, <2>2, <2>3
  <1>4. CASE Client
    <2>1. UNCHANGED attempts /\ status' \in {status, "ready", "running", "cancelled"}
      BY <1>4 DEF Client, ExecuteRequest, TickRequest, DirectRequest, CancelRequest,
         Start, Touch, WriteBack, dbVars
    <2>2. CASE status' = status
      BY <2>1, <2>2
    <2>3. CASE status' # status
      BY <2>1, <2>3 DEF Ledger!Next, Ledger!Move, Ledger!TaskStatus, Ledger!TaskSuccessors
    <2> QED
      BY <2>2, <2>3
  <1>5. CASE LoadTask \/ StartAgent \/ Note \/ SelectRecovery \/ CheckBudget \/ Gate \/
     FollowUp \/ RecordTerminal \/ EndSession \/ CheckDependencies \/ ReconcileLoad \/
     SetAgentState
    BY <1>5 DEF LoadTask, StartAgent, Note, SelectRecovery, CheckBudget, Gate, FollowUp,
       RecordTerminal, EndSession, CheckDependencies, ReconcileLoad, SetAgentState,
       Deliver, dbVars
  <1>6. CASE ReadStatus \/ Execute \/ LeaveCheckpoint \/ LeaveDependencyWait \/
     NextAttempt \/ CrashBefore \/ StrayEnds \/ SignalPause \/ SignalResume \/
     Supervise \/ UNCHANGED vars
    BY <1>6 DEF ReadStatus, Execute, LeaveCheckpoint, LeaveDependencyWait, NextAttempt,
       CrashBefore, StrayEnds, SignalPause, SignalResume, Supervise, FindStale, MarkLost,
       vars, dbVars
  <1> QED
    BY <1>1, <1>2, <1>3, <1>4, <1>5, <1>6 DEF Next, Worker, Activity

\* TaskExecution implements the ledger: whatever requests, crashes and lost
\* results do to the run, an attempt's outcome is entered once and kept
\* (REC-001), and "completed" is written over a success only.
THEOREM KeepsLedger == Spec => LedgerKept
  <1>1. Inv /\ [Next]_vars => [Ledger!Next]_<<status, attempts>>
    BY LedgerStep
  <1> QED
    BY <1>1, LedgerInit, Invariance, PTL DEF Spec, LedgerKept, Ledger!Spec

\* No task is reported completed without an attempt recorded as a success.
THEOREM CompletionEarned == Spec => []CompletedHasSuccess
  <1>1. Init => CompletedHasSuccess
    BY DEF Init, CompletedHasSuccess
  <1>2. Inv /\ CompletedHasSuccess /\ [Next]_vars => CompletedHasSuccess'
    <2> SUFFICES ASSUME Inv, CompletedHasSuccess, [Next]_vars, status' = "completed"
                 PROVE  \E i \in DOMAIN attempts' : attempts'[i] = "success"
      BY DEF CompletedHasSuccess
    <2>1. CASE Ledger!Open
      <3>1. PICK i \in DOMAIN attempts : attempts[i] = "success"
        BY <2>1 DEF Ledger!Open, CompletedHasSuccess
      <3>2. i \in DOMAIN attempts' /\ attempts'[i] = attempts[i]
        BY <2>1, <3>1 DEF Ledger!Open, Inv, TypeOK, RowsOK
      <3> QED
        BY <3>1, <3>2
    <2>2. CASE Ledger!Close
      <3>1. PICK i \in DOMAIN attempts : attempts[i] = "success"
        BY <2>2 DEF Ledger!Close, CompletedHasSuccess
      <3>2. i \in DOMAIN attempts' /\ attempts'[i] = attempts[i]
        BY <2>2, <3>1 DEF Ledger!Close
      <3> QED
        BY <3>1, <3>2
    <2>3. CASE Ledger!Move
      BY <2>3 DEF Ledger!Move, Ledger!Succeeded
    <2>4. CASE UNCHANGED <<status, attempts>>
      BY <2>4 DEF CompletedHasSuccess
    <2> QED
      BY LedgerStep, <2>1, <2>2, <2>3, <2>4 DEF Ledger!Next
  <1> QED
    BY <1>1, <1>2, Invariance, PTL DEF Spec

-----------------------------------------------------------------------------
(* The work is begun at most once per attempt.                             *)

Early == Preparing \cup {"load", "toReady", "toRunning", "startAttempt"}

LEMMA ErrorsNotEarly == Errors \cap Early = {}
  BY DEF Errors, Early, Preparing

LEMMA ExecutionsInit == Init => ExecutionsTracked
  BY DEF Init, ExecutionsTracked, Preparing


\* An iteration begins the work once.
LEMMA ExecutionsStep ==
  ASSUME Inv, ExecutionsTracked, [Next]_vars
  PROVE  ExecutionsTracked'
  <1> USE DEF Inv, TypeOK
  <1>a. UNCHANGED <<execs, n>> /\ (pc' \in Early => pc \in Early) => ExecutionsTracked'
    BY DEF ExecutionsTracked, Early
  <1>b. Redeliver /\ UNCHANGED <<execs, n>> => ExecutionsTracked'
    BY <1>a, RedeliverCall, ErrorsNotEarly
  <1>c. execs \in Nat /\ n \in Nat
    BY DEF EnvOK, RunOK
  <1>1. CASE LoadTask
    <2>1. UNCHANGED <<execs, n>>
      BY <1>1 DEF LoadTask, Deliver, Then, localVars
    <2>2. (pc' \in Early => pc \in Early) \/ Redeliver
      BY <1>1 DEF LoadTask, Deliver, Then, Goto, Close, Early, Preparing
    <2> QED
      BY <1>a, <1>b, <2>1, <2>2
  <1>2. CASE StartAttempt
    <2>1. UNCHANGED <<execs, n>>
      BY <1>2 DEF StartAttempt, Deliver, Then, localVars
    <2>2. (pc' \in Early => pc \in Early) \/ Redeliver
      BY <1>2 DEF StartAttempt, Deliver, Then, Goto, Close, Early, Preparing
    <2> QED
      BY <1>a, <1>b, <2>1, <2>2
  <1>3. CASE StartAgent
    <2>1. UNCHANGED <<execs, n>>
      BY <1>3 DEF StartAgent, Deliver, Then, localVars
    <2>2. (pc' \in Early => pc \in Early) \/ Redeliver
      BY <1>3 DEF StartAgent, Deliver, Then, Goto, Close, Early, Preparing
    <2> QED
      BY <1>a, <1>b, <2>1, <2>2
  <1>4. CASE FinishAttempt
    <2>1. UNCHANGED <<execs, n>>
      BY <1>4 DEF FinishAttempt, Deliver, Then, localVars
    <2>2. (pc' \in Early => pc \in Early) \/ Redeliver
      BY <1>4 DEF FinishAttempt, Deliver, Then, Goto, Close, Early, Preparing
    <2> QED
      BY <1>a, <1>b, <2>1, <2>2
  <1>5. CASE SelectRecovery
    <2>1. UNCHANGED <<execs, n>>
      BY <1>5 DEF SelectRecovery, Deliver, Then, localVars
    <2>2. (pc' \in Early => pc \in Early) \/ Redeliver
      BY <1>5 DEF SelectRecovery, Deliver, Then, Goto, Close, Early, Preparing
    <2> QED
      BY <1>a, <1>b, <2>1, <2>2
  <1>6. CASE FollowUp
    <2>1. UNCHANGED <<execs, n>>
      BY <1>6 DEF FollowUp, Deliver, Then, localVars
    <2>2. (pc' \in Early => pc \in Early) \/ Redeliver
      BY <1>6 DEF FollowUp, Deliver, Then, Goto, Close, Early, Preparing
    <2> QED
      BY <1>a, <1>b, <2>1, <2>2
  <1>7. CASE EndSession
    <2>1. UNCHANGED <<execs, n>>
      BY <1>7 DEF EndSession, Deliver, Then, localVars
    <2>2. (pc' \in Early => pc \in Early) \/ Redeliver
      BY <1>7 DEF EndSession, Deliver, Then, Goto, Close, Early, Preparing
    <2> QED
      BY <1>a, <1>b, <2>1, <2>2
  <1>8. CASE CheckDependencies
    <2>1. UNCHANGED <<execs, n>>
      BY <1>8 DEF CheckDependencies, Deliver, Then, localVars
    <2>2. (pc' \in Early => pc \in Early) \/ Redeliver
      BY <1>8 DEF CheckDependencies, Deliver, Then, Goto, Close, Early, Preparing
    <2> QED
      BY <1>a, <1>b, <2>1, <2>2
  <1>9. CASE ReconcileLoad
    <2>1. UNCHANGED <<execs, n>>
      BY <1>9 DEF ReconcileLoad, Deliver, Then, localVars
    <2>2. (pc' \in Early => pc \in Early) \/ Redeliver
      BY <1>9 DEF ReconcileLoad, Deliver, Then, Goto, Close, Early, Preparing
    <2> QED
      BY <1>a, <1>b, <2>1, <2>2
  <1>10. CASE CheckBudget
    <2>1. UNCHANGED <<execs, n>>
      BY <1>10 DEF CheckBudget, Deliver, Then, localVars
    <2>2. (pc' \in Early => pc \in Early) \/ Redeliver
      BY <1>10 DEF CheckBudget, Deliver, Then, Goto, Close, Early, Preparing, Dispatch
    <2> QED
      BY <1>a, <1>b, <2>1, <2>2
  <1>11. CASE Gate
    <2>1. UNCHANGED <<execs, n>>
      BY <1>11 DEF Gate, Deliver, Then, localVars
    <2>2. (pc' \in Early => pc \in Early) \/ Redeliver
      BY <1>11 DEF Gate, Deliver, Then, Goto, Close, Early, Preparing, Dispatch
    <2> QED
      BY <1>a, <1>b, <2>1, <2>2
  <1>12. CASE RecordTerminal
    <2>1. UNCHANGED <<execs, n>>
      BY <1>12 DEF RecordTerminal, Deliver, Then, localVars
    <2>2. (pc' \in Early => pc \in Early) \/ Redeliver
      BY <1>12 DEF RecordTerminal, Deliver, Then, Goto, Close, Early, Preparing, RTarget
    <2> QED
      BY <1>a, <1>b, <2>1, <2>2
  <1>13. CASE WriteStatus
    <2>1. UNCHANGED <<execs, n>>
      BY <1>13 DEF WriteStatus, Deliver, Then, localVars
    <2>2. (pc' \in Early => pc \in Early) \/ Redeliver
      BY <1>13 DEF WriteStatus, Deliver, Then, Goto, Close, Early, Preparing, StatusArg,
         Follows
    <2> QED
      BY <1>a, <1>b, <2>1, <2>2
  <1>14. CASE Note
    <2>1. UNCHANGED <<execs, n>>
      BY <1>14 DEF Note, Deliver, Then, localVars
    <2>2. (pc' \in Early => pc \in Early) \/ Redeliver
      BY <1>14 DEF Note, Deliver, Then, Goto, Close, Early, Preparing, Notes, Follows
    <2> QED
      BY <1>a, <1>b, <2>1, <2>2
  <1>15. CASE SetAgentState
    <2>1. UNCHANGED <<execs, n>>
      BY <1>15 DEF SetAgentState, Deliver, Then, localVars
    <2>2. (pc' \in Early => pc \in Early) \/ Redeliver
      BY <1>15 DEF SetAgentState, Deliver, Then, Goto, Close, Early, Preparing, AgentArg,
         Follows, Checkpoint
    <2> QED
      BY <1>a, <1>b, <2>1, <2>2
  <1>16. CASE ReadStatus
    <2>1. UNCHANGED <<execs, n>> /\ (UNCHANGED pc \/ Redeliver)
      BY <1>16 DEF ReadStatus, localVars
    <2> QED
      BY <1>a, <1>b, <2>1
  <1>17. CASE Execute
    <2>1. UNCHANGED n
      BY <1>17 DEF Execute, localVars
    <2>2. execs < n /\ execs' = execs + 1
      BY <1>17 DEF Execute, ExecutionsTracked, Preparing
    <2>3. pc' \notin Early
      <3>1. CASE Redeliver
        <4>1. pc' \in Errors
          BY <1>17, <3>1, OnErrorType DEF Execute, Redeliver, Once, Goto, Close, Errors
        <4> QED
          BY <4>1, ErrorsNotEarly
      <3>2. CASE Goto(Checkpoint(pc))
        BY <1>17, <3>2 DEF Execute, Goto, Checkpoint, Early, Preparing
      <3> QED
        BY <1>17, <3>1, <3>2 DEF Execute
    <2> QED
      BY <1>c, <2>1, <2>2, <2>3 DEF ExecutionsTracked, Early
  <1>18. CASE LeaveCheckpoint
    BY <1>18, <1>a DEF LeaveCheckpoint, Goto, Early, Preparing, localVars
  <1>19. CASE LeaveDependencyWait
    BY <1>19, <1>a DEF LeaveDependencyWait, Goto, Early, Preparing, localVars
  <1>20. CASE NextAttempt
    <2>1. UNCHANGED execs /\ (n' = n + 1 \/ (n' = n /\ pc' = "fail"))
      BY <1>20 DEF NextAttempt, Goto
    <2> QED
      BY <1>c, <2>1 DEF ExecutionsTracked, Preparing
  <1>21. CASE CrashBefore
    BY <1>21, <1>b DEF CrashBefore, localVars
  <1>22. CASE Client
    <2>1. CASE UNCHANGED <<execs, localVars, callVars>>
      BY <1>a, <2>1 DEF localVars, callVars
    <2>2. CASE StartRun
      BY <2>2 DEF StartRun, ExecutionsTracked
    <2> QED
      BY <1>22, <2>1, <2>2 DEF Client, ExecuteRequest, TickRequest, DirectRequest,
         CancelRequest,
         Start, Touch, WriteBack
  <1>23. CASE StrayEnds \/ SignalPause \/ SignalResume \/ Supervise \/ UNCHANGED vars
    BY <1>23, <1>a DEF StrayEnds, SignalPause, SignalResume, Supervise, FindStale,
       MarkLost, vars,
       localVars, callVars
  <1> QED
    BY <1>1, <1>2, <1>3, <1>4, <1>5, <1>6, <1>7, <1>8, <1>9, <1>10, <1>11, <1>12, <1>13,
       <1>14, <1>15, <1>16, <1>17, <1>18, <1>19, <1>20, <1>21, <1>22, <1>23 DEF Next,
       Worker, Activity

\* A run begins the work of its task at most max_attempts times (REC-002),
\* however its calls are redelivered.
THEOREM ExecutionsBounded == Spec => []BoundedExecutions
  <1>1. Inv /\ ExecutionsTracked => BoundedExecutions
    BY BoundsAssumption DEF Inv, TypeOK, RunOK, EnvOK, ExecutionsTracked, BoundedExecutions
  <1>2. Inv /\ ExecutionsTracked /\ [Next]_vars => ExecutionsTracked'
    BY ExecutionsStep
  <1> QED
    BY <1>1, <1>2, ExecutionsInit, Invariance, PTL DEF Spec

-----------------------------------------------------------------------------
(* Rows that carry an idempotency key are created once per key.            *)

\* Appending a key unless it is there gives no key a second row.
LEMMA AppendNewOnce ==
  ASSUME NEW S, NEW rows \in Seq(S), NEW key \in S,
         \A i, j \in DOMAIN rows : rows[i] = rows[j] => i = j
  PROVE  \A i, j \in DOMAIN AppendNew(rows, key) :
           AppendNew(rows, key)[i] = AppendNew(rows, key)[j] => i = j
  BY DEF AppendNew, Recorded

\* Follow-up tasks and terminal failure events are never duplicated.
THEOREM KeysAreUnique == Spec => []KeyedOnce
  <1>1. Init => KeyedOnce
    BY DEF Init, KeyedOnce
  <1>2. Inv /\ KeyedOnce /\ [Next]_vars => KeyedOnce'
    <2> SUFFICES ASSUME Inv, KeyedOnce, [Next]_vars
                 PROVE  KeyedOnce'
      OBVIOUS
    <2>1. RunOK /\ EnvOK /\ children \in Seq(Key) /\ terminal \in Seq(Key)
      BY DEF Inv, TypeOK, RowsOK
    <2>2. CASE FollowUp
      <3>1. children' = AppendNew(children, RecoveryKey) /\ terminal' = terminal
        BY <2>2 DEF FollowUp, Deliver
      <3> QED
        BY <2>1, <3>1, KeysType, AppendNewOnce DEF KeyedOnce
    <2>3. CASE RecordTerminal
      <3>1. PICK key \in Key : terminal' = AppendNew(terminal, key) /\ children' = children
        BY <2>1, <2>3, KeysType DEF RecordTerminal, Deliver
      <3> QED
        BY <2>1, <3>1, AppendNewOnce DEF KeyedOnce
    <2>4. CASE UNCHANGED <<children, terminal>>
      BY <2>4 DEF KeyedOnce
    <2>5. CASE Worker /\ ~FollowUp /\ ~RecordTerminal
      BY <2>4, <2>5 DEF Worker, Activity, LoadTask, ReadStatus, WriteStatus, StartAttempt,
         StartAgent, SetAgentState, Execute, FinishAttempt, Note, SelectRecovery,
            CheckBudget,
         Gate, EndSession, CheckDependencies, ReconcileLoad, LeaveCheckpoint,
         LeaveDependencyWait, NextAttempt, Deliver, dbVars
    <2>6. CASE CrashBefore \/ StrayEnds \/ Client \/ SignalPause \/ SignalResume \/
       Supervise
                 \/ UNCHANGED vars
      BY <2>4, <2>6 DEF CrashBefore, StrayEnds, SignalPause, SignalResume, Supervise,
         FindStale,
         MarkLost, Client, ExecuteRequest, TickRequest, DirectRequest, CancelRequest,
         Start, Touch, WriteBack, vars, dbVars
    <2> QED
      BY <2>2, <2>3, <2>5, <2>6 DEF Next
  <1> QED
    BY <1>1, <1>2, Invariance, PTL DEF Spec

-----------------------------------------------------------------------------
(* A follow-up task replaces the rest of the ladder.                       *)

\* Calls between the work of an iteration and the next iteration.
Worked == Wrapping \cup
  {"finish", "agentFail", "selected", "replan", "spawn", "rollback", "budget", "budgetGate",
   "hitlGate", "depCheck", "block", "depWait", "depResumed", "depSatisfied", "unblock",
   "endSession", "announce", "retryNote", "backoff", "nextAttempt"}

\* The last calls of a run that returns.
Leaving == {"fail", "finalNote", "dependents"}

\* Where a run can be once it has created a follow-up.
Aftermath == {"replan", "spawn", "terminal", "closed"} \cup Leaving \cup Reconciling

ClosedOnly == closing # "none" => pc = "closed"

\* An iteration has begun the work once from the work on, and not before.
IterationCounted ==
  /\ pc \in Early => execs + 1 = n
  /\ pc \in Worked => execs = n

\* Keys of the follow-ups belong to runs already begun; the present run's is
\* that of the iteration that created it and gave up.
FollowUpsKept ==
  \A i \in DOMAIN children :
    /\ children[i][1] <= run
    /\ children[i][1] = run =>
         /\ children[i][2] = n /\ execs = n /\ pc \in Aftermath
         /\ pc \in Leaving \/ closing = "returned" => Recorded(terminal, RecoveryKey)

LadderInv == ClosedOnly /\ IterationCounted /\ FollowUpsKept

\* A step from call to call that is sound for a run with a follow-up.
LadderMove ==
  /\ pc' \in Early => pc \in Early
  /\ pc' \in Worked => pc \in Worked
  /\ pc \in Aftermath => pc' \in Aftermath
  /\ pc \in Aftermath /\ pc' \in Leaving => pc \in Leaving
  /\ closing' # "none" => pc' = "closed"
  /\ closing' = "returned" => closing = "returned" \/ pc \in Leaving

LadderKept == UNCHANGED <<run, n, execs, children, terminal>>

\* Errors lead out of the iteration, and never back into it.
LEMMA ErrorsEndLadder ==
  /\ Errors \subseteq Aftermath
  /\ Errors \cap (Early \cup Worked \cup Leaving) = {}
  BY DEF Errors, Aftermath, Early, Worked, Leaving, Preparing, Wrapping, Reconciling

\* A call that is delivered again, or given up, is a sound step.
LEMMA RedeliverMove ==
  ASSUME CallOK, ClosedOnly, pc # "closed", Redeliver
  PROVE  LadderMove /\ closing' \in {"none", "raised"}
  <1>1. pc' \in {pc} \cup Errors
    BY RedeliverCall
  <1>2. closing = "none" /\ (closing' = "none" \/ (closing' = "raised" /\ pc' = "closed"))
    BY DEF ClosedOnly, Redeliver, Goto, Close
  <1> QED
    BY <1>1, <1>2, ErrorsEndLadder DEF LadderMove

\* A sound step that leaves the rows and the count alone keeps the invariant.
LEMMA LadderKeeps ==
  ASSUME LadderInv, LadderKept, LadderMove
  PROVE  LadderInv'
  <1>1. ClosedOnly'
    BY DEF LadderMove, ClosedOnly
  <1>2. IterationCounted'
    BY DEF LadderInv, LadderKept, LadderMove, IterationCounted
  <1>3. FollowUpsKept'
    <2> SUFFICES ASSUME NEW i \in DOMAIN children
                 PROVE  /\ children[i][1] <= run
                        /\ children[i][1] = run =>
                             /\ children[i][2] = n /\ execs = n /\ pc' \in Aftermath
                             /\ pc' \in Leaving \/ closing' = "returned"
                                  => Recorded(terminal, RecoveryKey)
      BY DEF FollowUpsKept, LadderKept, RecoveryKey, Recorded
    <2> QED
      BY DEF LadderInv, FollowUpsKept, LadderMove
  <1> QED
    BY <1>1, <1>2, <1>3 DEF LadderInv

\* At first nothing is closed and no follow-up exists.
LEMMA LadderInit == Init => LadderInv
  BY DEF Init, LadderInv, ClosedOnly, IterationCounted, FollowUpsKept, Early, Preparing,
     Worked, Wrapping

\* A row that carries the key is there after the call, and the others stay.
LEMMA AppendNewRecords ==
  ASSUME NEW S, NEW rows \in Seq(S), NEW key \in S
  PROVE  /\ Recorded(AppendNew(rows, key), key)
         /\ \A k : Recorded(rows, k) => Recorded(AppendNew(rows, key), k)
  <1>1. CASE Recorded(rows, key)
    BY <1>1 DEF AppendNew
  <1>2. CASE ~Recorded(rows, key)
    <2>1. /\ AppendNew(rows, key) = Append(rows, key)
          /\ Len(rows) + 1 \in DOMAIN Append(rows, key)
          /\ Append(rows, key)[Len(rows) + 1] = key
          /\ \A i \in DOMAIN rows :
               i \in DOMAIN Append(rows, key) /\ Append(rows, key)[i] = rows[i]
      BY <1>2 DEF AppendNew
    <2> QED
      BY <2>1 DEF Recorded
  <1> QED
    BY <1>1, <1>2

\* Every step of the run keeps the invariant.
LEMMA LadderStep ==
  ASSUME Inv, LadderInv, [Next]_vars
  PROVE  LadderInv'
  <1>a. CallOK /\ RunOK /\ EnvOK /\ ClosedOnly /\ children \in Seq(Key) /\ terminal \in Seq(Key)
    BY DEF Inv, TypeOK, RowsOK, LadderInv
  <1>b. ASSUME LadderKept, pc # "closed", closing' = closing, pc' # "closed",
               pc' \in Early => pc \in Early,
               pc' \in Worked => pc \in Worked,
               pc \in Aftermath => pc' \in Aftermath,
               pc \in Aftermath /\ pc' \in Leaving => pc \in Leaving
        PROVE  LadderInv'
    BY <1>a, <1>b, LadderKeeps DEF LadderMove, ClosedOnly
  <1>c. ASSUME LadderKept, pc # "closed", Redeliver
        PROVE  LadderInv'
    BY <1>a, <1>c, RedeliverMove, LadderKeeps
  <1>1. CASE LoadTask
    <2>1. LadderKept /\ pc = "load"
      BY <1>1 DEF LoadTask, Deliver, LadderKept, dbVars, localVars, envVars
    <2>2. Redeliver \/ (pc' \in {"toReady", "toRunning"} /\ closing' = closing)
      BY <1>1 DEF LoadTask, Deliver, Goto
    <2> QED
      BY <1>b, <1>c, <2>1, <2>2 DEF Early, Worked, Wrapping, Aftermath, Leaving, Reconciling
  <1>2. CASE StartAttempt
    <2>1. LadderKept /\ pc = "startAttempt"
      BY <1>2 DEF StartAttempt, Deliver, LadderKept, localVars, envVars
    <2>2. Redeliver \/ (pc' = "startAgent" /\ closing' = closing)
      BY <1>2 DEF StartAttempt, Deliver, Goto
    <2> QED
      BY <1>b, <1>c, <2>1, <2>2 DEF Early, Worked, Wrapping, Aftermath, Leaving, Reconciling
  <1>3. CASE StartAgent
    <2>1. LadderKept /\ pc = "startAgent"
      BY <1>3 DEF StartAgent, Deliver, LadderKept, localVars, envVars
    <2>2. Redeliver \/ (pc' = "agentRun" /\ closing' = closing)
      BY <1>3 DEF StartAgent, Deliver, Goto
    <2> QED
      BY <1>b, <1>c, <2>1, <2>2 DEF Early, Worked, Wrapping, Aftermath, Leaving, Reconciling,
         Preparing
  <1>4. CASE SetAgentState
    <2>1. LadderKept /\ pc \in DOMAIN AgentArg
      BY <1>4 DEF SetAgentState, Deliver, LadderKept, Then, dbVars, localVars, envVars
    <2>2. \/ Redeliver
          \/ closing' = closing /\ pc' = IF pc = "agentRun" THEN Checkpoint(pc) ELSE Follows[pc]
      BY <1>4 DEF SetAgentState, Deliver, Then, Goto
    <2>3. CASE Redeliver
      BY <1>c, <2>1, <2>3 DEF AgentArg
    <2>4. CASE ~Redeliver
      <3>1. \/ pc \in Preparing /\ pc' \in Preparing
            \/ pc \in Wrapping /\ pc' \in Wrapping
            \/ pc = "verify" /\ pc' = "finish"
            \/ pc = "agentDone" /\ pc' = "complete"
            \/ pc = "agentFail" /\ pc' = "selected"
        BY <2>1, <2>2, <2>4 DEF AgentArg, Follows, Checkpoint, Preparing, Wrapping
      <3> QED
        BY <1>b, <2>1, <2>2, <2>4, <3>1 DEF Early, Worked, Wrapping, Aftermath, Leaving,
           Reconciling, Preparing
    <2> QED
      BY <2>3, <2>4
  <1>5. CASE Execute
    <2>1. UNCHANGED <<run, n, children, terminal>> /\ execs' = execs + 1 /\ pc = "execute"
      BY <1>5 DEF Execute, dbVars, localVars
    <2>2. execs + 1 = n /\ \A i \in DOMAIN children : children[i][1] # run
      BY <2>1 DEF LadderInv, IterationCounted, FollowUpsKept, Early, Preparing, Aftermath,
         Leaving, Reconciling
    <2>3. pc' \notin Early /\ closing' # "returned" /\ (closing' # "none" => pc' = "closed")
      <3>1. CASE Redeliver
        <4>1. pc' \in Errors
          BY <2>1, <3>1, OnErrorType DEF Redeliver, Once, Goto, Close, Errors
        <4>2. closing' \in {"none", "raised"} /\ LadderMove
          BY <1>a, <2>1, <3>1, RedeliverMove
        <4> QED
          BY <4>1, <4>2, ErrorsEndLadder DEF LadderMove
      <3>2. CASE Goto(Checkpoint(pc))
        BY <1>a, <2>1, <3>2 DEF Goto, Checkpoint, Early, Preparing, ClosedOnly
      <3> QED
        BY <1>5, <3>1, <3>2 DEF Execute
    <2>4. IterationCounted'
      BY <2>1, <2>2, <2>3 DEF IterationCounted
    <2>5. FollowUpsKept'
      BY <2>1, <2>2 DEF LadderInv, FollowUpsKept
    <2> QED
      BY <2>3, <2>4, <2>5 DEF LadderInv, ClosedOnly
  <1>6. CASE FinishAttempt
    <2>1. LadderKept /\ pc \in {"finish", "rFinish"}
      BY <1>6 DEF FinishAttempt, Deliver, LadderKept, Then, localVars, envVars
    <2>2. \/ Redeliver
          \/ closing' = closing /\ pc' = IF pc = "rFinish" THEN "rTerminal"
               ELSE IF result = "success" THEN "agentDone" ELSE "agentFail"
      BY <1>6 DEF FinishAttempt, Deliver, Then, Goto
    <2> QED
      BY <1>b, <1>c, <2>1, <2>2 DEF Early, Worked, Wrapping, Aftermath, Leaving, Reconciling,
         Preparing
  <1>7. CASE Note
    <2>1. LadderKept /\ pc \in Notes
      BY <1>7 DEF Note, Deliver, LadderKept, localVars, envVars
    <2>2. \/ Redeliver
          \/ pc \in DOMAIN Follows /\ pc' = Follows[pc] /\ closing' = closing
          \/ pc = "finalNote" /\ pc' = "dependents" /\ closing' = closing
          \/ pc \in {"finalNote", "dependents"} /\ pc' = "closed" /\ closing' = "returned"
          \/ pc = "rNote" /\ pc' = "closed" /\ closing' = "raised"
      BY <1>7 DEF Note, Deliver, Goto, Close
    <2>3. CASE Redeliver
      BY <1>c, <2>1, <2>3 DEF Notes
    <2>4. CASE pc \in DOMAIN Follows /\ pc' = Follows[pc] /\ closing' = closing
      <3>1. \/ pc = "snapshot" /\ pc' = "execute"
            \/ pc \in Worked /\ pc' \in Worked /\ pc \notin Aftermath
        BY <2>1, <2>4 DEF Notes, Follows, Worked, Aftermath, Leaving, Reconciling
      <3>2. pc # "closed" /\ pc' # "closed"
        BY <3>1 DEF Worked, Wrapping
      <3>3. pc' \notin Early \/ pc \in Early
        BY <3>1 DEF Early, Preparing, Worked, Wrapping
      <3>4. pc' \notin Worked \/ pc \in Worked
        BY <3>1 DEF Worked, Wrapping
      <3>5. pc \notin Aftermath
        BY <3>1 DEF Aftermath, Leaving, Reconciling
      <3> QED
        BY <1>b, <2>1, <2>4, <3>2, <3>3, <3>4, <3>5
    <2>5. CASE pc = "finalNote" /\ pc' = "dependents" /\ closing' = closing
      BY <1>b, <2>1, <2>5 DEF Early, Worked, Wrapping, Aftermath, Leaving, Preparing
    <2>6. CASE \/ pc \in {"finalNote", "dependents"} /\ pc' = "closed" /\ closing' = "returned"
               \/ pc = "rNote" /\ pc' = "closed" /\ closing' = "raised"
      <3>1. LadderMove
        BY <2>6 DEF LadderMove, Early, Worked, Wrapping, Aftermath, Leaving, Preparing
      <3> QED
        BY <2>1, <3>1, LadderKeeps
    <2> QED
      BY <2>2, <2>3, <2>4, <2>5, <2>6
  <1>8. CASE SelectRecovery \/ CheckBudget \/ Gate \/ EndSession \/ CheckDependencies
    <2>1. LadderKept /\ pc \in {"selected", "budget", "budgetGate", "hitlGate", "endSession",
                                "depCheck"}
      BY <1>8 DEF SelectRecovery, CheckBudget, Gate, EndSession, CheckDependencies, Deliver,
         LadderKept, Then, dbVars, localVars, envVars
    <2>2. \/ Redeliver
          \/ closing' = closing /\ pc' \in {"terminal", "replan", "budget", "budgetGate", "fail",
               "nextAttempt", "announce", "block", "depSatisfied", Dispatch(decision.action)}
      BY <1>8 DEF SelectRecovery, CheckBudget, Gate, EndSession, CheckDependencies, Deliver,
         Then, Goto
    <2>3. Dispatch(decision.action) \in {"spawn", "rollback", "depCheck", "hitlGate",
                                         "endSession", "announce", "retryNote"}
      BY DEF Dispatch
    <2>4. CASE Redeliver
      BY <1>c, <2>1, <2>4
    <2>5. CASE ~Redeliver
      <3>1. pc' \notin Early /\ pc' # "closed"
        BY <2>2, <2>3, <2>5 DEF Early, Preparing
      <3>2. pc \in Worked /\ pc \notin Aftermath /\ pc # "closed"
        BY <2>1 DEF Worked, Aftermath, Leaving, Reconciling
      <3> QED
        BY <1>b, <2>1, <2>2, <2>5, <3>1, <3>2
    <2> QED
      BY <2>4, <2>5
  <1>9. CASE FollowUp
    <2>1. /\ UNCHANGED <<run, n, execs, terminal>> /\ pc \in {"replan", "spawn"}
          /\ children' = AppendNew(children, RecoveryKey)
      BY <1>9 DEF FollowUp, Deliver, Then, localVars, envVars
    <2>2. execs = n /\ closing = "none"
      BY <1>a, <2>1 DEF LadderInv, IterationCounted, Worked, ClosedOnly
    <2>3. Redeliver \/ (pc' = "terminal" /\ closing' = closing)
      BY <1>9 DEF FollowUp, Deliver, Then, Goto
    <2>4. LadderMove /\ closing' # "returned"
      BY <1>a, <2>1, <2>2, <2>3, RedeliverMove DEF LadderMove, Early, Preparing, Worked, Wrapping,
         Aftermath, Leaving
    <2>5. pc' \in Aftermath \ Leaving
      BY <2>1, <2>4 DEF LadderMove, Aftermath, Leaving
    <2>6. ASSUME NEW i \in DOMAIN children'
          PROVE  children'[i][1] <= run /\ (children'[i][1] = run => children'[i][2] = n)
      <3>1. CASE i \in DOMAIN children /\ children'[i] = children[i]
        BY <3>1 DEF LadderInv, FollowUpsKept
      <3>2. CASE children'[i] = RecoveryKey
        BY <1>a, <3>2 DEF RecoveryKey, EnvOK
      <3>3. (i \in DOMAIN children /\ children'[i] = children[i]) \/ children'[i] = RecoveryKey
        BY <1>a, <2>1, <2>6 DEF AppendNew
      <3> QED
        BY <3>1, <3>2, <3>3
    <2>7. FollowUpsKept'
      BY <2>1, <2>2, <2>4, <2>5, <2>6 DEF FollowUpsKept
    <2>8. IterationCounted'
      BY <2>1, <2>4 DEF LadderInv, IterationCounted, LadderMove
    <2> QED
      BY <2>4, <2>7, <2>8 DEF LadderInv, LadderMove, ClosedOnly
  <1>10. CASE RecordTerminal
    <2>1. PICK key \in Key :
            /\ UNCHANGED <<run, n, execs, children>> /\ pc \in {"terminal", "rTerminal"}
            /\ terminal' = AppendNew(terminal, key)
            /\ pc = "terminal" => key = RecoveryKey
      BY <1>a, <1>10, KeysType DEF RecordTerminal, Deliver, Then, localVars, envVars
    <2>2. /\ Recorded(terminal', key)
          /\ Recorded(terminal, RecoveryKey) => Recorded(terminal', RecoveryKey)
      BY <1>a, <2>1, AppendNewRecords
    <2>3. \/ Redeliver
          \/ pc = "terminal" /\ pc' = "fail" /\ closing' = closing
          \/ pc = "rTerminal" /\ pc' \in {"rCancel", "rRun", "rFail"} /\ closing' = closing
      BY <1>10, <2>1 DEF RecordTerminal, Deliver, Then, Goto, RTarget
    <2>4. /\ closing' # "none" => pc' = "closed"
          /\ closing' # "returned"
          /\ pc' \notin Early \cup Worked /\ pc' \in Aftermath
          /\ pc' \in Leaving => pc = "terminal"
      BY <1>a, <2>1, <2>3, RedeliverMove, RedeliverCall, ErrorsEndLadder DEF LadderMove,
         Early, Preparing, Worked, Wrapping, Aftermath, Leaving, Reconciling, ClosedOnly
    <2>5. RecoveryKey' = RecoveryKey
      BY <2>1 DEF RecoveryKey
    <2>6. FollowUpsKept'
      BY <2>1, <2>2, <2>4, <2>5 DEF LadderInv, FollowUpsKept
    <2>7. IterationCounted'
      BY <2>4 DEF IterationCounted
    <2> QED
      BY <2>4, <2>6, <2>7 DEF LadderInv, ClosedOnly
  <1>11. CASE ReadStatus \/ WriteStatus
    <2>1. LadderKept /\ pc \in DOMAIN StatusArg
      BY <1>11 DEF ReadStatus, WriteStatus, Deliver, LadderKept, Then, dbVars, localVars,
         envVars
    <2>2. \/ Redeliver \/ (pc' = pc /\ closing' = closing)
          \/ closing' = closing /\ pc' = Follows[pc]
      BY <1>11 DEF ReadStatus, WriteStatus, Deliver, Then, Goto
    <2>3. CASE Redeliver
      BY <1>c, <2>1, <2>3 DEF StatusArg
    <2>4. CASE pc' = pc /\ closing' = closing
      BY <1>b, <2>1, <2>4 DEF StatusArg
    <2>5. CASE closing' = closing /\ pc' = Follows[pc]
      <3>1. \/ pc = "toReady" /\ pc' = "toRunning"
            \/ pc = "toRunning" /\ pc' = "startAttempt"
            \/ pc = "block" /\ pc' = "depWait"
            \/ pc = "unblock" /\ pc' = "nextAttempt"
            \/ pc = "complete" /\ pc' = "finalNote"
            \/ pc = "fail" /\ pc' = "finalNote"
            \/ pc = "rRun" /\ pc' = "rFail"
            \/ pc \in {"rFail", "rCancel"} /\ pc' = "rNote"
        BY <2>1, <2>5 DEF StatusArg, Follows
      <3> QED
        BY <1>b, <2>1, <2>5, <3>1 DEF Early, Worked, Wrapping, Aftermath, Leaving, Reconciling,
           Preparing
    <2> QED
      BY <2>2, <2>3, <2>4, <2>5
  <1>12. CASE ReconcileLoad
    <2>1. LadderKept /\ pc = "rLoad"
      BY <1>12 DEF ReconcileLoad, Deliver, LadderKept, dbVars, localVars, envVars
    <2>2. \/ Redeliver
          \/ pc' = "closed" /\ closing' = "raised"
          \/ pc' \in {"rFinish", "rTerminal"} /\ closing' = closing
      BY <1>12 DEF ReconcileLoad, Deliver, Goto, Close
    <2>3. CASE pc' = "closed" /\ closing' = "raised"
      <3>1. LadderMove
        BY <2>3 DEF LadderMove, Early, Worked, Wrapping, Aftermath, Leaving, Preparing
      <3> QED
        BY <2>1, <3>1, LadderKeeps
    <2>4. CASE pc' \in {"rFinish", "rTerminal"} /\ closing' = closing
      BY <1>b, <2>1, <2>4 DEF Early, Worked, Wrapping, Aftermath, Leaving, Reconciling, Preparing
    <2> QED
      BY <1>c, <2>1, <2>2, <2>3, <2>4
  <1>13. CASE LeaveCheckpoint \/ LeaveDependencyWait
    <2>1. LadderKept /\ closing' = closing
      BY <1>13 DEF LeaveCheckpoint, LeaveDependencyWait, Goto, LadderKept, dbVars, localVars,
         envVars
    <2>2. \/ pc = "parked1" /\ pc' = "resuming1"
          \/ pc = "parked2" /\ pc' = "resuming2"
          \/ pc = "depWait" /\ pc' \in {"depResumed", "fail"}
      BY <1>13 DEF LeaveCheckpoint, LeaveDependencyWait, Goto
    <2>3. pc \notin Aftermath /\ pc # "closed" /\ pc' # "closed"
      BY <2>2 DEF Aftermath, Leaving, Reconciling
    <2>4. (pc' \in Early => pc \in Early) /\ (pc' \in Worked => pc \in Worked)
      BY <2>2 DEF Early, Preparing, Worked, Wrapping
    <2> QED
      BY <1>b, <2>1, <2>3, <2>4
  <1>14. CASE NextAttempt
    <2>1. /\ UNCHANGED <<run, execs, children, terminal>> /\ closing' = closing
          /\ pc \in {"backoff", "nextAttempt"}
          /\ (n' = n + 1 /\ pc' = "startAttempt") \/ (n' = n /\ pc' = "fail")
      BY <1>14 DEF NextAttempt, Goto, dbVars, envVars
    <2>2. execs = n /\ \A i \in DOMAIN children : children[i][1] # run
      BY <2>1 DEF LadderInv, IterationCounted, FollowUpsKept, Worked, Aftermath, Leaving,
         Reconciling
    <2>3. closing' = "none"
      BY <1>a, <2>1 DEF ClosedOnly
    <2>4. IterationCounted'
      <3>1. execs \in Nat
        BY <1>a DEF EnvOK
      <3> QED
        BY <2>1, <2>2, <3>1 DEF IterationCounted, Early, Preparing, Worked, Wrapping
    <2>5. FollowUpsKept'
      BY <2>1, <2>2 DEF LadderInv, FollowUpsKept
    <2> QED
      BY <2>3, <2>4, <2>5 DEF LadderInv, ClosedOnly
  <1>15. CASE CrashBefore
    <2>1. LadderKept /\ pc # "closed" /\ Redeliver
      BY <1>15 DEF CrashBefore, LadderKept, Local, dbVars, localVars, envVars
    <2> QED
      BY <1>c, <2>1
  <1>d. ASSUME LadderKept, UNCHANGED <<pc, closing>>
        PROVE  LadderInv'
    <2>1. LadderMove
      BY <1>a, <1>d DEF LadderMove, ClosedOnly
    <2> QED
      BY <1>d, <2>1, LadderKeeps
  <1>16. CASE Client
    <2>1. CASE LadderKept /\ UNCHANGED <<pc, closing>>
      BY <1>d, <2>1
    <2>2. CASE StartRun /\ UNCHANGED dbVars
      <3>1. \A i \in DOMAIN children : children[i][1] \in Nat /\ children[i][1] <= run
        BY <1>a DEF LadderInv, FollowUpsKept, Key
      <3>2. \A i \in DOMAIN children : children[i][1] <= run + 1 /\ children[i][1] # run + 1
        BY <1>a, <3>1 DEF EnvOK
      <3>3. run' = run + 1 /\ execs' = 0 /\ n' = 1 /\ pc' = "load" /\ closing' = "none"
            /\ children' = children
        BY <2>2 DEF StartRun, dbVars
      <3> QED
        BY <3>2, <3>3 DEF LadderInv, ClosedOnly, IterationCounted, FollowUpsKept, Early, Worked,
           Wrapping
    <2>3. (StartRun /\ UNCHANGED dbVars) \/ (LadderKept /\ UNCHANGED <<pc, closing>>)
      BY <1>16 DEF Client, ExecuteRequest, TickRequest, DirectRequest, CancelRequest, Start,
         Touch, WriteBack, LadderKept, dbVars, localVars, callVars
    <2> QED
      BY <2>1, <2>2, <2>3
  <1>17. CASE StrayEnds \/ SignalPause \/ SignalResume \/ Supervise \/ UNCHANGED vars
    <2>1. LadderKept /\ UNCHANGED <<pc, closing>>
      BY <1>17 DEF StrayEnds, SignalPause, SignalResume, Supervise, FindStale, MarkLost, vars,
         LadderKept, dbVars, localVars, callVars, envVars
    <2> QED
      BY <1>d, <2>1
  <1> QED
    BY <1>1, <1>2, <1>3, <1>4, <1>5, <1>6, <1>7, <1>8, <1>9, <1>10, <1>11, <1>12, <1>13,
       <1>14, <1>15, <1>16, <1>17 DEF Next, Worker, Activity

\* A follow-up replaces the rest of the ladder: the run that spawned it makes
\* no further attempt, and returns only with the terminal failure recorded.
THEOREM FollowUpsReplace == Spec => []FollowUpIsTerminal
  <1>1. LadderInv => FollowUpIsTerminal
    BY DEF LadderInv, FollowUpsKept, FollowUpIsTerminal
  <1>2. Inv /\ LadderInv /\ [Next]_vars => LadderInv'
    BY LadderStep
  <1> QED
    BY <1>1, <1>2, LadderInit, Invariance, PTL DEF Spec

-----------------------------------------------------------------------------
(* A task is not left running with nobody running it, unless the requests  *)
(* that start runs write its row, or more results are lost than a call has *)
(* deliveries.                                                             *)

\* What the transition table says of the statuses a run asks for.
LEMMA StatusTable ==
  /\ FinalStatus = {"completed", "cancelled"}
  /\ SettledStatus = {"completed", "cancelled", "failed"}
  /\ \A s \in TaskStatus :
       /\ s \in {"pending", "failed"} => LawfulTask(s, "cancelled")
       /\ s \in {"running", "blocked"} => LawfulTask(s, "failed")
       /\ s \in {"ready", "failed"} => LawfulTask(s, "running")
       /\ s \in FinalStatus => \A t : ~LawfulTask(s, t)
  BY DEF FinalStatus, SettledStatus, TaskStatus, TaskSuccessors, LawfulTask

\* The statuses from which a write of reconciliation settles the task.
Unsettled ==
  [rRun |-> {"ready", "running"}, rFail |-> {"running", "blocked"}, rCancel |-> {"pending"}]

\* Calls that are made once the task is settled.
Ending == {"finalNote", "dependents", "rNote"}

\* The calls the invariant says something about.
Watched == DOMAIN Unsettled \cup Ending \cup {"load", "rLoad", "rFinish", "rTerminal"}

\* The task is settled, or a request has put it back to where a run begins.
Landed == status \in SettledStatus \/ (Overwritten /\ status \in {"ready", "running"})

\* What reconciliation can count on at each of its calls: the task is in the
\* status it has loaded, or has been settled by a cancellation since, or
\* written by a request; and the call has deliveries left, unless its write is
\* not lawful any more.
SettlingCalls ==
  /\ pc \in Ending \/ closing # "none" => Landed
  /\ pc \in {"rFinish", "rTerminal"} => status = loaded \/ Landed
  /\ pc \in DOMAIN Unsettled =>
       /\ status \in Unsettled[pc] \/ Landed
       /\ \/ tries <= faults
          \/ status \in FinalStatus /\ seen = NoStatus
          \/ Overwritten /\ Landed
  /\ pc \in {"load", "rLoad"} => tries <= faults

SettlingInv == ClosedOnly /\ (faults < MaxTries => SettlingCalls)

\* At first no run is ending.
LEMMA SettlingInit == Init => SettlingInv
  BY DEF Init, SettlingInv, SettlingCalls, ClosedOnly, Ending, Unsettled

\* A call that is not watched is open to every status.
LEMMA UnwatchedSettles ==
  ASSUME pc' \notin Watched, closing' = "none"
  PROVE  SettlingInv'
  BY DEF SettlingInv, SettlingCalls, ClosedOnly, Watched, Ending, Unsettled

\* An unwatched call that fails leads to a reconciliation.
LEMMA UnwatchedFails ==
  ASSUME ClosedOnly, pc \notin Watched, pc # "closed", Redeliver, faults' \in Nat
  PROVE  SettlingInv'
  <1>1. OnError(pc) = "rLoad"
    BY DEF OnError, Watched, Unsettled, Ending
  <1>2. closing' = "none" /\ (pc' = pc \/ (pc' = "rLoad" /\ tries' = 0))
    BY <1>1 DEF Redeliver, Goto, ClosedOnly
  <1>3. CASE pc' = pc
    BY <1>2, <1>3, UnwatchedSettles
  <1>4. CASE pc' = "rLoad" /\ tries' = 0
    BY <1>2, <1>4 DEF SettlingInv, SettlingCalls, ClosedOnly, Ending, Unsettled
  <1> QED
    BY <1>2, <1>3, <1>4

\* Reconciliation writes what the loaded status can lawfully become.
LEMMA TargetSettles ==
  ASSUME status \in TaskStatus, status = loaded \/ Landed, faults' \in Nat,
         UNCHANGED <<status, req>>, pc' = RTarget, tries' = 0, closing' = "none"
  PROVE  SettlingInv'
  <1>1. status \in {"pending", "ready", "running", "blocked"} \/ Landed
    BY StatusTable DEF TaskStatus, TaskSuccessors, Landed
  <1>2. Landed' = Landed
    BY DEF Landed, Overwritten
  <1>3. /\ RTarget \in {"rCancel", "rRun", "rFail"}
        /\ status \in Unsettled[RTarget] \/ Landed
    BY <1>1 DEF RTarget, Unsettled
  <1> QED
    BY <1>2, <1>3 DEF SettlingInv, SettlingCalls, ClosedOnly, Ending, Unsettled

\* A failed delivery of a watched call, at the cost of one fault, leaves the
\* task where it was.
LEMMA WatchedFails ==
  ASSUME Inv, SettlingInv, pc \in Watched, Fault, Redeliver,
         UNCHANGED <<status, loaded, req>>
  PROVE  SettlingInv'
  <1>0. CASE ~(faults' < MaxTries)
    <2>1. ClosedOnly'
      <3>1. closing = "none"
        BY DEF SettlingInv, ClosedOnly, Watched, Unsettled, Ending
      <3> QED
        BY <3>1 DEF ClosedOnly, Redeliver, Goto, Close
    <2> QED
      BY <1>0, <2>1 DEF SettlingInv
  <1>a. CASE faults' < MaxTries
    <2>1. /\ tries \in Nat /\ faults \in Nat /\ faults' = faults + 1 /\ MaxTries \in Nat
          /\ SettlingCalls
      BY <1>a, BoundsAssumption DEF Inv, TypeOK, CallOK, EnvOK, Fault, SettlingInv
    <2>2. pc # "closed" /\ closing = "none" /\ pc \notin Once
      BY DEF SettlingInv, ClosedOnly, Watched, Unsettled, Ending, Once
    <2>3. tries <= faults => tries + 1 < MaxTries /\ tries + 1 <= faults'
      BY <1>a, <2>1
    <2>4. Landed' = Landed /\ Overwritten' = Overwritten
      BY DEF Landed, Overwritten
    <2>5. CASE tries + 1 < MaxTries
      <3>1. tries' = tries + 1 /\ seen' = NoStatus /\ UNCHANGED <<pc, closing>>
        BY <2>2, <2>5 DEF Redeliver
      <3> QED
        BY <2>1, <2>3, <2>4, <3>1 DEF SettlingInv, SettlingCalls, ClosedOnly
    <2>6. CASE ~(tries + 1 < MaxTries)
      <3>1. IF OnError(pc) = "closed" THEN Close("raised") ELSE Goto(OnError(pc))
        BY <2>6 DEF Redeliver
      <3>2. pc \notin {"load", "rLoad"}
        BY <2>1, <2>3, <2>6 DEF SettlingCalls
      <3>3. CASE pc \in {"finalNote", "dependents"}
        <4>1. pc' = "rLoad" /\ tries' = 0 /\ closing' = "none"
          BY <2>2, <3>1, <3>3 DEF OnError, Goto
        <4> QED
          BY <2>1, <4>1 DEF SettlingInv, SettlingCalls, ClosedOnly, Ending, Unsettled
      <3>4. CASE pc = "rNote"
        <4>1. pc' = "closed"
          BY <3>1, <3>4 DEF OnError, Close
        <4> QED
          BY <2>1, <2>4, <3>4, <4>1 DEF SettlingInv, SettlingCalls, ClosedOnly, Ending, Unsettled
      <3>5. CASE pc = "rFinish"
        <4>1. pc' = "rTerminal" /\ closing' = "none"
          BY <2>2, <3>1, <3>5 DEF OnError, Goto
        <4> QED
          BY <2>1, <2>4, <3>5, <4>1 DEF SettlingInv, SettlingCalls, ClosedOnly, Ending, Unsettled
      <3>6. CASE pc = "rTerminal"
        <4>1. pc' = RTarget /\ tries' = 0 /\ closing' = "none"
          BY <2>2, <3>1, <3>6 DEF OnError, Goto, RTarget
        <4>2. status \in TaskStatus /\ (status = loaded \/ Landed) /\ faults' \in Nat
          BY <2>1, <3>6 DEF SettlingCalls, Inv, TypeOK, RowsOK
        <4> QED
          BY <4>1, <4>2, TargetSettles
      <3>7. CASE pc \in DOMAIN Unsettled
        <4>1. pc' = "rNote" /\ closing' = "none"
          BY <2>2, <3>1, <3>7 DEF OnError, Goto, Unsettled
        <4>2. Landed
          BY <2>1, <2>3, <2>6, <3>7 DEF SettlingCalls, SettledStatus, Landed
        <4> QED
          BY <2>4, <4>1, <4>2 DEF SettlingInv, SettlingCalls, ClosedOnly, Ending, Unsettled
      <3> QED
        BY <3>2, <3>3, <3>4, <3>5, <3>6, <3>7 DEF Watched, Ending
    <2> QED
      BY <2>5, <2>6
  <1> QED
    BY <1>0, <1>a

\* Every step keeps what reconciliation counts on.
LEMMA SettlingStep ==
  ASSUME Inv, SettlingInv, [Next]_vars
  PROVE  SettlingInv'
  <1>a. faults' \in Nat /\ faults \in Nat /\ status \in TaskStatus /\ ClosedOnly
    BY InvStep, BoundsAssumption DEF Inv, TypeOK, EnvOK, RowsOK, SettlingInv
  <1>b. ASSUME pc # "closed", pc \notin Watched,
               Redeliver \/ (pc' \notin Watched /\ closing' = closing)
        PROVE  SettlingInv'
    BY <1>a, <1>b, UnwatchedSettles, UnwatchedFails DEF ClosedOnly
  <1>c. ASSUME pc \in Watched, Fault, Redeliver, UNCHANGED <<status, loaded, req>>
        PROVE  SettlingInv'
    BY <1>c, WatchedFails
  <1>d. ASSUME pc # "closed", pc' \notin Watched, closing' = closing
        PROVE  SettlingInv'
    BY <1>a, <1>d, UnwatchedSettles DEF ClosedOnly
  <1>g. ASSUME pc = "rTerminal", UNCHANGED <<status, loaded, req, faults>>, pc' = RTarget,
               tries' = 0, closing' = closing
        PROVE  SettlingInv'
    <2>1. closing' = "none"
      BY <1>a, <1>g DEF ClosedOnly
    <2>2. CASE faults < MaxTries
      <3>1. status = loaded \/ Landed
        BY <1>g, <2>2 DEF SettlingInv, SettlingCalls
      <3> QED
        BY <1>a, <1>g, <2>1, <3>1, TargetSettles
    <2>3. CASE ~(faults < MaxTries)
      BY <1>g, <2>1, <2>3 DEF SettlingInv, ClosedOnly
    <2> QED
      BY <2>2, <2>3
  <1>h. UNCHANGED <<status, req>> => Landed' = Landed /\ Overwritten' = Overwritten
    BY DEF Landed, Overwritten
  <1>1. CASE LoadTask
    <2>1. pc = "load" /\ UNCHANGED <<status, req>>
      BY <1>1 DEF LoadTask, Deliver, dbVars, envVars
    <2>2. \/ pc' \in {"toReady", "toRunning"} /\ closing' = closing
          \/ Fault /\ Redeliver /\ loaded' = loaded
      BY <1>1 DEF LoadTask, Deliver, Goto, localVars
    <2> QED
      BY <1>c, <1>d, <2>1, <2>2 DEF Watched, Unsettled, Ending
  <1>2. CASE StartAttempt \/ StartAgent \/ EndSession \/ SelectRecovery \/ CheckBudget \/ Gate
               \/ FollowUp \/ CheckDependencies
    <2>1. /\ pc \in {"startAttempt", "startAgent", "endSession", "selected", "budget",
                     "budgetGate", "hitlGate", "replan", "spawn", "depCheck"}
          /\ \/ Redeliver
             \/ /\ closing' = closing
                /\ pc' \in {"startAgent", "agentRun", "announce", "terminal", "replan", "budget",
                            "budgetGate", "fail", "nextAttempt", "block", "depSatisfied",
                            Dispatch(decision.action)}
      BY <1>2 DEF StartAttempt, StartAgent, EndSession, SelectRecovery, CheckBudget, Gate,
         FollowUp, CheckDependencies, Deliver, Then, Goto
    <2>2. Dispatch(decision.action) \in {"spawn", "rollback", "depCheck", "hitlGate",
                                         "endSession", "announce", "retryNote"}
      BY DEF Dispatch
    <2> QED
      BY <1>b, <2>1, <2>2 DEF Watched, Unsettled, Ending
  <1>3. CASE SetAgentState
    <2>1. /\ pc \in DOMAIN AgentArg
          /\ \/ Redeliver
             \/ /\ closing' = closing
                /\ pc' = IF pc = "agentRun" THEN Checkpoint(pc) ELSE Follows[pc]
      BY <1>3 DEF SetAgentState, Deliver, Then, Goto
    <2>2. pc \notin Watched /\ pc # "closed"
      BY <2>1 DEF AgentArg, Watched, Unsettled, Ending
    <2>3. (IF pc = "agentRun" THEN Checkpoint(pc) ELSE Follows[pc]) \notin Watched
      BY <2>1 DEF AgentArg, Checkpoint, Follows, Watched, Unsettled, Ending
    <2> QED
      BY <1>b, <2>1, <2>2, <2>3
  <1>4. CASE Execute
    <2>1. pc = "execute" /\ (Redeliver \/ (closing' = closing /\ pc' \in {"pauseReq2", "verify"}))
      BY <1>4 DEF Execute, Goto, Checkpoint
    <2> QED
      BY <1>b, <2>1 DEF Watched, Unsettled, Ending
  <1>5. CASE FinishAttempt
    <2>1. CASE pc = "finish"
      <3>1. Redeliver \/ (closing' = closing /\ pc' \in {"agentDone", "agentFail"})
        BY <1>5, <2>1 DEF FinishAttempt, Deliver, Then, Goto
      <3> QED
        BY <1>b, <2>1, <3>1 DEF Watched, Unsettled, Ending
    <2>2. CASE pc = "rFinish"
      <3>1. UNCHANGED <<status, loaded, req>>
            /\ \/ Fault /\ Redeliver
               \/ pc' = "rTerminal" /\ UNCHANGED <<closing, faults>>
        BY <1>5, <2>2 DEF FinishAttempt, Deliver, Then, Goto, localVars, envVars
      <3>2. CASE Fault /\ Redeliver
        BY <1>c, <2>2, <3>1, <3>2 DEF Watched
      <3>3. CASE pc' = "rTerminal" /\ UNCHANGED <<closing, faults>>
        BY <1>h, <2>2, <3>1, <3>3 DEF SettlingInv, SettlingCalls, ClosedOnly, Ending, Unsettled
      <3> QED
        BY <3>1, <3>2, <3>3
    <2> QED
      BY <1>5, <2>1, <2>2 DEF FinishAttempt
  <1>6. CASE Note
    <2>1. /\ UNCHANGED <<status, loaded, req>> /\ pc \in Notes
          /\ \/ Fault /\ Redeliver
             \/ pc \in DOMAIN Follows /\ pc' = Follows[pc] /\ closing' = closing
             \/ pc = "finalNote" /\ pc' = "dependents" /\ UNCHANGED <<closing, faults>>
             \/ pc \in Ending /\ pc' = "closed" /\ faults' = faults
      BY <1>6 DEF Note, Deliver, Goto, Close, localVars, envVars, Ending
    <2>2. CASE Fault /\ Redeliver
      <3>1. pc # "closed"
        BY <2>1 DEF Notes
      <3> QED
        BY <1>b, <1>c, <2>1, <2>2, <3>1
    <2>3. CASE pc \in DOMAIN Follows /\ pc' = Follows[pc] /\ closing' = closing
      <3>1. pc # "closed" /\ pc' \notin Watched
        BY <2>1, <2>3 DEF Notes, Follows, Watched, Unsettled, Ending
      <3> QED
        BY <1>d, <2>3, <3>1
    <2>4. CASE pc = "finalNote" /\ pc' = "dependents" /\ UNCHANGED <<closing, faults>>
      BY <1>h, <2>1, <2>4 DEF SettlingInv, SettlingCalls, ClosedOnly, Ending, Unsettled
    <2>5. CASE pc \in Ending /\ pc' = "closed" /\ faults' = faults
      BY <1>h, <2>1, <2>5 DEF SettlingInv, SettlingCalls, ClosedOnly, Ending, Unsettled
    <2> QED
      BY <2>1, <2>2, <2>3, <2>4, <2>5
  <1>7. CASE RecordTerminal
    <2>1. CASE pc = "terminal"
      <3>1. Redeliver \/ (closing' = closing /\ pc' = "fail")
        BY <1>7, <2>1 DEF RecordTerminal, Deliver, Then, Goto
      <3> QED
        BY <1>b, <2>1, <3>1 DEF Watched, Unsettled, Ending
    <2>2. CASE pc = "rTerminal"
      <3>1. /\ UNCHANGED <<status, loaded, req>>
            /\ \/ Fault /\ Redeliver
               \/ pc' = RTarget /\ tries' = 0 /\ UNCHANGED <<closing, faults>>
        BY <1>7, <2>2 DEF RecordTerminal, Deliver, Then, Goto, localVars, envVars
      <3>2. CASE Fault /\ Redeliver
        BY <1>c, <2>2, <3>1, <3>2 DEF Watched
      <3>3. CASE pc' = RTarget /\ tries' = 0 /\ UNCHANGED <<closing, faults>>
        BY <1>g, <2>2, <3>1, <3>3
      <3> QED
        BY <3>1, <3>2, <3>3
    <2> QED
      BY <1>7, <2>1, <2>2 DEF RecordTerminal
  <1>8. CASE ReadStatus
    <2>1. /\ pc \in DOMAIN StatusArg /\ seen = NoStatus /\ status # StatusArg[pc]
          /\ UNCHANGED <<status, loaded, faults, req>>
          /\ IF LawfulTask(status, StatusArg[pc])
             THEN seen' = status /\ UNCHANGED <<pc, tries, closing>>
             ELSE Redeliver
      BY <1>8 DEF ReadStatus, dbVars, localVars, envVars
    <2>2. pc # "closed"
      BY <2>1 DEF StatusArg
    <2>3. CASE pc \notin Watched
      BY <1>b, <2>1, <2>2, <2>3
    <2>4. CASE pc \in Watched
      <3>1. pc \in DOMAIN Unsettled /\ StatusArg[pc] \in {"running", "failed", "cancelled"}
        BY <2>1, <2>4 DEF StatusArg, Watched, Unsettled, Ending
      <3>2. Landed' = Landed /\ Overwritten' = Overwritten
        BY <2>1 DEF Landed, Overwritten
      <3>3. CASE LawfulTask(status, StatusArg[pc])
        <4>1. status \notin FinalStatus
          BY <1>a, <3>3, StatusTable
        <4> QED
          BY <2>1, <3>1, <3>2, <3>3, <4>1 DEF SettlingInv, SettlingCalls, ClosedOnly
      <3>4. CASE ~LawfulTask(status, StatusArg[pc])
        <4>1. faults < MaxTries =>
                \/ status \in FinalStatus
                \/ Overwritten /\ Landed
          <5>1. faults < MaxTries =>
                  \/ status \in Unsettled[pc] \cup {"completed", "cancelled", "failed"}
                  \/ Overwritten /\ Landed
            BY <3>1, StatusTable DEF SettlingInv, SettlingCalls, Landed
          <5> QED
            BY <1>a, <2>1, <3>1, <3>4, <5>1, StatusTable DEF StatusArg, Unsettled
        <4>2. /\ closing = "none" /\ OnError(pc) = "rNote"
          BY <1>a, <2>2, <3>1 DEF ClosedOnly, OnError, Unsettled
        <4>3. closing' = "none" /\ pc' \in {pc, "rNote"} /\ seen' = NoStatus
          BY <2>1, <3>4, <4>2 DEF Redeliver, Goto
        <4>4. faults < MaxTries => Landed
          BY <4>1 DEF SettledStatus, Landed
        <4> QED
          BY <2>1, <3>1, <3>2, <4>1, <4>3, <4>4 DEF SettlingInv, SettlingCalls, ClosedOnly,
             Unsettled, Ending
      <3> QED
        BY <3>3, <3>4
    <2> QED
      BY <2>3, <2>4
  <1>9. CASE WriteStatus
    <2>1. /\ pc \in DOMAIN StatusArg /\ UNCHANGED <<loaded, req>>
          /\ seen # NoStatus \/ status = StatusArg[pc]
          /\ status' = IF seen = NoStatus THEN status ELSE StatusArg[pc]
          /\ \/ Fault /\ Redeliver
             \/ /\ pc' = Follows[pc] /\ tries' = 0 /\ seen' = NoStatus /\ closing' = closing
                /\ faults' = faults
      BY <1>9 DEF WriteStatus, Deliver, Then, Goto, localVars, envVars
    <2>2. /\ status' = StatusArg[pc] /\ pc # "closed" /\ closing = "none"
          /\ Overwritten' = Overwritten
      BY <1>a, <2>1 DEF StatusArg, ClosedOnly, Overwritten
    <2>3. CASE pc' = Follows[pc] /\ tries' = 0 /\ closing' = closing /\ faults' = faults
      <3>1. CASE pc \notin {"complete", "fail", "rRun", "rFail", "rCancel"}
        <4>1. pc' \notin Watched
          BY <2>1, <2>3, <3>1 DEF StatusArg, Follows, Watched, Unsettled, Ending
        <4> QED
          BY <1>d, <2>2, <2>3, <4>1
      <3>2. CASE pc = "rRun"
        <4>1. pc' = "rFail" /\ status' = "running"
          BY <2>2, <2>3, <3>2 DEF StatusArg, Follows
        <4> QED
          BY <1>a, <2>2, <2>3, <4>1 DEF SettlingInv, SettlingCalls, ClosedOnly, Unsettled, Ending
      <3>3. CASE pc \in {"complete", "fail", "rFail", "rCancel"}
        <4>1. pc' \in {"finalNote", "rNote"} /\ Landed'
          BY <2>2, <2>3, <3>3, StatusTable DEF StatusArg, Follows, Landed
        <4> QED
          BY <2>2, <2>3, <4>1 DEF SettlingInv, SettlingCalls, ClosedOnly, Unsettled, Ending
      <3> QED
        BY <3>1, <3>2, <3>3
    <2>4. CASE Fault /\ Redeliver
      <3>1. CASE pc \notin Watched
        BY <1>b, <2>2, <2>4, <3>1
      <3>2. CASE pc \in Watched /\ status' = status
        BY <1>c, <2>1, <2>4, <3>2
      <3>3. CASE pc \in Watched /\ status' # status
        <4>1. pc \in DOMAIN Unsettled
          BY <2>1, <3>3 DEF StatusArg, Watched, Unsettled, Ending
        <4>2. /\ tries \in Nat /\ faults \in Nat /\ faults' = faults + 1 /\ MaxTries \in Nat
          BY <2>4, BoundsAssumption DEF Inv, TypeOK, CallOK, EnvOK, Fault
        <4>3. status' \in Unsettled[pc] \/ Landed'
          BY <2>2, <4>1, StatusTable DEF StatusArg, Unsettled, Landed
        <4>4. Overwritten => Landed'
          BY <2>2, <4>1, StatusTable DEF StatusArg, Unsettled, Landed
        <4>5. CASE ~(faults' < MaxTries)
          <5>1. ClosedOnly'
            BY <2>2, <2>4 DEF ClosedOnly, Redeliver, Goto, Close
          <5> QED
            BY <4>5, <5>1 DEF SettlingInv
        <4>6. CASE faults' < MaxTries /\ tries + 1 < MaxTries
          <5>1. tries' = tries + 1 /\ UNCHANGED <<pc, closing>>
            BY <2>4, <4>1, <4>6 DEF Redeliver, Once, Unsettled
          <5>2. tries + 1 <= faults' \/ (Overwritten /\ Landed')
            BY <2>1, <3>3, <4>1, <4>2, <4>4, <4>6 DEF SettlingInv, SettlingCalls
          <5> QED
            BY <2>2, <4>1, <4>3, <5>1, <5>2 DEF SettlingInv, SettlingCalls, ClosedOnly,
               Unsettled, Ending
        <4>7. CASE faults' < MaxTries /\ ~(tries + 1 < MaxTries)
          <5>1. Overwritten /\ Landed'
            BY <2>1, <3>3, <4>1, <4>2, <4>4, <4>7 DEF SettlingInv, SettlingCalls
          <5>2. pc' = "rNote" /\ closing' = "none"
            BY <2>2, <2>4, <4>1, <4>7 DEF Redeliver, OnError, Goto, Unsettled
          <5> QED
            BY <5>1, <5>2 DEF SettlingInv, SettlingCalls, ClosedOnly, Unsettled, Ending
        <4> QED
          BY <4>5, <4>6, <4>7
      <3> QED
        BY <3>1, <3>2, <3>3
    <2> QED
      BY <2>1, <2>3, <2>4
  <1>10. CASE ReconcileLoad
    <2>1. pc = "rLoad" /\ UNCHANGED <<status, req>>
      BY <1>10 DEF ReconcileLoad, Deliver, dbVars, envVars
    <2>2. \/ Fault /\ Redeliver /\ loaded' = loaded
          \/ status \in SettledStatus /\ pc' = "closed" /\ faults' = faults
          \/ /\ loaded' = status /\ pc' \in {"rFinish", "rTerminal"}
             /\ UNCHANGED <<closing, faults>>
      BY <1>10 DEF ReconcileLoad, Deliver, Goto, Close, localVars
    <2>3. CASE Fault /\ Redeliver /\ loaded' = loaded
      BY <1>c, <2>1, <2>3 DEF Watched
    <2>4. CASE status \in SettledStatus /\ pc' = "closed" /\ faults' = faults
      BY <2>1, <2>4 DEF SettlingInv, SettlingCalls, Landed, ClosedOnly, Unsettled, Ending
    <2>5. CASE /\ loaded' = status /\ pc' \in {"rFinish", "rTerminal"}
               /\ UNCHANGED <<closing, faults>>
      BY <2>1, <2>5 DEF SettlingInv, SettlingCalls, ClosedOnly, Unsettled, Ending
    <2> QED
      BY <2>2, <2>3, <2>4, <2>5
  <1>11. CASE LeaveCheckpoint \/ LeaveDependencyWait \/ NextAttempt
    <2>1. /\ pc # "closed" /\ closing' = closing
          /\ pc' \in {"resuming1", "resuming2", "depResumed", "fail", "startAttempt"}
      BY <1>11 DEF LeaveCheckpoint, LeaveDependencyWait, NextAttempt, Goto
    <2> QED
      BY <1>d, <2>1 DEF Watched, Unsettled, Ending
  <1>12. CASE CrashBefore
    <2>1. pc # "closed" /\ Fault /\ Redeliver /\ UNCHANGED <<status, loaded, req>>
      BY <1>12 DEF CrashBefore, Local, dbVars, localVars, envVars
    <2> QED
      BY <1>b, <1>c, <2>1
  <1>e. ASSUME UNCHANGED <<status, req, pc, closing, loaded, tries, seen, faults>>
        PROVE  SettlingInv'
    <2>1. Landed' = Landed /\ Overwritten' = Overwritten
      BY <1>e DEF Landed, Overwritten
    <2> QED
      BY <1>e, <2>1 DEF SettlingInv, SettlingCalls, ClosedOnly
  <1>f. ASSUME NEW r \in Requests, NEW to, UNCHANGED <<pc, closing, loaded, tries, seen, faults>>,
               req' = [req EXCEPT ![r] = to], req[r] # "wrote",
               \/ status' = status
               \/ status' = "cancelled"
               \/ r \in Execs \cup Ticks /\ to = "wrote" /\ status' \in {"ready", "running"}
        PROVE  SettlingInv'
    <2>1. Overwritten => Overwritten'
      <3>1. \A x \in Execs \cup Ticks : req[x] = "wrote" => req'[x] = "wrote"
        BY <1>f DEF Inv, TypeOK, EnvOK, Requests, Starts
      <3> QED
        BY <3>1 DEF Overwritten
    <2>2. CASE status' = status
      <3>1. Landed => Landed'
        BY <2>1, <2>2 DEF Landed
      <3> QED
        BY <1>f, <2>1, <2>2, <3>1 DEF SettlingInv, SettlingCalls, ClosedOnly
    <2>3. CASE status' = "cancelled"
      <3>1. "cancelled" \in FinalStatus /\ Landed'
        BY <2>3, StatusTable DEF Landed
      <3> QED
        BY <1>f, <2>1, <2>3, <3>1 DEF SettlingInv, SettlingCalls, ClosedOnly
    <2>4. CASE r \in Execs \cup Ticks /\ to = "wrote" /\ status' \in {"ready", "running"}
      <3>1. Overwritten' /\ Landed'
        <4>1. req'[r] = "wrote"
          BY <1>f, <2>4 DEF Inv, TypeOK, EnvOK
        <4> QED
          BY <2>4, <4>1 DEF Overwritten, Landed
      <3> QED
        BY <1>f, <3>1 DEF SettlingInv, SettlingCalls, ClosedOnly
    <2> QED
      BY <1>f, <2>2, <2>3, <2>4
  <1>13. CASE Client
    <2>1. \/ StartRun
          \/ \E r \in Requests, to \in {"planned", "started", "write", "wrote", "done"} :
               /\ UNCHANGED <<pc, closing, loaded, tries, seen, faults>>
               /\ req' = [req EXCEPT ![r] = to] /\ req[r] # "wrote"
               /\ \/ status' = status
                  \/ status' = "cancelled"
                  \/ r \in Execs \cup Ticks /\ to = "wrote" /\ status' \in {"ready", "running"}
      <3>1. CASE \E r \in Execs : ExecuteRequest(r)
        BY <3>1 DEF ExecuteRequest, Start, Touch, WriteBack, Step, dbVars,
           localVars, callVars, Requests, Starts
      <3>2. CASE \E r \in Ticks : TickRequest(r)
        BY <3>2 DEF TickRequest, Start, Touch, WriteBack, Step, dbVars,
           localVars, callVars, Requests, Starts
      <3>3. CASE \E r \in Directs : DirectRequest(r)
        BY <3>3 DEF DirectRequest, Start, Step, dbVars, localVars, callVars, Requests, Starts
      <3>4. CASE \E r \in Cancels : CancelRequest(r)
        BY <3>4 DEF CancelRequest, Touch, WriteBack, Step, dbVars,
           localVars, callVars, Requests, Starts
      <3> QED
        BY <1>13, <3>1, <3>2, <3>3, <3>4 DEF Client
    <2>2. CASE StartRun
      BY <1>a, <2>2 DEF StartRun, SettlingInv, SettlingCalls, ClosedOnly, Unsettled, Ending
    <2> QED
      BY <1>f, <2>1, <2>2
  <1>14. CASE StrayEnds \/ SignalPause \/ SignalResume \/ Supervise \/ UNCHANGED vars
    <2>1. UNCHANGED <<status, req, pc, closing, loaded, tries, seen, faults>>
      BY <1>14 DEF StrayEnds, SignalPause, SignalResume, Supervise, FindStale, MarkLost, vars,
         dbVars, localVars, envVars, callVars
    <2> QED
      BY <1>e, <2>1
  <1> QED
    BY <1>1, <1>2, <1>3, <1>4, <1>5, <1>6, <1>7, <1>8, <1>9, <1>10, <1>11, <1>12, <1>13,
       <1>14 DEF Next, Worker, Activity

\* Once the run is over its task is settled, or a request that starts runs has
\* put it back to ready or running, or as many results were lost as a call has
\* deliveries: for every set of requests and every number of faults.
THEOREM NoTaskOrphaned == Spec => []NoOrphanedTask
  <1>1. Inv /\ SettlingInv => NoOrphanedTask
    BY BoundsAssumption DEF Inv, TypeOK, EnvOK, SettlingInv, SettlingCalls, Landed,
       NoOrphanedTask
  <1>2. Inv /\ SettlingInv /\ [Next]_vars => SettlingInv'
    BY SettlingStep
  <1> QED
    BY <1>1, <1>2, SettlingInit, Invariance, PTL DEF Spec

-----------------------------------------------------------------------------
(* A run that gives up has recorded why, or was refused its recovery, or   *)
(* waited in vain: the two ways out of the ladder that record nothing.     *)

\* The decision leaves an attempt to make, or ends the ladder.
Timely == decision.action \in {"stop", LadderEnd} \/ n < MaxAttempts

\* Calls of a run that still has an attempt to make.
Continuing == {"budget", "budgetGate", "hitlGate", "depCheck", "block", "depWait", "depResumed",
               "depSatisfied", "unblock", "endSession", "announce", "retryNote", "backoff",
               "nextAttempt"}

\* Calls that lead to the wait for a dependency.
Waiting == {"depCheck", "block", "depWait"}

\* What is there to explain the end of the run.
Explained == Recorded(terminal, RecoveryKey) \/ GaveUp

\* From the decision on the run is on its way to another attempt, which is
\* there, or to the terminal failure event; it leaves the ladder without one
\* only where an expensive action is refused or a wait ends.
EvidenceInv ==
  /\ pc \in Wrapping \cup {"finish"} => Timely \/ result = "success"
  /\ pc \in {"agentFail", "selected"} => Timely
  /\ pc \in Continuing => n < MaxAttempts
  /\ pc = "budgetGate" => decision.budget_sensitive
  /\ pc \in Waiting => decision.action = "wait_for_dependency"
  /\ pc \in {"agentDone", "complete", "dependents"} => result = "success"
  /\ pc = "fail" => Explained
  /\ pc = "finalNote" \/ closing = "returned" => result = "success" \/ Explained

\* Every decision leaves an attempt to make, or ends the ladder.
LEMMA TimelyDecision ==
  ASSUME NEW class \in FailureClass, n \in 1..MaxAttempts,
         decision' = Decision(class, n, MaxAttempts), n' = n
  PROVE  Timely'
  <1>1. AttemptsLeft(n, MaxAttempts) # 0 => n < MaxAttempts
    BY BoundsAssumption DEF AttemptsLeft
  <1>2. decision'.action = ActionFor(class, AttemptsLeft(n, MaxAttempts))
    BY DEF Decision
  <1>3. ~IsRetryable(class) => ClassAction[class] = "stop"
    BY DEF IsRetryable, NonRetryable, FailureClass, ClassAction
  <1>4. CASE ~IsRetryable(class)
    BY <1>2, <1>3, <1>4 DEF ActionFor, Timely
  <1>5. CASE IsRetryable(class) /\ AttemptsLeft(n, MaxAttempts) = 0
    BY <1>2, <1>5 DEF ActionFor, Timely
  <1>6. CASE AttemptsLeft(n, MaxAttempts) # 0
    BY <1>1, <1>6 DEF Timely
  <1> QED
    BY <1>4, <1>5, <1>6

\* A run that has not given up yet has created no follow-up.
LEMMA NothingFollows ==
  ASSUME LadderInv, pc \in {"budgetGate", "depWait"}
  PROVE  ~Recorded(children, RecoveryKey)
  <1>1. pc \notin Aftermath
    BY DEF Aftermath, Leaving, Reconciling
  <1> QED
    BY <1>1 DEF LadderInv, FollowUpsKept, Recorded, RecoveryKey

EvidenceKept == UNCHANGED <<run, n, result, decision>>

\* A call that is delivered again, or given up, loses no evidence.
LEMMA EvidenceRedelivered ==
  ASSUME CallOK, ClosedOnly, EvidenceInv, EvidenceKept, pc # "closed", Redeliver,
         children' = children \/ pc \in {"replan", "spawn"},
         Recorded(terminal, RecoveryKey) => Recorded(terminal', RecoveryKey)
  PROVE  EvidenceInv'
  <1>1. pc' \in {pc} \cup Errors /\ closing' \in {"none", "raised"}
    BY RedeliverCall, RedeliverMove
  <1>2. RecoveryKey' = RecoveryKey /\ (Timely => Timely')
    BY DEF EvidenceKept, RecoveryKey, Timely
  <1>3. children' = children => (Explained => Explained')
    BY <1>2 DEF Explained, GaveUp, EvidenceKept
  <1>4. CASE pc' = pc /\ children' = children
    BY <1>1, <1>2, <1>3, <1>4 DEF EvidenceInv, EvidenceKept
  <1>5. CASE pc' = pc /\ pc \in {"replan", "spawn"}
    BY <1>1, <1>5 DEF EvidenceInv, Wrapping, Continuing, Waiting
  <1>6. CASE pc' \in Errors
    BY <1>1, <1>6 DEF EvidenceInv, Errors, Wrapping, Continuing, Waiting
  <1> QED
    BY <1>1, <1>4, <1>5, <1>6

\* At first nothing has failed.
LEMMA EvidenceInit == Init => EvidenceInv
  BY DEF Init, EvidenceInv, Wrapping, Continuing, Waiting

\* Every step keeps the evidence.
LEMMA EvidenceStep ==
  ASSUME Inv, LadderInv, EvidenceInv, [Next]_vars
  PROVE  EvidenceInv'
  <1>a. CallOK /\ RunOK /\ EnvOK /\ ClosedOnly /\ terminal \in Seq(Key)
    BY DEF Inv, TypeOK, RowsOK, LadderInv
  <1>b. ASSUME EvidenceKept, UNCHANGED <<terminal, children>>, pc # "closed", Redeliver
        PROVE  EvidenceInv'
    BY <1>a, <1>b, EvidenceRedelivered
  <1>c. EvidenceKept =>
          /\ RecoveryKey' = RecoveryKey /\ Timely' = Timely
          /\ UNCHANGED <<terminal, children>> => Explained' = Explained
    BY DEF EvidenceKept, RecoveryKey, Timely, Explained, GaveUp
  <1>1. CASE LoadTask \/ StartAttempt \/ StartAgent
    <2>1. /\ EvidenceKept /\ UNCHANGED <<terminal, children>> /\ pc # "closed"
          /\ \/ Redeliver
             \/ closing' = closing /\ pc' \in {"toReady", "toRunning", "startAgent", "agentRun"}
      BY <1>1 DEF LoadTask, StartAttempt, StartAgent, Deliver, Goto, EvidenceKept, dbVars,
         localVars, envVars
    <2> QED
      BY <1>a, <1>b, <2>1 DEF ClosedOnly, EvidenceInv, Wrapping, Continuing, Waiting
  <1>2. CASE SetAgentState
    <2>1. /\ EvidenceKept /\ UNCHANGED <<terminal, children>> /\ pc \in DOMAIN AgentArg
          /\ \/ Redeliver
             \/ closing' = closing /\ pc' = IF pc = "agentRun" THEN Checkpoint(pc) ELSE Follows[pc]
      BY <1>2 DEF SetAgentState, Deliver, Then, Goto, EvidenceKept, dbVars, localVars, envVars
    <2>2. pc # "closed"
      BY <2>1 DEF AgentArg
    <2>3. CASE ~Redeliver
      <3>1. closing' = "none" /\ RecoveryKey' = RecoveryKey /\ Timely' = Timely /\ result' = result
        BY <1>a, <1>c, <2>1, <2>2, <2>3 DEF ClosedOnly, EvidenceKept
      <3>2. \/ pc' \in Preparing
            \/ pc \in Wrapping /\ pc' \in Wrapping \cup {"finish"}
            \/ pc = "agentDone" /\ pc' = "complete"
            \/ pc = "agentFail" /\ pc' = "selected"
        BY <2>1, <2>3 DEF AgentArg, Checkpoint, Follows, Preparing, Wrapping
      <3>3. CASE pc' \in Preparing
        BY <3>1, <3>3 DEF EvidenceInv, Preparing, Wrapping, Continuing, Waiting
      <3>4. CASE pc \in Wrapping /\ pc' \in Wrapping \cup {"finish"}
        BY <3>1, <3>4 DEF EvidenceInv, Wrapping, Continuing, Waiting
      <3>5. CASE pc = "agentDone" /\ pc' = "complete"
        BY <3>1, <3>5 DEF EvidenceInv, Wrapping, Continuing, Waiting
      <3>6. CASE pc = "agentFail" /\ pc' = "selected"
        BY <3>1, <3>6 DEF EvidenceInv, Wrapping, Continuing, Waiting
      <3> QED
        BY <3>2, <3>3, <3>4, <3>5, <3>6
    <2> QED
      BY <1>b, <2>1, <2>2, <2>3
  <1>3. CASE Execute
    <2>1. pc = "execute" /\ run' = run /\ n' = n /\ UNCHANGED <<terminal, children>> /\ closing = "none"
      BY <1>a, <1>3 DEF Execute, Goto, dbVars, localVars, ClosedOnly
    <2>2. CASE Redeliver /\ UNCHANGED localVars
      BY <1>b, <2>1, <2>2 DEF EvidenceKept, localVars
    <2>3. CASE \E r \in {"success"} \cup Classes :
                 /\ result' = IF r = "success" THEN "success" ELSE "failed"
                 /\ decision' = IF r = "success" THEN NoAction ELSE Decision(r, n, MaxAttempts)
                 /\ Goto(Checkpoint(pc))
      <3>1. PICK r \in {"success"} \cup Classes :
                 /\ result' = IF r = "success" THEN "success" ELSE "failed"
                 /\ decision' = IF r = "success" THEN NoAction ELSE Decision(r, n, MaxAttempts)
                 /\ Goto(Checkpoint(pc))
        BY <2>3
      <3>2. Timely' \/ result' = "success"
        <4>1. CASE r = "success"
          BY <3>1, <4>1
        <4>2. CASE r # "success"
          <5>1. r \in FailureClass
            BY <3>1, <4>2, ClassesAssumption
          <5>2. n \in 1..MaxAttempts
            BY <1>a DEF RunOK
          <5> QED
            BY <2>1, <3>1, <4>2, <5>1, <5>2, TimelyDecision
        <4> QED
          BY <4>1, <4>2
      <3>3. pc' \in {"pauseReq2", "verify"} /\ closing' = "none"
        BY <2>1, <3>1 DEF Goto, Checkpoint
      <3> QED
        BY <3>2, <3>3 DEF EvidenceInv, Wrapping, Continuing, Waiting
    <2> QED
      BY <1>3, <2>2, <2>3 DEF Execute
  <1>4. CASE FinishAttempt
    <2>1. /\ EvidenceKept /\ UNCHANGED <<terminal, children>> /\ pc \in {"finish", "rFinish"}
          /\ \/ Redeliver
             \/ /\ closing' = closing
                /\ pc' = IF pc = "rFinish" THEN "rTerminal"
                         ELSE IF result = "success" THEN "agentDone" ELSE "agentFail"
      BY <1>4 DEF FinishAttempt, Deliver, Then, Goto, EvidenceKept, localVars, envVars
    <2>2. closing = "none" /\ pc # "closed"
      BY <1>a, <2>1 DEF ClosedOnly
    <2>3. CASE ~Redeliver
      <3>1. closing' = "none" /\ result' = result /\ Timely' = Timely
        BY <1>c, <2>1, <2>2, <2>3 DEF EvidenceKept
      <3>2. CASE pc' = "rTerminal"
        BY <3>1, <3>2 DEF EvidenceInv, Wrapping, Continuing, Waiting
      <3>3. CASE pc = "finish" /\ pc' = "agentDone" /\ result = "success"
        BY <3>1, <3>3 DEF EvidenceInv, Wrapping, Continuing, Waiting
      <3>4. CASE pc = "finish" /\ pc' = "agentFail" /\ result # "success"
        BY <3>1, <3>4 DEF EvidenceInv, Wrapping, Continuing, Waiting
      <3> QED
        BY <2>1, <2>3, <3>2, <3>3, <3>4
    <2> QED
      BY <1>b, <2>1, <2>2, <2>3
  <1>5. CASE Note
    <2>1. /\ EvidenceKept /\ UNCHANGED <<terminal, children>> /\ pc \in Notes
          /\ \/ Redeliver
             \/ pc \in DOMAIN Follows /\ pc' = Follows[pc] /\ closing' = closing
             \/ pc = "finalNote" /\ result = "success" /\ pc' = "dependents" /\ closing' = closing
             \/ pc \in {"finalNote", "dependents"} /\ pc' = "closed" /\ closing' = "returned"
             \/ pc = "rNote" /\ pc' = "closed" /\ closing' = "raised"
      BY <1>5 DEF Note, Deliver, Goto, Close, EvidenceKept, localVars, envVars
    <2>2. closing = "none" /\ pc # "closed"
      BY <1>a, <2>1 DEF ClosedOnly, Notes
    <2>3. Explained' = Explained /\ result' = result /\ n' = n
      BY <1>c, <2>1 DEF EvidenceKept
    <2>4. CASE pc \in DOMAIN Follows /\ pc' = Follows[pc] /\ closing' = closing
      <3>1. \/ pc = "snapshot" /\ pc' = "execute"
            \/ pc = "rollback" /\ pc' = "spawn"
            \/ pc \in Continuing /\ pc' \in Continuing \ (Waiting \cup {"budgetGate"})
        BY <2>1, <2>4 DEF Notes, Follows, Continuing, Waiting
      <3>2. n' < MaxAttempts \/ pc' \notin Continuing
        BY <2>3, <3>1 DEF EvidenceInv, Continuing
      <3>3. pc' \in {"execute", "spawn"} \cup (Continuing \ (Waiting \cup {"budgetGate"}))
        BY <3>1
      <3> QED
        BY <2>2, <2>4, <3>2, <3>3 DEF EvidenceInv, Wrapping, Continuing, Waiting
    <2>5. CASE pc = "finalNote" /\ result = "success" /\ pc' = "dependents" /\ closing' = closing
      BY <2>2, <2>3, <2>5 DEF EvidenceInv, Wrapping, Continuing, Waiting
    <2>6. CASE pc \in {"finalNote", "dependents"} /\ pc' = "closed" /\ closing' = "returned"
      BY <2>1, <2>3, <2>6 DEF EvidenceInv, Wrapping, Continuing, Waiting
    <2>7. CASE pc = "rNote" /\ pc' = "closed" /\ closing' = "raised"
      BY <2>7 DEF EvidenceInv, Wrapping, Continuing, Waiting
    <2> QED
      BY <1>b, <2>1, <2>2, <2>4, <2>5, <2>6, <2>7
  <1>6. CASE SelectRecovery
    <2>1. /\ EvidenceKept /\ UNCHANGED <<terminal, children>> /\ pc = "selected"
          /\ \/ Redeliver
             \/ /\ closing' = closing
                /\ pc' = IF decision.action = "stop" THEN "terminal"
                         ELSE IF decision.action = LadderEnd THEN "replan" ELSE "budget"
      BY <1>6 DEF SelectRecovery, Deliver, Then, Goto, EvidenceKept, dbVars, localVars, envVars
    <2>2. closing = "none" /\ Timely' /\ decision' = decision
      BY <1>a, <1>c, <2>1 DEF ClosedOnly, EvidenceInv, EvidenceKept
    <2>3. CASE ~Redeliver
      <3>1. \/ pc' \in {"terminal", "replan"}
            \/ pc' = "budget" /\ n' < MaxAttempts
        BY <2>1, <2>2, <2>3 DEF Timely
      <3> QED
        BY <2>1, <2>2, <2>3, <3>1 DEF EvidenceInv, Wrapping, Continuing, Waiting
    <2> QED
      BY <1>b, <2>1, <2>3
  <1>7. CASE CheckBudget
    <2>1. /\ EvidenceKept /\ UNCHANGED <<terminal, children>> /\ pc = "budget"
          /\ \/ Redeliver
             \/ /\ closing' = closing
                /\ \/ decision.budget_sensitive /\ pc' = "budgetGate"
                   \/ pc' = Dispatch(decision.action)
      BY <1>7 DEF CheckBudget, Deliver, Then, Goto, EvidenceKept, dbVars, localVars, envVars
    <2>2. closing = "none" /\ n < MaxAttempts
      BY <1>a, <2>1 DEF ClosedOnly, EvidenceInv, Continuing
    <2>3. CASE ~Redeliver
      <3>1. /\ pc' \in {"spawn", "rollback"} \cup Continuing
            /\ pc' = "budgetGate" => decision.budget_sensitive
            /\ pc' \in Waiting => decision.action = "wait_for_dependency"
        BY <2>1, <2>3 DEF Dispatch, Continuing, Waiting
      <3>2. n' < MaxAttempts /\ closing' = "none" /\ decision' = decision
        BY <2>1, <2>2, <2>3 DEF EvidenceKept
      <3> QED
        BY <3>1, <3>2 DEF EvidenceInv, Wrapping, Continuing, Waiting
    <2> QED
      BY <1>b, <2>1, <2>3
  <1>8. CASE Gate
    <2>1. /\ EvidenceKept /\ UNCHANGED <<terminal, children>> /\ pc \in {"budgetGate", "hitlGate"}
          /\ \/ Redeliver
             \/ /\ closing' = closing
                /\ \/ pc = "budgetGate" /\ pc' \in {Dispatch(decision.action), "fail"}
                   \/ pc' \in {"nextAttempt", "terminal"}
      BY <1>8 DEF Gate, Deliver, Then, Goto, EvidenceKept, dbVars, localVars, envVars
    <2>2. closing = "none" /\ n < MaxAttempts /\ n' < MaxAttempts /\ pc # "closed"
      BY <1>a, <2>1 DEF ClosedOnly, EvidenceInv, Continuing, EvidenceKept
    <2>3. CASE ~Redeliver /\ pc' \in {"nextAttempt", "terminal"}
      BY <2>1, <2>2, <2>3 DEF EvidenceInv, Wrapping, Continuing, Waiting
    <2>4. CASE ~Redeliver /\ pc = "budgetGate" /\ pc' = "fail"
      <3>1. Explained
        BY <2>2, <2>4, NothingFollows DEF EvidenceInv, Explained, GaveUp
      <3>2. Explained'
        BY <1>c, <2>1, <3>1
      <3> QED
        BY <2>1, <2>2, <2>4, <3>2 DEF EvidenceInv, Wrapping, Continuing, Waiting
    <2>5. CASE ~Redeliver /\ pc = "budgetGate" /\ pc' = Dispatch(decision.action)
      <3>1. /\ pc' \in {"spawn", "rollback"} \cup (Continuing \ {"budgetGate"})
            /\ pc' \in Waiting => decision.action = "wait_for_dependency"
        BY <2>5 DEF Dispatch, Continuing, Waiting
      <3>2. decision' = decision /\ closing' = "none"
        BY <2>1, <2>2, <2>5 DEF EvidenceKept
      <3> QED
        BY <2>2, <3>1, <3>2 DEF EvidenceInv, Wrapping, Continuing, Waiting
    <2> QED
      BY <1>b, <2>1, <2>2, <2>3, <2>4, <2>5
  <1>9. CASE FollowUp
    <2>1. /\ EvidenceKept /\ terminal' = terminal /\ pc \in {"replan", "spawn"}
          /\ Redeliver \/ (closing' = closing /\ pc' = "terminal")
      BY <1>9 DEF FollowUp, Deliver, Then, Goto, EvidenceKept, localVars, envVars
    <2>2. closing = "none"
      BY <1>a, <2>1 DEF ClosedOnly
    <2> QED
      BY <1>a, <2>1, <2>2, EvidenceRedelivered DEF EvidenceInv, Wrapping, Continuing, Waiting
  <1>10. CASE RecordTerminal
    <2>1. PICK key \in Key :
            /\ EvidenceKept /\ children' = children /\ pc \in {"terminal", "rTerminal"}
            /\ terminal' = AppendNew(terminal, key)
            /\ pc = "terminal" => key = RecoveryKey
      BY <1>a, <1>10, KeysType DEF RecordTerminal, Deliver, Then, EvidenceKept, localVars,
         envVars
    <2>2. /\ Recorded(terminal', key)
          /\ Recorded(terminal, RecoveryKey) => Recorded(terminal', RecoveryKey)
      BY <1>a, <2>1, AppendNewRecords
    <2>3. \/ Redeliver
          \/ pc = "terminal" /\ pc' = "fail" /\ closing' = closing
          \/ pc = "rTerminal" /\ pc' \in {"rCancel", "rRun", "rFail"} /\ closing' = closing
      BY <1>10, <2>1 DEF RecordTerminal, Deliver, Then, Goto, RTarget
    <2>4. closing = "none" /\ RecoveryKey' = RecoveryKey
      BY <1>a, <1>c, <2>1 DEF ClosedOnly
    <2>5. CASE Redeliver
      BY <1>a, <2>1, <2>2, <2>5, EvidenceRedelivered
    <2>6. CASE pc = "terminal" /\ pc' = "fail" /\ closing' = closing
      BY <2>1, <2>2, <2>4, <2>6 DEF EvidenceInv, Explained, Wrapping, Continuing, Waiting
    <2>7. CASE pc = "rTerminal" /\ pc' \in {"rCancel", "rRun", "rFail"} /\ closing' = closing
      BY <2>4, <2>7 DEF EvidenceInv, Wrapping, Continuing, Waiting
    <2> QED
      BY <2>3, <2>5, <2>6, <2>7
  <1>11. CASE ReadStatus \/ WriteStatus
    <2>1. /\ EvidenceKept /\ UNCHANGED <<terminal, children>> /\ pc \in DOMAIN StatusArg
          /\ \/ Redeliver \/ (pc' = pc /\ closing' = closing)
             \/ closing' = closing /\ pc' = Follows[pc]
      BY <1>11 DEF ReadStatus, WriteStatus, Deliver, Then, Goto, EvidenceKept, dbVars, localVars,
         envVars
    <2>2. closing = "none" /\ pc # "closed"
      BY <1>a, <2>1 DEF ClosedOnly, StatusArg
    <2>3. Explained' = Explained /\ Timely' = Timely /\ result' = result
      BY <1>c, <2>1 DEF EvidenceKept
    <2>4. CASE pc' = pc /\ closing' = closing
      BY <2>1, <2>2, <2>3, <2>4 DEF EvidenceInv, EvidenceKept
    <2>5. CASE closing' = closing /\ pc' = Follows[pc]
      <3>1. pc \in {"block", "unblock"} => n' < MaxAttempts /\ decision' = decision
        BY <2>1 DEF EvidenceInv, EvidenceKept, Continuing
      <3>2. \/ pc \in {"complete", "fail"} /\ pc' = "finalNote"
            \/ pc' \in {"toRunning", "startAttempt", "rFail", "rNote"}
            \/ pc = "block" /\ pc' = "depWait"
            \/ pc = "unblock" /\ pc' = "nextAttempt"
        BY <2>1, <2>5 DEF StatusArg, Follows
      <3>3. CASE pc \in {"complete", "fail"} /\ pc' = "finalNote"
        <4>1. result' = "success" \/ Explained'
          BY <1>c, <2>1, <2>3, <3>3 DEF EvidenceInv
        <4> QED
          BY <2>2, <2>5, <3>3, <4>1 DEF EvidenceInv, Wrapping, Continuing, Waiting
      <3>4. CASE pc' \in {"toRunning", "startAttempt", "rFail", "rNote"}
        BY <2>2, <2>5, <3>4 DEF EvidenceInv, Wrapping, Continuing, Waiting
      <3>5. CASE pc = "block" /\ pc' = "depWait"
        BY <2>2, <2>5, <3>1, <3>5 DEF EvidenceInv, Wrapping, Continuing, Waiting
      <3>6. CASE pc = "unblock" /\ pc' = "nextAttempt"
        BY <2>2, <2>5, <3>1, <3>6 DEF EvidenceInv, Wrapping, Continuing, Waiting
      <3> QED
        BY <3>2, <3>3, <3>4, <3>5, <3>6
    <2> QED
      BY <1>b, <2>1, <2>2, <2>4, <2>5
  <1>12. CASE ReconcileLoad
    <2>1. /\ EvidenceKept /\ UNCHANGED <<terminal, children>> /\ pc = "rLoad"
          /\ \/ Redeliver
             \/ pc' = "closed" /\ closing' = "raised"
             \/ pc' \in {"rFinish", "rTerminal"} /\ closing' = closing
      BY <1>12 DEF ReconcileLoad, Deliver, Goto, Close, EvidenceKept, dbVars, localVars, envVars
    <2>2. closing = "none"
      BY <1>a, <2>1 DEF ClosedOnly
    <2>3. CASE ~Redeliver
      BY <2>1, <2>2, <2>3 DEF EvidenceInv, Wrapping, Continuing, Waiting
    <2> QED
      BY <1>b, <2>1, <2>3
  <1>13. CASE LeaveCheckpoint \/ LeaveDependencyWait
    <2>1. /\ EvidenceKept /\ UNCHANGED <<terminal, children>> /\ closing' = closing
          /\ pc # "closed"
          /\ \/ pc = "parked1" /\ pc' = "resuming1"
             \/ pc = "parked2" /\ pc' = "resuming2"
             \/ pc = "depWait" /\ pc' \in {"depResumed", "fail"}
      BY <1>13 DEF LeaveCheckpoint, LeaveDependencyWait, Goto, EvidenceKept, dbVars, localVars,
         envVars
    <2>2. closing' = "none" /\ Timely' = Timely /\ result' = result /\ n' = n
      BY <1>a, <1>c, <2>1 DEF ClosedOnly, EvidenceKept
    <2>3. CASE pc \in {"parked1", "parked2"}
      BY <2>1, <2>2, <2>3 DEF EvidenceInv, Wrapping, Continuing, Waiting
    <2>4. CASE pc = "depWait"
      <3>1. n < MaxAttempts /\ Explained
        BY <2>4, NothingFollows DEF EvidenceInv, Continuing, Waiting, Explained, GaveUp
      <3>2. Explained'
        BY <1>c, <2>1, <3>1
      <3> QED
        BY <2>1, <2>2, <2>4, <3>1, <3>2 DEF EvidenceInv, Wrapping, Continuing, Waiting
    <2> QED
      BY <2>1, <2>3, <2>4
  <1>14. CASE NextAttempt
    <2>1. closing' = "none" /\ pc' = "startAttempt"
      BY <1>a, <1>14 DEF NextAttempt, Goto, EvidenceInv, Continuing, ClosedOnly
    <2> QED
      BY <2>1 DEF EvidenceInv, Wrapping, Continuing, Waiting
  <1>15. CASE CrashBefore
    <2>1. EvidenceKept /\ UNCHANGED <<terminal, children>> /\ pc # "closed" /\ Redeliver
      BY <1>15 DEF CrashBefore, EvidenceKept, Local, dbVars, localVars, envVars
    <2> QED
      BY <1>b, <2>1
  <1>d. ASSUME EvidenceKept, UNCHANGED <<pc, closing, terminal, children>>
        PROVE  EvidenceInv'
    BY <1>c, <1>d DEF EvidenceInv, EvidenceKept
  <1>16. CASE Client
    <2>1. StartRun \/ (EvidenceKept /\ UNCHANGED <<pc, closing, terminal, children>>)
      BY <1>16 DEF Client, ExecuteRequest, TickRequest, DirectRequest, CancelRequest, Start,
         Touch, WriteBack, EvidenceKept, dbVars, localVars, callVars
    <2>2. CASE StartRun
      BY <2>2 DEF StartRun, EvidenceInv, Wrapping, Continuing, Waiting
    <2> QED
      BY <1>d, <2>1, <2>2
  <1>17. CASE EndSession \/ CheckDependencies
    <2>1. /\ EvidenceKept /\ UNCHANGED <<terminal, children>> /\ pc \in {"endSession", "depCheck"}
          /\ \/ Redeliver
             \/ /\ closing' = closing
                /\ \/ pc' \in {"announce", "depSatisfied"}
                   \/ pc = "depCheck" /\ pc' = "block"
      BY <1>17 DEF EndSession, CheckDependencies, Deliver, Then, Goto, EvidenceKept, dbVars,
         localVars, envVars
    <2>2. /\ closing = "none" /\ pc # "closed" /\ n' < MaxAttempts
          /\ pc = "depCheck" => decision'.action = "wait_for_dependency"
      BY <1>a, <2>1 DEF ClosedOnly, EvidenceInv, Continuing, Waiting, EvidenceKept
    <2>3. CASE ~Redeliver
      BY <2>1, <2>2, <2>3 DEF EvidenceInv, Wrapping, Continuing, Waiting
    <2> QED
      BY <1>b, <2>1, <2>2, <2>3
  <1>18. CASE StrayEnds \/ SignalPause \/ SignalResume \/ Supervise \/ UNCHANGED vars
    <2>1. EvidenceKept /\ UNCHANGED <<pc, closing, terminal, children>>
      BY <1>18 DEF StrayEnds, SignalPause, SignalResume, Supervise, FindStale, MarkLost, vars,
         EvidenceKept, dbVars, localVars, callVars, envVars
    <2> QED
      BY <1>d, <2>1
  <1> QED
    BY <1>1, <1>2, <1>3, <1>4, <1>5, <1>6, <1>7, <1>8, <1>9, <1>10, <1>11, <1>12, <1>13,
       <1>14, <1>15, <1>16, <1>17, <1>18 DEF Next, Worker, Activity

\* A run that returns without success has recorded the terminal failure of
\* the attempt it gave up on, or cost control refused its recovery, or it
\* waited in vain for a dependency: for every set of failure classes.
THEOREM FailureIsEvidenced == Spec => []EvidencedFailure
  <1>1. EvidenceInv => EvidencedFailure
    BY DEF EvidenceInv, Explained, EvidencedFailure
  <1>2. Inv /\ LadderInv /\ EvidenceInv /\ [Next]_vars => EvidenceInv'
    BY EvidenceStep
  <1>3. Inv /\ LadderInv /\ [Next]_vars => LadderInv'
    BY LadderStep
  <1> QED
    BY <1>1, <1>2, <1>3, LadderInit, EvidenceInit, Invariance, PTL DEF Spec

-----------------------------------------------------------------------------
(* What the office shows of a parked run, or of one at work.               *)

\* Calls of an iteration that has an agent.
Staffed == (Preparing \ {"startAgent"}) \cup Wrapping

\* The repository is snapshot between the agent's last write and its work.
CheckpointInv ==
  /\ pc \in Staffed => ag # 0
  /\ pc \in {"parked1", "parked2"} => agents[ag] \in {"paused", "failed"}
  /\ pc \in {"snapshot", "execute"} => agents[ag] \in {"running", "failed"}

LEMMA ErrorsUnstaffed == Errors \cap Staffed = {}
  BY DEF Errors, Staffed, Preparing, Wrapping

\* A step that reaches none of these calls, or that leaves the agents as they are.
LEMMA OutOfOffice ==
  ASSUME pc' \notin Staffed
  PROVE  CheckpointInv'
  BY DEF CheckpointInv, Staffed, Preparing, Wrapping

LEMMA OfficeUnchanged ==
  ASSUME CheckpointInv, UNCHANGED <<agents, ag>>,
         pc' = pc \/ pc' \notin Staffed \/ (pc = "snapshot" /\ pc' = "execute")
         \/ (pc \in Staffed /\ pc' \notin {"parked1", "parked2", "snapshot", "execute"})
  PROVE  CheckpointInv'
  BY DEF CheckpointInv, Staffed, Preparing, Wrapping

LEMMA CheckpointStarts == Init => CheckpointInv
  BY DEF Init, CheckpointInv, Staffed, Preparing, Wrapping

LEMMA CheckpointStep ==
  ASSUME Inv, CheckpointInv, [Next]_vars
  PROVE  CheckpointInv'
  <1> USE DEF Inv, TypeOK
  <1>a. /\ CallOK /\ agents \in Seq(AgentState) /\ ag \in 0..Len(agents)
        /\ Len(agents) \in Nat /\ DOMAIN agents = 1..Len(agents)
    BY DEF RowsOK, RunOK
  <1>b. ASSUME Redeliver, UNCHANGED <<agents, ag>> PROVE CheckpointInv'
    BY <1>a, <1>b, RedeliverCall, ErrorsUnstaffed, OfficeUnchanged
  <1>c. ASSUME Redeliver, pc \notin Staffed PROVE CheckpointInv'
    BY <1>a, <1>c, RedeliverCall, ErrorsUnstaffed, OutOfOffice
  <1>1. CASE LoadTask \/ StartAttempt \/ FinishAttempt \/ SelectRecovery \/ FollowUp
    <2>1. pc \notin Staffed
      BY <1>1 DEF LoadTask, StartAttempt, FinishAttempt, SelectRecovery, FollowUp, Staffed, Preparing, Wrapping
    <2>2. pc' \notin Staffed \/ Redeliver
      BY <1>1 DEF LoadTask, StartAttempt, FinishAttempt, SelectRecovery, FollowUp,
         Deliver, Then, Goto, Staffed, Preparing, Wrapping
    <2> QED
      BY <1>c, <2>1, <2>2, OutOfOffice
  <1>2. CASE CheckDependencies \/ ReconcileLoad \/ EndSession
    <2>1. pc \notin Staffed
      BY <1>2 DEF CheckDependencies, ReconcileLoad, EndSession, Staffed, Preparing, Wrapping
    <2>2. pc' \notin Staffed \/ Redeliver
      BY <1>2 DEF CheckDependencies, ReconcileLoad, EndSession,
         Deliver, Then, Goto, Close, Staffed, Preparing, Wrapping
    <2> QED
      BY <1>c, <2>1, <2>2, OutOfOffice
  <1>3. CASE CheckBudget \/ Gate \/ RecordTerminal
    <2>1. pc \notin Staffed
      BY <1>3 DEF CheckBudget, Gate, RecordTerminal, Staffed, Preparing, Wrapping
    <2>2. pc' \notin Staffed \/ Redeliver
      BY <1>3 DEF CheckBudget, Gate, RecordTerminal, Dispatch, RTarget,
         Deliver, Then, Goto, Staffed, Preparing, Wrapping
    <2> QED
      BY <1>c, <2>1, <2>2, OutOfOffice
  <1>4. CASE WriteStatus \/ ReadStatus
    <2>1. pc \notin Staffed
      BY <1>4 DEF WriteStatus, ReadStatus, StatusArg, Staffed, Preparing, Wrapping
    <2>2. pc' \notin Staffed \/ Redeliver
      BY <1>4, <2>1 DEF WriteStatus, ReadStatus, StatusArg, Follows,
         Deliver, Then, Goto, Staffed, Preparing, Wrapping
    <2> QED
      BY <1>c, <2>1, <2>2, OutOfOffice
  <1>5. CASE StartAgent
    <2>1. CASE Redeliver
      <3>1. pc \notin Staffed
        BY <1>5 DEF StartAgent, Staffed, Preparing, Wrapping
      <3> QED
        BY <1>c, <2>1, <3>1
    <2>2. CASE ag' = Len(agents) + 1 /\ pc' = "agentRun"
      BY <1>a, <2>2 DEF CheckpointInv
    <2> QED
      BY <1>5, <2>1, <2>2 DEF StartAgent, Deliver, Goto
  <1>6. CASE SetAgentState
    <2>1. CASE Redeliver /\ UNCHANGED <<agents, ag>>
      BY <1>b, <2>1
    <2>2. CASE Redeliver /\ ag' = ag
      <3>1. pc' \in {pc} \cup Errors
        BY <1>a, <2>2, RedeliverCall
      <3>2. pc \notin {"parked1", "parked2", "snapshot", "execute"}
        BY <1>6 DEF SetAgentState, AgentArg
      <3> QED
        BY <2>2, <3>1, <3>2, ErrorsUnstaffed, OutOfOffice DEF CheckpointInv
    <2>3. CASE /\ agents' = [agents EXCEPT ![ag] = AgentArg[pc]] /\ ag' = ag
               /\ pc' = IF pc = "agentRun" THEN Checkpoint(pc) ELSE Follows[pc]
      <3>1. CASE pc' \in Staffed
        <4>1. pc \in Staffed
          BY <1>6, <2>3, <3>1 DEF SetAgentState, AgentArg, Follows, Checkpoint, Staffed, Preparing, Wrapping
        <4>2. ag \in DOMAIN agents
          BY <1>a, <4>1 DEF CheckpointInv
        <4>3. agents'[ag] = AgentArg[pc]
          BY <2>3, <4>2
        <4>4. pc' \in {"parked1", "parked2"} => AgentArg[pc] = "paused"
          BY <1>6, <2>3 DEF SetAgentState, AgentArg, Follows, Checkpoint
        <4>5. pc' \in {"snapshot", "execute"} => AgentArg[pc] = "running"
          BY <1>6, <2>3 DEF SetAgentState, AgentArg, Follows, Checkpoint
        <4> QED
          BY <2>3, <4>2, <4>3, <4>4, <4>5, <1>a DEF CheckpointInv
      <3> QED
        BY <3>1, OutOfOffice
    <2> QED
      BY <1>6, <2>1, <2>2, <2>3 DEF SetAgentState, Deliver, Then, Goto, dbVars, localVars
  <1>7. CASE Note
    <2>1. UNCHANGED <<agents, ag>>
      BY <1>7 DEF Note, Deliver, localVars
    <2>2. Redeliver \/ pc' \notin Staffed \/ (pc = "snapshot" /\ pc' = "execute")
      BY <1>7 DEF Note, Deliver, Goto, Close, Notes, Follows, Staffed, Preparing, Wrapping
    <2> QED
      BY <1>b, <2>1, <2>2, OfficeUnchanged
  <1>8. CASE Execute
    <2>1. UNCHANGED <<agents, ag>> /\ pc = "execute"
      BY <1>8 DEF Execute, dbVars, localVars
    <2>2. Redeliver \/ pc' \in {"pauseReq2", "verify"}
      BY <1>8 DEF Execute, Goto, Checkpoint
    <2>3. pc \in Staffed
      BY <2>1 DEF Staffed, Preparing
    <2> QED
      BY <1>b, <2>1, <2>2, <2>3, OfficeUnchanged
  <1>9. CASE LeaveCheckpoint
    <2>1. UNCHANGED <<agents, ag>> /\ pc \in {"parked1", "parked2"} /\ pc' \in {"resuming1", "resuming2"}
      BY <1>9 DEF LeaveCheckpoint, Goto, dbVars, localVars
    <2>2. pc \in Staffed
      BY <2>1 DEF Staffed, Preparing, Wrapping
    <2> QED
      BY <2>1, <2>2, OfficeUnchanged
  <1>10. CASE LeaveDependencyWait \/ NextAttempt
    <2>1. pc' \notin Staffed
      BY <1>10 DEF LeaveDependencyWait, NextAttempt, Goto, Staffed, Preparing, Wrapping
    <2> QED
      BY <2>1, OutOfOffice
  <1>11. CASE CrashBefore
    BY <1>11, <1>b DEF CrashBefore, dbVars, localVars
  <1>12. CASE Client
    <2>1. CASE UNCHANGED <<agents, localVars, callVars>>
      BY <2>1, OfficeUnchanged DEF localVars, callVars
    <2>2. CASE StartRun
      <3>1. pc' \notin Staffed
        BY <2>2 DEF StartRun, Staffed, Preparing, Wrapping
      <3> QED
        BY <3>1, OutOfOffice
    <2> QED
      BY <1>12, <2>1, <2>2 DEF Client, ExecuteRequest, TickRequest, DirectRequest, CancelRequest,
         Start, Touch, WriteBack, dbVars
  <1>13. CASE StrayEnds \/ SignalPause \/ SignalResume \/ FindStale \/ UNCHANGED vars
    BY <1>13, OfficeUnchanged DEF StrayEnds, SignalPause, SignalResume, FindStale, vars,
       dbVars, localVars, callVars
  <1>14. CASE MarkLost
    <2>1. agents' = [agents EXCEPT ![doomed] = "failed"] /\ UNCHANGED <<pc, ag>>
      BY <1>14 DEF MarkLost, localVars, callVars
    <2>2. pc \in Staffed => agents'[ag] \in {agents[ag], "failed"}
      BY <1>a, <2>1 DEF CheckpointInv
    <2> QED
      BY <2>1, <2>2 DEF CheckpointInv, Staffed, Preparing, Wrapping
  <1> QED
    BY <1>1, <1>2, <1>3, <1>4, <1>5, <1>6, <1>7, <1>8, <1>9, <1>10, <1>11, <1>12, <1>13, <1>14
       DEF Next, Worker, Activity, Supervise

\* A run is parked only while its agent's row says paused, and works only while the
\* row says running, or failed where supervision has given the agent up.
THEOREM OfficeIsTruthful == Spec => []CheckpointTruthful
  <1>1. CheckpointInv => CheckpointTruthful
    BY DEF CheckpointInv, CheckpointTruthful
  <1>2. Inv /\ CheckpointInv /\ [Next]_vars => CheckpointInv'
    BY CheckpointStep
  <1> QED
    BY <1>1, <1>2, CheckpointStarts, Invariance, PTL DEF Spec

-----------------------------------------------------------------------------
(* Retries are announced, for the classes that neither wait for a          *)
(* dependency nor ask for an approval: both of those go on to the next     *)
(* attempt without a RETRY_STARTED event.                                  *)

Unannounced == {"DEPENDENCY_FAILURE", "RESOURCE_LIMIT"}

\* Calls that are made for the other classes never.
Skipping == {"hitlGate", "depCheck", "block", "depWait", "depSatisfied", "depResumed",
             "unblock", "nextAttempt"}

\* The run is in its first attempt before the first is started, and announces the
\* next one before it waits for it.
AnnouncedInv ==
  /\ decision.action \notin {"request_hitl", "wait_for_dependency"} /\ pc \notin Skipping
  /\ pc \in {"load", "toReady", "toRunning"} => n = 1
  /\ pc = "backoff" => Recorded(announced, <<run, n>>)
  /\ pc = "startAttempt" /\ n > 1 => Recorded(announced, <<run, n - 1>>)

\* Calls whose place in the run matters here.
Placed == Skipping \cup {"load", "toReady", "toRunning", "backoff", "startAttempt"}

LEMMA ErrorsUnplaced == Errors \cap Placed = {}
  BY DEF Errors, Placed, Skipping

\* No other class waits or asks.
LEMMA AnnouncedDecision ==
  ASSUME NEW class \in FailureClass \ Unannounced, NEW k \in 1..MaxAttempts
  PROVE  Decision(class, k, MaxAttempts).action \notin {"request_hitl", "wait_for_dependency"}
  <1>1. Decision(class, k, MaxAttempts).action = ActionFor(class, AttemptsLeft(k, MaxAttempts))
    BY DEF Decision
  <1>2. ClassAction[class] \notin {"request_hitl", "wait_for_dependency"}
    BY DEF FailureClass, ClassAction, Unannounced
  <1>3. class \in DOMAIN LastAttemptAction =>
          LastAttemptAction[class] \notin {"request_hitl", "wait_for_dependency"}
    BY DEF LastAttemptAction, Unannounced
  <1>4. LadderEnd \notin {"request_hitl", "wait_for_dependency"}
    BY DEF LadderEnd
  <1>5. ActionFor(class, AttemptsLeft(k, MaxAttempts)) \in {ClassAction[class], LadderEnd}
        \/ (class \in DOMAIN LastAttemptAction
            /\ ActionFor(class, AttemptsLeft(k, MaxAttempts)) = LastAttemptAction[class])
    BY DEF ActionFor
  <1> QED
    BY <1>1, <1>2, <1>3, <1>4, <1>5

LEMMA AnnouncedStarts == Init => AnnouncedInv
  BY DEF Init, AnnouncedInv, NoAction, Skipping

\* What is recorded stays recorded.
LEMMA StaysAnnounced ==
  ASSUME announced \in Seq(Key), NEW key, Recorded(announced, key),
         announced' = announced \/ \E k \in Key : announced' = Append(announced, k)
  PROVE  Recorded(announced', key)
  BY DEF Recorded

\* A step that stays where it is, or goes to a call that has no such place.
LEMMA PlaceUnchanged ==
  ASSUME AnnouncedInv, announced \in Seq(Key), UNCHANGED <<run, n, decision>>,
         announced' = announced \/ \E k \in Key : announced' = Append(announced, k),
         pc' = pc \/ pc' \notin Placed
  PROVE  AnnouncedInv'
  <1>1. pc' = pc => pc' \notin Skipping
    BY DEF AnnouncedInv
  <1>2. pc' \notin Placed => pc' \notin Skipping
    BY DEF Placed
  <1>3. pc' \notin Skipping
    BY <1>1, <1>2
  <1>4. pc' \in Placed => pc' = pc
    OBVIOUS
  <1>5. pc' \in {"load", "toReady", "toRunning"} => n' = 1
    BY <1>4 DEF AnnouncedInv, Placed
  <1>6. pc' = "backoff" => Recorded(announced', <<run', n'>>)
    BY <1>4, StaysAnnounced DEF AnnouncedInv, Placed
  <1>7. pc' = "startAttempt" /\ n' > 1 => Recorded(announced', <<run', n' - 1>>)
    BY <1>4, StaysAnnounced DEF AnnouncedInv, Placed
  <1> QED
    BY <1>3, <1>5, <1>6, <1>7 DEF AnnouncedInv

LEMMA AnnouncedStep ==
  ASSUME Inv, AnnouncedInv, [Next]_vars, Classes \cap Unannounced = {}
  PROVE  AnnouncedInv'
  <1> USE DEF Inv, TypeOK
  <1>a. /\ CallOK /\ announced \in Seq(Key) /\ RecoveryKey \in Key
        /\ n \in 1..MaxAttempts /\ n \in Nat /\ run \in Nat
    BY KeysType, BoundsAssumption DEF RowsOK, RunOK, EnvOK
  <1>b. ASSUME Redeliver, UNCHANGED <<run, n, decision>>,
               announced' = announced \/ \E k \in Key : announced' = Append(announced, k)
        PROVE  AnnouncedInv'
    BY <1>a, <1>b, RedeliverCall, ErrorsUnplaced, PlaceUnchanged
  <1>1. CASE LoadTask
    <2>1. UNCHANGED <<run, n, decision, announced>> /\ pc = "load"
      BY <1>1 DEF LoadTask, Deliver, dbVars, envVars, localVars
    <2>2. Redeliver \/ pc' \in {"toReady", "toRunning"}
      BY <1>1 DEF LoadTask, Deliver, Goto
    <2>3. pc' \in {"toReady", "toRunning"} => AnnouncedInv'
      BY <2>1 DEF AnnouncedInv, Skipping
    <2> QED
      BY <1>b, <2>1, <2>2, <2>3
  <1>2. CASE WriteStatus
    <2>1. UNCHANGED <<run, n, decision, announced>> /\ pc \in DOMAIN StatusArg
      BY <1>2 DEF WriteStatus, Deliver, Then, envVars, localVars
    <2>2. Redeliver \/ pc' = Follows[pc]
      BY <1>2 DEF WriteStatus, Deliver, Then, Goto
    <2>3. ASSUME pc' = Follows[pc] PROVE AnnouncedInv'
      <3>1. CASE pc \in {"toReady", "toRunning"}
        <4>1. n = 1 /\ pc' \in {"toRunning", "startAttempt"}
          BY <2>3, <3>1 DEF AnnouncedInv, Follows
        <4> QED
          BY <2>1, <4>1 DEF AnnouncedInv, Skipping
      <3>2. CASE pc \notin {"toReady", "toRunning"}
        <4>1. pc \notin {"block", "unblock"}
          BY DEF AnnouncedInv, Skipping
        <4>2. pc' \notin Placed
          BY <2>1, <2>3, <3>2, <4>1 DEF Follows, StatusArg, Placed, Skipping
        <4> QED
          BY <1>a, <2>1, <4>2, PlaceUnchanged
      <3> QED
        BY <3>1, <3>2
    <2> QED
      BY <1>b, <2>1, <2>2, <2>3
  <1>3. CASE StartAttempt \/ StartAgent \/ FinishAttempt \/ FollowUp \/ EndSession \/ RecordTerminal
    <2>1. UNCHANGED <<run, n, decision, announced>>
      BY <1>3 DEF StartAttempt, StartAgent, FinishAttempt, FollowUp, EndSession, RecordTerminal,
         Deliver, Then, envVars, localVars
    <2>2. Redeliver \/ pc' \notin Placed
      BY <1>3 DEF StartAttempt, StartAgent, FinishAttempt, FollowUp, EndSession, RecordTerminal,
         Deliver, Then, Goto, RTarget, Placed, Skipping
    <2> QED
      BY <1>a, <1>b, <2>1, <2>2, PlaceUnchanged
  <1>4. CASE SelectRecovery \/ CheckBudget \/ Gate \/ CheckDependencies \/ ReconcileLoad
    <2>1. UNCHANGED <<run, n, decision, announced>>
      BY <1>4 DEF SelectRecovery, CheckBudget, Gate, CheckDependencies, ReconcileLoad,
         Deliver, Then, dbVars, envVars, localVars
    <2>2. Dispatch(decision.action) \notin Placed
      BY DEF AnnouncedInv, Dispatch, Placed, Skipping
    <2>3. pc \notin {"hitlGate", "depCheck"}
      BY DEF AnnouncedInv, Skipping
    <2>4. Redeliver \/ pc' \notin Placed
      <3>1. CASE SelectRecovery \/ CheckDependencies \/ ReconcileLoad
        BY <2>3, <3>1 DEF SelectRecovery, CheckDependencies, ReconcileLoad,
           Deliver, Then, Goto, Close, Placed, Skipping
      <3>2. CASE CheckBudget \/ Gate
        <4>1. Redeliver \/ pc' \in {"budgetGate", "fail", Dispatch(decision.action)}
          BY <2>3, <3>2 DEF CheckBudget, Gate, Deliver, Then, Goto
        <4> QED
          BY <2>2, <4>1 DEF Placed, Skipping
      <3> QED
        BY <1>4, <3>1, <3>2
    <2> QED
      BY <1>a, <1>b, <2>1, <2>4, PlaceUnchanged
  <1>5. CASE SetAgentState
    <2>1. UNCHANGED <<run, n, decision, announced>>
      BY <1>5 DEF SetAgentState, Deliver, Then, dbVars, envVars, localVars
    <2>2. Redeliver \/ pc' \notin Placed
      BY <1>5 DEF SetAgentState, AgentArg, Deliver, Then, Goto, Follows, Checkpoint, Placed, Skipping
    <2> QED
      BY <1>a, <1>b, <2>1, <2>2, PlaceUnchanged
  <1>6. CASE Note
    <2>1. UNCHANGED <<run, n, decision>> /\ pc \in Notes
      BY <1>6 DEF Note, Deliver, envVars, localVars
    <2>2. announced' = announced \/ announced' = Append(announced, RecoveryKey)
      BY <1>6 DEF Note, Deliver
    <2>3. pc \notin {"depSatisfied", "depResumed"}
      BY DEF AnnouncedInv, Skipping
    <2>4. Redeliver \/ pc' \notin Placed \/ (pc = "retryNote" /\ pc' = "backoff")
      BY <1>6, <2>1, <2>3 DEF Note, Deliver, Goto, Close, Notes, Follows, Placed, Skipping
    <2>5. ASSUME pc = "retryNote", pc' = "backoff" PROVE AnnouncedInv'
      <3>1. announced' = Append(announced, RecoveryKey)
        BY <1>6, <2>5 DEF Note, Deliver
      <3>2. Recorded(announced', <<run', n'>>)
        BY <1>a, <2>1, <3>1 DEF Recorded, RecoveryKey
      <3> QED
        BY <2>1, <2>5, <3>2 DEF AnnouncedInv, Skipping
    <2> QED
      BY <1>a, <1>b, <2>1, <2>2, <2>4, <2>5, PlaceUnchanged
  <1>7. CASE Execute
    <2>1. UNCHANGED <<run, n, announced>>
      BY <1>7 DEF Execute, dbVars, localVars
    <2>2. CASE Redeliver /\ UNCHANGED decision
      BY <1>b, <2>1, <2>2
    <2>3. CASE pc' \in {"pauseReq2", "verify"} /\ decision'.action \notin {"request_hitl", "wait_for_dependency"}
      BY <2>3 DEF AnnouncedInv, Skipping
    <2>4. ASSUME NEW c \in {"success"} \cup Classes,
                 decision' = IF c = "success" THEN NoAction ELSE Decision(c, n, MaxAttempts)
          PROVE  decision'.action \notin {"request_hitl", "wait_for_dependency"}
      <3>1. CASE c = "success"
        BY <2>4, <3>1 DEF NoAction
      <3>2. CASE c # "success"
        BY <1>a, <2>4, <3>2, AnnouncedDecision, ClassesAssumption
      <3> QED
        BY <3>1, <3>2
    <2> QED
      BY <1>7, <2>2, <2>3, <2>4 DEF Execute, Goto, Checkpoint, localVars
  <1>8. CASE LeaveCheckpoint \/ LeaveDependencyWait \/ ReadStatus \/ CrashBefore
    <2>1. UNCHANGED <<run, n, decision, announced>>
      BY <1>8 DEF LeaveCheckpoint, LeaveDependencyWait, ReadStatus, CrashBefore, dbVars, envVars, localVars
    <2>2. pc # "depWait"
      BY DEF AnnouncedInv, Skipping
    <2>3. Redeliver \/ pc' = pc \/ pc' \notin Placed
      BY <1>8, <2>2 DEF LeaveCheckpoint, LeaveDependencyWait, ReadStatus, CrashBefore, Goto, Placed, Skipping
    <2> QED
      BY <1>a, <1>b, <2>1, <2>3, PlaceUnchanged
  <1>9. CASE NextAttempt
    <2>1. UNCHANGED <<run, decision, announced>> /\ pc = "backoff"
      BY <1>9 DEF NextAttempt, AnnouncedInv, Skipping, dbVars, envVars
    <2>2. (n' = n + 1 /\ pc' = "startAttempt") \/ pc' = "fail"
      BY <1>9 DEF NextAttempt, Goto
    <2>3. n' = n + 1 => n' - 1 = n
      BY <1>a
    <2> QED
      BY <2>1, <2>2, <2>3 DEF AnnouncedInv, Skipping
  <1>10. CASE Client
    <2>1. CASE UNCHANGED <<run, n, decision, announced, pc>>
      BY <1>a, <2>1, PlaceUnchanged
    <2>2. CASE StartRun
      BY <2>2 DEF StartRun, AnnouncedInv, NoAction, Skipping
    <2> QED
      BY <1>10, <2>1, <2>2 DEF Client, ExecuteRequest, TickRequest, DirectRequest, CancelRequest,
         Start, Touch, WriteBack, dbVars, localVars, callVars
  <1>11. CASE StrayEnds \/ SignalPause \/ SignalResume \/ Supervise \/ UNCHANGED vars
    <2>1. UNCHANGED <<run, n, decision, announced, pc>>
      BY <1>11 DEF StrayEnds, SignalPause, SignalResume, Supervise, FindStale, MarkLost, vars,
         dbVars, envVars, localVars, callVars
    <2> QED
      BY <1>a, <2>1, PlaceUnchanged
  <1> QED
    BY <1>1, <1>2, <1>3, <1>4, <1>5, <1>6, <1>7, <1>8, <1>9, <1>10, <1>11 DEF Next, Worker, Activity

\* Every attempt after the first is announced by RETRY_STARTED before it is started,
\* if no failure waits for a dependency or asks for an approval.
THEOREM RetriesAreAnnounced ==
  ASSUME Classes \cap Unannounced = {}
  PROVE  Spec => []AnnouncedRetries
  <1>1. AnnouncedInv => AnnouncedRetries
    BY DEF AnnouncedInv, AnnouncedRetries
  <1>2. Inv /\ AnnouncedInv /\ [Next]_vars => AnnouncedInv'
    BY AnnouncedStep
  <1> QED
    BY <1>1, <1>2, AnnouncedStarts, Invariance, PTL DEF Spec
=============================================================================
