-------------------------- MODULE HitlGate_proofs --------------------------
(***************************************************************************)
(* Proofs about HitlGate for any set of people: the gate fails closed, one *)
(* decider wins, the row agrees with what the gate reported, and only the  *)
(* timeout revokes a decision.                                             *)
(***************************************************************************)
EXTENDS HitlGate, TLAPS

\* What a request knows of the row while it holds the lock, and what the row
\* remembers of the verdicts that were acknowledged.
LockDiscipline ==
  /\ \A p \in People : person[p] = "reading" <=> lock = p
  /\ \A p \in People : person[p] = "reading" => saw[p] = status
  /\ \A p \in People : person[p] # "done" => answer[p] = "none"
  /\ \A p \in People : answer[p] \in Terminal => status \in Terminal

\* Where the worker is and what it has reported.
GateProgress ==
  /\ gate = "new" <=> status = "none"
  /\ gate \in {"answered", "acted", "denied"} => reported # Unseen
  /\ gate \in {"new", "waiting", "givingUp"} => reported = Unseen
  /\ gate = "acted" => reported = "approved"

Inv == TypeOK /\ LockDiscipline /\ GateProgress /\ OneDecider /\ ReportMatchesRow

USE NobodyAssumption

-----------------------------------------------------------------------------
LEMMA InitInv == Init => Inv
  BY DEF Init, Inv, TypeOK, LockDiscipline, GateProgress, OneDecider, ReportMatchesRow,
         Terminal, Verdicts, Unseen

\* The worker's own steps: only the two that write the row need the lock free.
LEMMA WorkerInv == Inv /\ (Worker \/ WorkerDies) => Inv'
<1> SUFFICES ASSUME Inv, Worker \/ WorkerDies PROVE Inv'
  OBVIOUS
<1> USE DEF Inv, TypeOK, LockDiscipline, GateProgress, OneDecider, ReportMatchesRow,
            Terminal, Verdicts, Unseen, rowVars, personVars, Return
<1>1. CASE Create       BY <1>1 DEF Create
<1>2. CASE Expire       BY <1>2 DEF Expire
<1>3. CASE SeeDecision  BY <1>3 DEF SeeDecision
<1>4. CASE GiveUp       BY <1>4 DEF GiveUp
<1>5. CASE WriteTimeout BY <1>5 DEF WriteTimeout
<1>6. CASE Act          BY <1>6 DEF Act
<1>7. CASE WorkerDies   BY <1>7 DEF WorkerDies
<1> QED BY <1>1, <1>2, <1>3, <1>4, <1>5, <1>6, <1>7 DEF Worker

\* A request's steps: the lock makes what it saw the truth when it writes.
LEMMA PersonInv ==
  ASSUME NEW p \in People, Inv, Lock(p) \/ Finish(p)
  PROVE  Inv'
<1> USE DEF Inv, TypeOK, LockDiscipline, GateProgress, OneDecider, ReportMatchesRow,
            Terminal, Verdicts, Unseen, gateVars
<1>1. CASE Lock(p)   BY <1>1 DEF Lock, rowVars
<1>2. CASE Refuse(p) BY <1>2 DEF Refuse, Unlock
<1>3. ASSUME NEW v \in Terminal \ {"timeout"}, Settle(p, v) PROVE Inv'
  BY <1>3 DEF Settle, Unlock
<1>4. CASE Abort(p)  BY <1>4 DEF Abort, Unlock
<1> QED BY <1>1, <1>2, <1>3, <1>4 DEF Finish, Decide, Cancel

LEMMA StepInv == Inv /\ [Next]_vars => Inv'
<1> SUFFICES ASSUME Inv, [Next]_vars PROVE Inv'
  OBVIOUS
<1>1. CASE UNCHANGED vars
  BY <1>1 DEF vars, rowVars, personVars, gateVars, Inv, TypeOK, LockDiscipline,
              GateProgress, OneDecider, ReportMatchesRow
<1>2. CASE Next BY <1>2, WorkerInv, PersonInv DEF Next
<1> QED BY <1>1, <1>2

THEOREM Invariance == Spec => []Inv
  BY InitInv, StepInv, PTL DEF Spec

-----------------------------------------------------------------------------
\* Every variable keeps to its kind.
THEOREM TypeCorrect == Spec => []TypeOK
<1>1. Inv => TypeOK BY DEF Inv
<1> QED BY <1>1, Invariance, PTL

\* SEC-004 for any number of concurrent deciders: no gated action without an
\* approval that stands.
THEOREM GateFailsClosed == Spec => []FailClosed
<1>1. Inv => FailClosed
  BY DEF Inv, FailClosed, GateProgress, ReportMatchesRow, Unseen
<1> QED BY <1>1, Invariance, PTL

\* SELECT FOR UPDATE leaves one winner (hitl.py: no split decisions).
THEOREM OneVerdict == Spec => []OneDecider
<1>1. Inv => OneDecider BY DEF Inv
<1> QED BY <1>1, Invariance, PTL

\* The row goes on saying what the gate reported.
THEOREM ReportStands == Spec => []ReportMatchesRow
<1>1. Inv => ReportMatchesRow BY DEF Inv
<1> QED BY <1>1, Invariance, PTL

\* A decision changes at most into a timeout, and not once the gate has acted.
THEOREM OnlyTimeoutRevokes == Spec => RevokedOnlyByTimeout
<1>1. Inv /\ [Next]_vars
        => [(status \in Terminal) => status' = "timeout" /\ gate # "acted"]_status
  <2> SUFFICES ASSUME Inv, Next, status \in Terminal, status' # status
               PROVE  status' = "timeout" /\ gate # "acted"
    BY DEF vars, rowVars
  <2>1. CASE Worker \/ WorkerDies
    BY <2>1 DEF Worker, WorkerDies, Create, Expire, SeeDecision, GiveUp, WriteTimeout, Act,
                rowVars, Inv, GateProgress, Terminal, Verdicts
  <2>2. ASSUME NEW p \in People, Lock(p) \/ Finish(p) PROVE FALSE
    BY <2>2 DEF Lock, Finish, Refuse, Decide, Cancel, Settle, Abort, Inv, LockDiscipline
  <2> QED BY <2>1, <2>2 DEF Next
<1> QED BY <1>1, Invariance, PTL DEF Spec, RevokedOnlyByTimeout
=============================================================================
