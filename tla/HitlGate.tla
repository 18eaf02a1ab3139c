------------------------------ MODULE HitlGate ------------------------------
(***************************************************************************)
(* One approval gate (services/orchestration/hitl.py and the activities    *)
(* that wait on it): a durable request row, the people who decide or       *)
(* withdraw it through the API, and the worker thread that polls the row   *)
(* until somebody has decided or its deadline has passed.  People read the *)
(* row with SELECT FOR UPDATE; the worker reads it without a lock, and the *)
(* UPDATE of its timeout waits for the lock but does not read again.       *)
(***************************************************************************)
EXTENDS Naturals, FiniteSets

CONSTANTS
  People,   \* API requests to decide or cancel
  Nobody    \* no holder of the row lock

ASSUME NobodyAssumption == Nobody \notin People

Verdicts == {"approved", "rejected", "modified"}

\* TERMINAL_STATUSES.
Terminal == Verdicts \cup {"timeout", "cancelled"}
Unseen   == "unseen"

VARIABLES
  status,     \* hitl_requests.status, "none" before the row exists
  lock,       \* who holds the row lock
  person,     \* progress of each API request
  saw,        \* the status each request read under the lock
  answer,     \* what each request was told: its verdict (200), or "refused" (409)
  gate,       \* progress of the waiting worker
  late,       \* the deadline of the wait has passed
  reported    \* the status wait_decision returned

rowVars    == <<status, lock>>
personVars == <<person, saw, answer>>
gateVars   == <<gate, late, reported>>
vars       == <<rowVars, personVars, gateVars>>

-----------------------------------------------------------------------------
(* The worker.                                                             *)

\* create_request, and the HITL_REQUESTED event after it.
Create ==
  /\ gate = "new" /\ gate' = "waiting" /\ status' = "pending"
  /\ UNCHANGED <<lock, personVars, late, reported>>

\* The clock passes the deadline.
Expire == gate = "waiting" /\ ~late /\ late' = TRUE
            /\ UNCHANGED <<rowVars, personVars, gate, reported>>

Return(s) == gate' = "answered" /\ reported' = s

\* One turn of wait_decision's loop: a terminal status is returned ...
SeeDecision ==
  /\ gate = "waiting" /\ status \in Terminal
  /\ Return(status)
  /\ UNCHANGED <<rowVars, personVars, late>>

\* Mutant of GiveUp: the deadline is compared the wrong way round.
GiveUpEarly ==
  /\ gate = "waiting" /\ status \notin Terminal /\ ~late
  /\ gate' = "givingUp"
  /\ UNCHANGED <<rowVars, personVars, late, reported>>

\* ... a pending one is given up once the deadline has passed ...
GiveUp ==
  /\ gate = "waiting" /\ status \notin Terminal /\ late
  /\ gate' = "givingUp"
  /\ UNCHANGED <<rowVars, personVars, late, reported>>

\* Mutant of WriteTimeout: the give-up is not recorded in the row.
ReturnUnrecorded ==
  /\ gate = "givingUp"
  /\ Return("timeout")
  /\ UNCHANGED <<rowVars, personVars, late>>

\* ... by an UPDATE that waits for the row lock and then overwrites.
WriteTimeout ==
  /\ gate = "givingUp" /\ lock = Nobody
  /\ status' = "timeout" /\ Return("timeout")
  /\ UNCHANGED <<lock, personVars, late>>

\* Mutant of Act: everything but a rejection lets the action through.
ActUnlessRejected ==
  /\ gate = "answered"
  /\ gate' = IF reported = "rejected" THEN "denied" ELSE "acted"
  /\ UNCHANGED <<rowVars, personVars, late, reported>>

\* The gated command runs, or the recovery goes on, only if approved.
Act ==
  /\ gate = "answered"
  /\ gate' = IF reported = "approved" THEN "acted" ELSE "denied"
  /\ UNCHANGED <<rowVars, personVars, late, reported>>

\* The worker dies; RETRY_NONE: the call is not delivered again.
WorkerDies ==
  /\ gate \in {"waiting", "givingUp", "answered"} /\ gate' = "dead"
  /\ UNCHANGED <<rowVars, personVars, late, reported>>

-----------------------------------------------------------------------------
(* The people.                                                             *)

\* Mutant of Lock: a plain read, without FOR UPDATE.
LockNothing(p) ==
  /\ person[p] = "new" /\ status # "none"
  /\ person' = [person EXCEPT ![p] = "reading"]
  /\ saw' = [saw EXCEPT ![p] = status]
  /\ UNCHANGED <<rowVars, answer, gateVars>>

\* _request_locked_or_404.
Lock(p) ==
  /\ person[p] = "new" /\ status # "none" /\ lock = Nobody
  /\ lock' = p
  /\ person' = [person EXCEPT ![p] = "reading"]
  /\ saw' = [saw EXCEPT ![p] = status]
  /\ UNCHANGED <<status, answer, gateVars>>

\* The transaction ends, and with it the lock.
Unlock(p) ==
  /\ person' = [person EXCEPT ![p] = "done"]
  /\ lock' = IF lock = p THEN Nobody ELSE lock
  /\ UNCHANGED <<saw, gateVars>>

\* A request that saw a terminal status is refused.
Refuse(p) ==
  /\ person[p] = "reading" /\ saw[p] \in Terminal
  /\ answer' = [answer EXCEPT ![p] = "refused"]
  /\ Unlock(p) /\ UNCHANGED status

\* The verdict is committed; the response may be lost on its way.
Settle(p, verdict) ==
  /\ person[p] = "reading" /\ saw[p] \notin Terminal
  /\ status' = verdict
  /\ answer' \in {answer, [answer EXCEPT ![p] = verdict]}
  /\ Unlock(p)

Decide(p) == \E verdict \in Verdicts : Settle(p, verdict)
Cancel(p) == Settle(p, "cancelled")

\* The API process dies: the transaction is rolled back.
Abort(p) == person[p] = "reading" /\ Unlock(p) /\ UNCHANGED <<status, answer>>

-----------------------------------------------------------------------------
Init ==
  /\ status = "none" /\ lock = Nobody
  /\ person = [p \in People |-> "new"] /\ saw = [p \in People |-> Unseen]
  /\ answer = [p \in People |-> "none"]
  /\ gate = "new" /\ late = FALSE /\ reported = Unseen

Worker == Create \/ Expire \/ SeeDecision \/ GiveUp \/ WriteTimeout \/ Act

Finish(p) == Refuse(p) \/ Decide(p) \/ Cancel(p) \/ Abort(p)

Next ==
  \/ Worker \/ WorkerDies
  \/ \E p \in People : Lock(p) \/ Finish(p)

Spec == Init /\ [][Next]_vars

\* The polling thread keeps running and time passes; a request that holds the
\* row lock ends its transaction, one way or the other.  Nobody has to decide.
FairSpec ==
  Spec /\ WF_vars(Worker) /\ \A p \in People : WF_vars(Finish(p))

-----------------------------------------------------------------------------
TypeOK ==
  /\ status \in Terminal \cup {"none", "pending"} /\ lock \in People \cup {Nobody}
  /\ person \in [People -> {"new", "reading", "done"}]
  /\ saw \in [People -> Terminal \cup {Unseen, "pending"}]
  /\ answer \in [People -> Terminal \cup {"none", "refused"}]
  /\ gate \in {"new", "waiting", "givingUp", "answered", "acted", "denied", "dead"}
  /\ late \in BOOLEAN /\ reported \in Terminal \cup {Unseen}

\* SEC-004: the gated action is taken only if the row says approved, now and
\* for good; a timeout, a withdrawal or a modification is a rejection.
FailClosed == gate = "acted" => status = "approved"

\* Concurrent deciders serialize on the row lock: at most one of them is told
\* that its verdict stands.
OneDecider ==
  \A p, q \in People : answer[p] \in Terminal /\ answer[q] \in Terminal => p = q

\* What the gate reported (HITL_RESPONDED, and the failure detail of the task)
\* is what the row says to every later reader.
ReportMatchesRow == reported # Unseen => status = reported

\* A decision is never replaced by another, except that the timeout of a gate
\* that has not acted may revoke it into a refusal.
RevokedOnlyByTimeout ==
  [][(status \in Terminal) => status' = "timeout" /\ gate # "acted"]_status

\* Terminal states are never re-decided.
NeverRedecided == [][status \notin Terminal]_status

\* A gate does not wait for ever on people who never answer.
GateAnswers == gate = "waiting" ~> gate \in {"acted", "denied", "dead"}
=============================================================================
