--------------------------- MODULE AttemptLedger ---------------------------
(***************************************************************************)
(* What the rows of a task promise to a reader, whatever happens in the    *)
(* workflow: attempts are a ledger (REC-001), appended and closed once,    *)
(* and "completed" is never shown without a success entered in it.         *)
(* TaskExecution implements this specification.                            *)
(***************************************************************************)
EXTENDS Sequences, Lifecycles

VARIABLES status, attempts

Closed == {"success", "failed", "cancelled"}

Succeeded == \E i \in DOMAIN attempts : attempts[i] = "success"

Init == status = "pending" /\ attempts = <<>>

\* A new attempt is entered.
Open == attempts' = Append(attempts, "open") /\ UNCHANGED status

\* An open attempt gets the only outcome it will ever have.
Close ==
  /\ \E i \in DOMAIN attempts, outcome \in Closed :
       attempts[i] = "open" /\ attempts' = [attempts EXCEPT ![i] = outcome]
  /\ UNCHANGED status

\* Workflow, scheduler and people move the status as they like, except that
\* completion needs a success.
Move ==
  /\ status' \in TaskStatus
  /\ status' = "completed" => Succeeded
  /\ UNCHANGED attempts

Next == Open \/ Close \/ Move

Spec == Init /\ [][Next]_<<status, attempts>>
=============================================================================
