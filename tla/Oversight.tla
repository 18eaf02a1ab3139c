----------------------------- MODULE Oversight -----------------------------
(***************************************************************************)
(* Requirements, criteria, evidence-backed verification and the final      *)
(* completion report (services/planning/requirements.py, services/quality/ *)
(* overseer.py, api/routes/quality/oversight.py), over the artifact store. *)
(* The report is read in several statements, each of which sees what is    *)
(* committed at that moment, and stored if it finds no blocker.            *)
(***************************************************************************)
EXTENDS BlobStore

CONSTANTS
  Requirements,
  Must,         \* requirements with priority "must"
  Criteria,
  CriterionOf,  \* the requirement of each criterion
  Mandatory,    \* criteria that are mandatory
  Reporters     \* requests of the completion report that may be open at once

ASSUME OversightAssumption ==
  /\ Must \subseteq Requirements /\ Mandatory \subseteq Criteria
  /\ CriterionOf \in [Criteria -> Requirements]

VARIABLES
  registered,   \* requirements that exist, with their criteria
  implemented,  \* requirements some task is linked to
  proof,        \* for each criterion, the contents its passed validations refer to
  reporter,     \* progress of each report
  completed,    \* reports that were stored: the requirements each listed
  witnessed     \* criteria verified with a readable artifact, no pass under way

oversightVars == <<registered, implemented, proof, reporter, completed, witnessed>>

IdleReporter == [pc |-> "idle", listed |-> {}, tasked |-> {}, verified |-> {}, left |-> {}]

\* A requirement and its criteria are one transaction (create_requirement).
Register(r) ==
  /\ r \notin registered
  /\ registered' = registered \union {r}
  /\ UNCHANGED <<implemented, proof, reporter, completed, witnessed>>

\* A task is created for the requirement; tasks are not taken away again.
LinkTask(r) ==
  /\ r \in registered \ implemented
  /\ implemented' = implemented \union {r}
  /\ UNCHANGED <<registered, proof, reporter, completed, witnessed>>

\* verify_criterion: the artifact's row must exist, its blob is not looked at.
Verify(k, c) ==
  /\ CriterionOf[k] \in registered /\ c \in artifact
  /\ proof' = [proof EXCEPT ![k] = @ \union {c}]
  /\ witnessed' = IF Readable(c) /\ sweep.pc = "idle" THEN witnessed \union {c} ELSE witnessed
  /\ UNCHANGED <<registered, implemented, reporter, completed>>

\* ---- completion_report --------------------------------------------------
ListRequirements(p) ==
  /\ reporter[p].pc = "idle"
  /\ reporter' = [reporter EXCEPT ![p] = [IdleReporter EXCEPT !.pc = "read", !.listed = registered,
                                                              !.left = registered]]
  /\ UNCHANGED <<registered, implemented, proof, completed, witnessed>>

\* _requirement_entry: the tasks, then the validations of each criterion
ReadTasks(p, r) ==
  /\ reporter[p].pc = "read" /\ r \in reporter[p].left
  /\ reporter' = [reporter EXCEPT ![p].pc = "criteria", ![p].left = @ \ {r},
                    ![p].tasked = IF r \in implemented THEN @ \union {r} ELSE @]
  /\ UNCHANGED <<registered, implemented, proof, completed, witnessed>>

\* criterion_state; nothing writes a failed status or validation of a criterion
StateOf(k) == IF proof[k] # {} THEN "verified" ELSE "unknown"
Verified(p) == {k \in Criteria : CriterionOf[k] \in reporter[p].listed \ reporter[p].left
                                 /\ (k \in reporter[p].verified \/ StateOf(k) = "verified")}

ReadCriteria(p) ==
  /\ reporter[p].pc = "criteria"
  /\ reporter' = [reporter EXCEPT ![p].pc = "read",
                    ![p].verified = Verified(p)]
  /\ UNCHANGED <<registered, implemented, proof, completed, witnessed>>

\* Mutant of Unmet: the criteria do not count.
UnmetTask(p, r) == r \notin reporter[p].tasked

\* The blockers: optional requirements only give warnings.
Unmet(p, r) ==
  r \notin reporter[p].tasked \/ \E k \in Mandatory \ reporter[p].verified : CriterionOf[k] = r

Blocked(p) ==
  \/ reporter[p].listed = {}
  \/ \E r \in reporter[p].listed \intersect Must : Unmet(p, r)

\* The stored report: its text has the time in it, so no writer shares its blob.
AnswerReport(p) ==
  /\ reporter[p].pc = "read" /\ reporter[p].left = {}
  /\ completed' = IF Blocked(p) THEN completed ELSE completed \union {reporter[p].listed}
  /\ reporter' = [reporter EXCEPT ![p] = IdleReporter]
  /\ UNCHANGED <<registered, implemented, proof, witnessed>>

----------------------------------------------------------------------------
OversightInit ==
  /\ BlobInit
  /\ registered = {} /\ implemented = {} /\ completed = {} /\ witnessed = {}
  /\ proof = [k \in Criteria |-> {}]
  /\ reporter = [p \in Reporters |-> IdleReporter]

Report(p) ==
  ListRequirements(p) \/ ReadCriteria(p) \/ AnswerReport(p) \/ \E r \in Requirements : ReadTasks(p, r)
OversightNext ==
  \/ BlobNext /\ UNCHANGED oversightVars
  \/ /\ \/ \E r \in Requirements : Register(r) \/ LinkTask(r)
        \/ \E k \in Criteria, c \in Contents : Verify(k, c)
        \/ \E p \in Reporters : Report(p)
     /\ UNCHANGED blobVars

\* A stored completion report lists only mandatory requirements that have tasks
\* and all mandatory criteria of which rest on a recorded artifact, however the
\* reads of the report interleave with registrations and verifications
\* (completion_report is "fail-closed").
ReportedWasVerified ==
  \A listed \in completed : \A r \in listed \intersect Must :
    /\ r \in implemented
    /\ \A k \in Mandatory : CriterionOf[k] = r => proof[k] # {} /\ proof[k] \subseteq artifact

\* The artifact a criterion was verified with stays readable.  The code does not
\* keep this: retention protects the evidence of attempts only.
VerifiedStaysReadable == \A c \in witnessed : Readable(c)
=============================================================================
