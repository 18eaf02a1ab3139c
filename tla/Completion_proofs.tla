------------------------- MODULE Completion_proofs -------------------------
(***************************************************************************)
(* Proofs about what says that work is complete, for any requirements,     *)
(* criteria, tasks, files and requests: the completion report of a project *)
(* (Oversight), the gate of a task (CompletionGate), the reports that are  *)
(* accepted and the calls behind them (Evaluation); and these and the      *)
(* other services side by side, as the run has them (MCServices).          *)
(***************************************************************************)
EXTENDS MCServices, Services_proofs, TLAPS

-----------------------------------------------------------------------------
(* Oversight: a stored report rests on tasks and on recorded evidence.     *)

ReporterState ==
  [pc : {"idle", "read", "criteria"}, listed : SUBSET Requirements, tasked : SUBSET Requirements,
   verified : SUBSET Criteria, left : SUBSET Requirements]

OversightKinds ==
  /\ registered \subseteq Requirements
  /\ proof \in [Criteria -> SUBSET Contents]
  /\ reporter \in [Reporters -> ReporterState]

\* What is verified is verified with something that has a row.
ProofIsRecorded == \A k \in Criteria : proof[k] \subseteq artifact

\* What a report has read of tasks and criteria still holds: neither is taken back.
ReadingsHold ==
  \A p \in Reporters :
    /\ reporter[p].tasked \subseteq implemented
    /\ \A k \in reporter[p].verified : proof[k] # {}

OversightInv == OversightKinds /\ ProofIsRecorded /\ ReadingsHold /\ ReportedWasVerified

allOversightVars == <<blobVars, oversightVars>>

USE OversightAssumption

\* No report was stored at the start.
LEMMA OversightStarts == OversightInit => OversightInv
BY DEF OversightInit, BlobInit, OversightInv, OversightKinds, ReporterState, IdleReporter,
       ProofIsRecorded, ReadingsHold, ReportedWasVerified

\* The store never takes a row away, whatever it does to the blob.
LEMMA RowsStay == BlobNext => artifact \subseteq artifact'
BY DEF BlobNext, Store, Put, Open, OpenFor, Write, Replace, CommitRow, Refer, DieWriter, Age, Scan,
       BeginSweep, EndSweep

\* A step that takes back no task, no proof and no row, and lets no report
\* through, leaves the reports true.
LEMMA ReportsStay ==
  ASSUME OversightInv, artifact \subseteq artifact', implemented \subseteq implemented',
         \A k \in Criteria : proof[k] \subseteq proof'[k] /\ proof'[k] \subseteq artifact',
         completed' = completed
  PROVE  ReportedWasVerified'
BY DEF OversightInv, ReportedWasVerified

\* The store beside the reports.
LEMMA StoreKeepsReports == OversightInv /\ BlobNext /\ UNCHANGED oversightVars => OversightInv'
<1> SUFFICES ASSUME OversightInv, BlobNext, UNCHANGED oversightVars PROVE OversightInv'
  OBVIOUS
<1> USE DEF OversightInv, oversightVars
<1>1. artifact \subseteq artifact' BY RowsStay
<1>2. OversightKinds' BY DEF OversightKinds
<1>3. ProofIsRecorded' BY <1>1 DEF ProofIsRecorded
<1>4. ReadingsHold' BY DEF ReadingsHold
<1>5. ReportedWasVerified' BY <1>1 DEF ReportedWasVerified
<1> QED BY <1>2, <1>3, <1>4, <1>5

\* Registrations, tasks and verifications only add to what reports have read.
LEMMA WritersKeepReports ==
  ASSUME OversightInv, UNCHANGED blobVars,
         \/ \E r \in Requirements : Register(r) \/ LinkTask(r)
         \/ \E k \in Criteria, c \in Contents : Verify(k, c)
  PROVE  OversightInv'
<1> USE DEF OversightInv
<1>1. artifact' = artifact /\ completed' = completed /\ reporter' = reporter
  BY DEF blobVars, Register, LinkTask, Verify
<1>2. implemented \subseteq implemented' /\ registered' \subseteq Requirements
  BY DEF OversightKinds, Register, LinkTask, Verify
<1>3. /\ proof' \in [Criteria -> SUBSET Contents]
      /\ \A k \in Criteria : proof[k] \subseteq proof'[k] /\ proof'[k] \subseteq artifact
  BY DEF OversightKinds, ProofIsRecorded, Register, LinkTask, Verify
<1>4. ReportedWasVerified' BY <1>1, <1>2, <1>3, ReportsStay
<1>5. OversightKinds' BY <1>1, <1>2, <1>3 DEF OversightKinds
<1>6. ProofIsRecorded' BY <1>1, <1>3 DEF ProofIsRecorded
<1>7. ReadingsHold' BY <1>1, <1>2, <1>3 DEF ReadingsHold, OversightKinds, ReporterState
<1> QED BY <1>4, <1>5, <1>6, <1>7

\* A report reads statement by statement; what it is stored from is what it read.
LEMMA ReportKeepsReports ==
  ASSUME OversightInv, UNCHANGED blobVars, NEW p \in Reporters, Report(p)
  PROVE  OversightInv'
<1> USE DEF OversightInv
<1>1. UNCHANGED <<registered, implemented, proof, artifact>>
  BY DEF Report, ListRequirements, ReadTasks, ReadCriteria, AnswerReport, blobVars
<1>2. OversightKinds'
  <2>1. CASE ListRequirements(p) BY <1>1, <2>1 DEF ListRequirements, OversightKinds, ReporterState, IdleReporter
  <2>2. CASE \E r \in Requirements : ReadTasks(p, r) BY <1>1, <2>2 DEF ReadTasks, OversightKinds, ReporterState
  <2>3. CASE ReadCriteria(p)
    <3>1. Verified(p) \in SUBSET Criteria BY DEF Verified
    <3> QED BY <1>1, <2>3, <3>1, ZenonT(40) DEF ReadCriteria, OversightKinds, ReporterState
  <2>4. CASE AnswerReport(p) BY <1>1, <2>4 DEF AnswerReport, OversightKinds, ReporterState, IdleReporter
  <2> QED BY <2>1, <2>2, <2>3, <2>4 DEF Report
<1>3. ProofIsRecorded' BY <1>1 DEF ProofIsRecorded
<1>4. ReadingsHold'
  <2> USE <1>1 DEF ReadingsHold, OversightKinds, ReporterState
  <2>1. CASE ListRequirements(p) BY <2>1 DEF ListRequirements, IdleReporter
  <2>2. CASE \E r \in Requirements : ReadTasks(p, r) BY <2>2 DEF ReadTasks
  <2>3. CASE ReadCriteria(p)
    <3>1. \A k \in Verified(p) : proof[k] # {} BY DEF Verified, StateOf
    <3> QED BY <2>3, <3>1 DEF ReadCriteria
  <2>4. CASE AnswerReport(p) BY <2>4 DEF AnswerReport, IdleReporter
  <2> QED BY <2>1, <2>2, <2>3, <2>4 DEF Report
<1>5. ReportedWasVerified'
  <2>1. CASE completed' = completed BY <1>1, <2>1 DEF ReportedWasVerified
  <2>2. CASE completed' # completed
    <3>1. completed' = completed \cup {reporter[p].listed} /\ ~ Blocked(p)
      BY <2>2 DEF Report, ListRequirements, ReadTasks, ReadCriteria, AnswerReport
    <3>2. \A r \in reporter[p].listed \intersect Must :
            /\ r \in implemented
            /\ \A k \in Mandatory : CriterionOf[k] = r => proof[k] # {} /\ proof[k] \subseteq artifact
      BY <3>1 DEF Blocked, Unmet, ReadingsHold, ProofIsRecorded
    <3> QED BY <1>1, <3>1, <3>2 DEF ReportedWasVerified
  <2> QED BY <2>1, <2>2
<1> QED BY <1>2, <1>3, <1>4, <1>5

\* Every step of the oversight and of the store keeps what reports rest on.
LEMMA OversightStep == OversightInv /\ [OversightNext]_allOversightVars => OversightInv'
<1> SUFFICES ASSUME OversightInv, [OversightNext]_allOversightVars PROVE OversightInv'
  OBVIOUS
<1>1. CASE BlobNext /\ UNCHANGED oversightVars BY <1>1, StoreKeepsReports
<1>2. CASE /\ \/ \E r \in Requirements : Register(r) \/ LinkTask(r)
              \/ \E k \in Criteria, c \in Contents : Verify(k, c)
           /\ UNCHANGED blobVars
  BY <1>2, WritersKeepReports
<1>3. CASE (\E p \in Reporters : Report(p)) /\ UNCHANGED blobVars BY <1>3, ReportKeepsReports
<1>4. CASE UNCHANGED allOversightVars
  BY <1>4 DEF allOversightVars, oversightVars, blobVars, OversightInv, OversightKinds, ProofIsRecorded,
              ReadingsHold, ReportedWasVerified
<1> QED BY <1>1, <1>2, <1>3, <1>4 DEF OversightNext

\* A stored completion report lists only mandatory requirements that have tasks
\* and all mandatory criteria of which rest on a recorded artifact.
THEOREM ReportsAreVerified ==
  OversightInit /\ [][OversightNext]_allOversightVars => []ReportedWasVerified
<1>1. OversightInv => ReportedWasVerified BY DEF OversightInv
<1> QED BY <1>1, OversightStarts, OversightStep, PTL

-----------------------------------------------------------------------------
(* CompletionGate: whom the gate lets through had nothing against it.      *)

ScanRow == [task : GatedTasks \cup {NoTask}, status : {"passed", "failed"}]

ScanState ==
  [pc : {"idle", "read", "done"}, task : GatedTasks \cup {NoTask}, at : Nat, read : Nat, found : BOOLEAN]

GateKinds ==
  /\ validations \in Seq(ScanRow)
  /\ scan \in [Scans -> ScanState]
  /\ ask \in [Asks -> [pc : {"idle", "attempts", "done"}, task : GatedTasks \cup {NoTask},
                       evidence : BOOLEAN, began : Nat]]

\* What the gate has read of the attempts still holds, and it began from rows that exist.
GateReadingsHold ==
  \A a \in Asks :
    /\ ask[a].began <= Len(validations)
    /\ ask[a].evidence => ask[a].task \in evidenced

\* The rows an answer speaks of exist.
AnswersKnowTheirRows == \A g \in allowed : g.began \in 0..Len(validations)

GateInv == GateKinds /\ GateReadingsHold /\ AnswersKnowTheirRows /\ LetThroughWasClear

USE CompletionAssumption

\* Nobody was let through at the start.
LEMMA GateStarts == CompletionInit => GateInv
BY DEF CompletionInit, GateInv, GateKinds, ScanState, IdleScan, IdleAsk, GateReadingsHold, AnswersKnowTheirRows,
       LetThroughWasClear

\* A row that is appended changes none that an answer began from.
LEMMA AppendKeepsGate ==
  ASSUME GateInv, NEW row \in ScanRow, validations' = Append(validations, row),
         UNCHANGED <<evidenced, ask, allowed>>
  PROVE  /\ validations' \in Seq(ScanRow)
         /\ GateReadingsHold' /\ AnswersKnowTheirRows' /\ LetThroughWasClear'
<1> USE DEF GateInv, GateKinds
<1>1. validations' \in Seq(ScanRow) /\ Len(validations') = Len(validations) + 1 OBVIOUS
<1>2. \A i \in 1..Len(validations) : validations'[i] = validations[i] OBVIOUS
<1>3. GateReadingsHold' BY <1>1 DEF GateReadingsHold
<1>4. AnswersKnowTheirRows' BY <1>1 DEF AnswersKnowTheirRows
<1>5. LetThroughWasClear' BY <1>2 DEF LetThroughWasClear, AnswersKnowTheirRows
<1> QED BY <1>1, <1>3, <1>4, <1>5

\* A scan that goes on is a scan.
LEMMA ScanGoesOn ==
  ASSUME NEW x \in ScanState, NEW at \in Nat, NEW read \in Nat, NEW found \in BOOLEAN
  PROVE  [x EXCEPT !.at = at, !.read = read, !.found = found] \in ScanState
BY DEF ScanState

\* The scans: the only step that matters to the gate is the row at their end.
LEMMA ScansKeepGate ==
  ASSUME GateInv, NEW s \in Scans,
         ScanFile(s) \/ RecordScan(s) \/ \E t \in GatedTasks \union {NoTask} : StartScan(s, t)
  PROVE  GateInv'
<1> USE DEF GateInv
<1>1. ASSUME UNCHANGED <<validations, evidenced, ask, allowed>>,
             scan' \in [Scans -> ScanState]
      PROVE  GateInv'
  BY <1>1 DEF GateKinds, GateReadingsHold, AnswersKnowTheirRows, LetThroughWasClear
<1>2. CASE \E t \in GatedTasks \union {NoTask} : StartScan(s, t)
  <2>1. PICK t \in GatedTasks \union {NoTask} : StartScan(s, t) BY <1>2
  <2>2. [IdleScan EXCEPT !.pc = "read", !.task = t] \in ScanState BY DEF IdleScan, ScanState
  <2> QED BY <1>1, <2>1, <2>2 DEF StartScan, GateKinds
<1>3. CASE ScanFile(s)
  <2> DEFINE hit == scan[s].found \/ (Scannable(s) /\ scan[s].at \in planted)
             count == IF Scannable(s) THEN scan[s].read + 1 ELSE scan[s].read
             next == [scan[s] EXCEPT !.at = scan[s].at + 1, !.read = count, !.found = hit]
  <2>1. scan[s] \in ScanState BY DEF GateKinds
  <2>2. hit \in BOOLEAN OBVIOUS
  <2>3. count \in Nat BY <2>1 DEF ScanState
  <2>4. scan' = [scan EXCEPT ![s] = next] BY <1>3 DEF ScanFile
  <2>5. UNCHANGED <<validations, evidenced, ask, allowed>> BY <1>3 DEF ScanFile
  <2> HIDE DEF hit, count
  <2>6. next \in ScanState
    <3>1. scan[s].at + 1 \in Nat BY <2>1 DEF ScanState
    <3> QED BY <2>1, <2>2, <2>3, <3>1, ScanGoesOn
  <2> HIDE DEF next
  <2>7. scan' \in [Scans -> ScanState] BY <2>4, <2>6 DEF GateKinds
  <2> QED BY <1>1, <2>5, <2>7
<1>4. CASE RecordScan(s)
  <2>1. [task |-> scan[s].task, status |-> Status(s)] \in ScanRow BY DEF ScanRow, Status, GateKinds, ScanState
  <2>2. GateReadingsHold' /\ AnswersKnowTheirRows' /\ LetThroughWasClear' /\ validations' \in Seq(ScanRow)
    BY <1>4, <2>1, AppendKeepsGate DEF RecordScan
  <2>3. GateKinds' BY <1>4, <2>2 DEF RecordScan, IdleScan, GateKinds, ScanState
  <2> QED BY <2>2, <2>3
<1> QED BY <1>2, <1>3, <1>4

\* The gate answers from what it read of the attempts and from all rows there are.
LEMMA AsksKeepGate ==
  ASSUME GateInv, NEW a \in Asks, AnswerGate(a) \/ \E t \in GatedTasks : ReadAttempts(a, t)
  PROVE  GateInv'
<1> USE DEF GateInv
<1>1. CASE \E t \in GatedTasks : ReadAttempts(a, t)
  <2>1. PICK t \in GatedTasks : ReadAttempts(a, t) BY <1>1
  <2> DEFINE begun == [pc |-> "attempts", task |-> t, evidence |-> t \in evidenced, began |-> Len(validations)]
  <2>2. ask' = [ask EXCEPT ![a] = begun] /\ UNCHANGED <<scan, validations, evidenced, allowed>>
    BY <2>1 DEF ReadAttempts
  <2>3. begun \in [pc : {"idle", "attempts", "done"}, task : GatedTasks \cup {NoTask},
                   evidence : BOOLEAN, began : Nat]
    <3>1. (t \in evidenced) \in BOOLEAN OBVIOUS
    <3>2. Len(validations) \in Nat BY DEF GateKinds
    <3> QED BY <3>1, <3>2
  <2>4. GateKinds'
    <3> HIDE DEF begun
    <3> QED BY <2>2, <2>3 DEF GateKinds
  <2>5. GateReadingsHold'
    <3>1. begun.began = Len(validations) /\ (begun.evidence => begun.task \in evidenced) OBVIOUS
    <3>2. Len(validations) \in Nat BY DEF GateKinds
    <3> HIDE DEF begun
    <3> QED BY <2>2, <3>1, <3>2 DEF GateReadingsHold, GateKinds
  <2> QED BY <2>2, <2>4, <2>5 DEF AnswersKnowTheirRows, LetThroughWasClear
<1>2. CASE AnswerGate(a)
  <2> USE <1>2 DEF AnswerGate
  <2>1. GateKinds' BY DEF GateKinds, IdleAsk
  <2>2. GateReadingsHold' BY DEF GateReadingsHold, GateKinds, IdleAsk
  <2>3. AnswersKnowTheirRows' BY DEF AnswersKnowTheirRows, GateReadingsHold, GateKinds
  <2>4. LetThroughWasClear'
    <3>1. CASE GateBlocked(a) BY <3>1 DEF LetThroughWasClear
    <3>2. CASE ~ GateBlocked(a)
      <4>1. ask[a].task \in evidenced BY <3>2 DEF GateBlocked, GateReadingsHold
      <4>2. \A i \in 1..Len(validations) : validations[i] # [task |-> ask[a].task, status |-> "failed"]
        BY <3>2 DEF GateBlocked, FailedFor
      <4>3. 1..ask[a].began \subseteq 1..Len(validations) BY DEF GateReadingsHold, GateKinds
      <4> QED BY <3>2, <4>1, <4>2, <4>3 DEF LetThroughWasClear
    <3> QED BY <3>1, <3>2
  <2> QED BY <2>1, <2>2, <2>3, <2>4
<1> QED BY <1>1, <1>2

\* Every step of the scans and of the gate keeps what the gate relies on.
LEMMA GateStep == GateInv /\ [CompletionNext]_completionVars => GateInv'
<1> SUFFICES ASSUME GateInv, [CompletionNext]_completionVars PROVE GateInv'
  OBVIOUS
<1>1. CASE \E f \in Files : Plant(f) \/ Clean(f)
  BY <1>1 DEF Plant, Clean, GateInv, GateKinds, GateReadingsHold, AnswersKnowTheirRows, LetThroughWasClear
<1>2. CASE \E s \in Scans : ScanFile(s) \/ RecordScan(s) \/ \E t \in GatedTasks \union {NoTask} : StartScan(s, t)
  BY <1>2, ScansKeepGate
<1>3. CASE \E t \in GatedTasks : RecordSuccess(t)
  BY <1>3 DEF RecordSuccess, GateInv, GateKinds, GateReadingsHold, AnswersKnowTheirRows, LetThroughWasClear
<1>4. CASE \E a \in Asks : AnswerGate(a) \/ \E t \in GatedTasks : ReadAttempts(a, t)
  BY <1>4, AsksKeepGate
<1>5. CASE UNCHANGED completionVars
  BY <1>5 DEF completionVars, GateInv, GateKinds, GateReadingsHold, AnswersKnowTheirRows, LetThroughWasClear
<1> QED BY <1>1, <1>2, <1>3, <1>4, <1>5 DEF CompletionNext

\* The gate lets a task through only on a success with evidence, and only when no
\* scan recorded before it was asked had found credentials in the task's name.
THEOREM GateIsClear == CompletionInit /\ [][CompletionNext]_completionVars => []LetThroughWasClear
<1>1. GateInv => LetThroughWasClear BY DEF GateInv
<1> QED BY <1>1, GateStarts, GateStep, PTL

-----------------------------------------------------------------------------
(* Evaluation: what was accepted one comparison at a time loses nothing.   *)

IsCard(card) == card.passed \in Nat /\ card.covered \in Nat

\* Both reports are of one kind, and what they count are numbers.
ReportKinds ==
  /\ baseline.kind = accepted.kind /\ baseline.kind \in {"none", "audit", "suite"}
  /\ baseline.kind = "audit" => IsCard(baseline.of) /\ IsCard(accepted.of)

CreepInv == ReportKinds /\ NothingCreeps

EvaluationNext == SuiteNext \/ AuditNext

USE EvaluationAssumption

\* Sums of products: what both sides are multiplied by keeps their order, and so
\* does a factor that is left out and is not zero.
LEMMA ProductsKeepOrder == ASSUME NEW a \in Nat, NEW b \in Nat, NEW c \in Nat, a <= b PROVE a * c <= b * c
OBVIOUS

\* An order between products is one between what is multiplied.
LEMMA FactorsKeepOrder ==
  ASSUME NEW a \in Nat, NEW b \in Nat, NEW c \in Nat, c > 0, a * c <= b * c PROVE a <= b
OBVIOUS

\* The products the shares are compared by, written in another order.
LEMMA ProductsReorder ==
  ASSUME NEW a \in Nat, NEW b \in Nat, NEW c \in Nat
  PROVE  (a * b) * c = (a * c) * b /\ (a * b) * c = (c * b) * a /\ a * b \in Nat /\ a * b = b * a
OBVIOUS

\* A share that did not fall, and did not fall again, did not fall.
LEMMA SharesDoNotCreep ==
  ASSUME NEW x, NEW y, NEW z, IsCard(x), IsCard(y), IsCard(z), ~ CoverageFell(x, y), ~ CoverageFell(y, z)
  PROVE  ~ CoverageFell(x, z)
<1> SUFFICES ASSUME x.covered > 0 PROVE z.covered # 0 /\ ~ (z.passed * x.covered < x.passed * z.covered)
  BY Zenon DEF CoverageFell
<1>1. PICK a \in Nat, b \in Nat, c \in Nat, d \in Nat, e \in Nat, f \in Nat :
        /\ a = x.passed /\ b = x.covered /\ c = y.passed /\ d = y.covered
        /\ e = z.passed /\ f = z.covered
  BY DEF IsCard
<1>2. b > 0 /\ d > 0 /\ a * d <= c * b
  <2>1. PICK l \in Nat, r \in Nat : l = c * b /\ r = a * d BY ProductsReorder
  <2>2. d # 0 /\ ~ (c * b < a * d) BY <1>1, Zenon DEF CoverageFell
  <2>3. ~ (l < r) BY <2>1, <2>2, Zenon
  <2>4. r <= l BY <2>3
  <2>5. b > 0 /\ d > 0 BY <1>1, <2>2
  <2> QED BY <2>1, <2>4, <2>5, Zenon
<1>3. f # 0 /\ c * f <= e * d
  <2>1. PICK l \in Nat, r \in Nat : l = e * d /\ r = c * f BY ProductsReorder
  <2>2. y.covered > 0 BY <1>1, <1>2
  <2>3. f # 0 /\ ~ (e * d < c * f) BY <1>1, <2>2, Zenon DEF CoverageFell
  <2>4. ~ (l < r) BY <2>1, <2>3, Zenon
  <2>5. r <= l BY <2>4
  <2> QED BY <2>1, <2>3, <2>5, Zenon
<1>4. (a * d) * f <= (c * b) * f
  <2>1. a * d \in Nat /\ c * b \in Nat BY ProductsReorder
  <2> QED BY <1>2, <2>1, ProductsKeepOrder
<1>5. (c * f) * b <= (e * d) * b
  <2>1. c * f \in Nat /\ e * d \in Nat BY ProductsReorder
  <2> QED BY <1>3, <2>1, ProductsKeepOrder
<1>6. (a * f) * d <= (e * b) * d
  <2>1. (a * d) * f = (a * f) * d /\ (c * b) * f = (c * f) * b /\ (e * d) * b = (e * b) * d
    BY ProductsReorder
  <2>2. (a * f) * d \in Nat /\ (c * f) * b \in Nat /\ (e * b) * d \in Nat
    <3>1. a * f \in Nat /\ c * f \in Nat /\ e * b \in Nat BY ProductsReorder
    <3> QED BY <3>1, ProductsReorder
  <2> HIDE <1>2, <1>3
  <2> QED BY <1>4, <1>5, <2>1, <2>2
<1>7. a * f <= e * b
  <2>1. a * f \in Nat /\ e * b \in Nat BY ProductsReorder
  <2> QED BY <1>2, <1>6, <2>1, FactorsKeepOrder
<1>8. ~ (e * b < a * f)
  <2>1. PICK l \in Nat, r \in Nat : l = e * b /\ r = a * f BY ProductsReorder
  <2>2. r <= l BY <1>7, <2>1, Zenon
  <2>3. ~ (l < r) BY <2>2
  <2> QED BY <2>1, <2>3, Zenon
<1> QED BY <1>1, <1>3, <1>8, Zenon

\* A scorecard counts checks of the finitely many mandatory keys.
LEMMA CardsCount == ASSUME NEW e \in Supplied PROVE IsCard(evaluate_evidence(e))
<1> DEFINE coverage == {c \in Reconcile(e) : c.dimension = "requirement_coverage"}
           passed == {c \in coverage : c.verdict = "PASS"}
           key == [c \in coverage |-> c.key]
<1>1. \A c \in coverage :
        /\ c.key \in AuditKeys
        /\ c = [key |-> c.key, dimension |-> "requirement_coverage", mandatory |-> TRUE, verdict |-> e.checks[c.key]]
  BY DEF Reconcile
<1>2. key \in Injection(coverage, AuditKeys)
  <2>1. key \in [coverage -> AuditKeys] BY <1>1
  <2>2. \A c, d \in coverage : key[c] = key[d] => c = d BY <1>1
  <2> QED BY <2>1, <2>2 DEF Injection, IsInjective
<1>3. IsFiniteSet(coverage) BY <1>2, FS_Injection
<1>4. passed \in SUBSET coverage OBVIOUS
<1>5. Cardinality(coverage) \in Nat /\ Cardinality(passed) \in Nat
  BY <1>3, <1>4, FS_Subset, FS_CardinalityType
<1>6. evaluate_evidence(e).passed = Cardinality(passed) /\ evaluate_evidence(e).covered = Cardinality(coverage)
  BY DEF evaluate_evidence
<1> QED BY <1>5, <1>6 DEF IsCard

\* Comparing with itself finds nothing, and comparing twice misses nothing.
LEMMA ComparedWithItself == ASSUME NEW x, IsCard(x) PROVE compare(x, x)
BY ProductsReorder DEF compare, CoverageFell, IsCard

\* What is no worse than something no worse than a third is no worse than it.
LEMMA ComparedTwice ==
  ASSUME NEW x, NEW y, NEW z, IsCard(x), IsCard(y), IsCard(z), compare(x, y), compare(y, z)
  PROVE  compare(x, z)
BY SharesDoNotCreep DEF compare

\* No audit and no suite that is accepted lets anything creep.
LEMMA CreepStep == CreepInv /\ [EvaluationNext]_evalVars => CreepInv'
<1> SUFFICES ASSUME CreepInv, [EvaluationNext]_evalVars PROVE CreepInv'
  OBVIOUS
<1>1. ASSUME NEW e \in Supplied, Audit(e) PROVE CreepInv'
  <2> DEFINE card == evaluate_evidence(e)
  <2>1. IsCard(card) BY CardsCount
  <2>2. \/ baseline.kind = "none" /\ baseline' = [kind |-> "audit", of |-> card]
        \/ baseline.kind = "audit" /\ compare(accepted.of, card) /\ UNCHANGED baseline
    BY <1>1 DEF Audit
  <2>3. accepted' = [kind |-> "audit", of |-> card] BY <1>1 DEF Audit
  <2> HIDE DEF card
  <2>4. accepted'.kind = "audit" /\ accepted'.of = card BY <2>3
  <2>5. CASE baseline.kind = "none" /\ baseline' = [kind |-> "audit", of |-> card]
    <3>1. baseline'.kind = "audit" /\ baseline'.of = card BY <2>5
    <3>2. compare(card, card) BY <2>1, ComparedWithItself
    <3> QED BY <2>1, <2>4, <3>1, <3>2 DEF CreepInv, ReportKinds, NothingCreeps, compare, CoverageFell
  <2>6. CASE baseline.kind = "audit" /\ compare(accepted.of, card) /\ UNCHANGED baseline
    <3>1. IsCard(baseline.of) /\ IsCard(accepted.of) /\ compare(baseline.of, accepted.of)
      BY <2>6 DEF CreepInv, ReportKinds, NothingCreeps
    <3>2. compare(baseline.of, card) BY <2>1, <2>6, <3>1, ComparedTwice
    <3> QED BY <2>1, <2>4, <2>6, <3>1, <3>2 DEF CreepInv, ReportKinds, NothingCreeps, compare, CoverageFell
  <2> QED BY <2>2, <2>5, <2>6
<1>2. ASSUME NEW r \in SuiteReports, AcceptSuite(r) PROVE CreepInv'
  <2>1. \/ baseline.kind = "none" /\ baseline' = [kind |-> "suite", of |-> r]
        \/ baseline.kind = "suite" /\ compare_suites(accepted.of, r) /\ UNCHANGED baseline
    BY <1>2 DEF AcceptSuite
  <2>2. accepted' = [kind |-> "suite", of |-> r] BY <1>2 DEF AcceptSuite
  <2>3. accepted'.kind = "suite" /\ accepted'.of = r BY <2>2
  <2>4. CASE baseline.kind = "none" /\ baseline' = [kind |-> "suite", of |-> r]
    <3>1. baseline'.kind = "suite" /\ baseline'.of = r BY <2>4
    <3> QED BY <2>3, <3>1 DEF CreepInv, ReportKinds, NothingCreeps
  <2>5. CASE baseline.kind = "suite" /\ compare_suites(accepted.of, r) /\ UNCHANGED baseline
    <3>1. \A c \in Range(EvalCases) : accepted.of.cases[c] = "PASS" => r.cases[c] = "PASS"
      BY <2>5 DEF compare_suites
    <3>2. \A c \in Range(EvalCases) : baseline.of.cases[c] = "PASS" => accepted.of.cases[c] = "PASS"
      BY <2>5 DEF CreepInv, NothingCreeps
    <3>3. \A c \in Range(EvalCases) : baseline.of.cases[c] = "PASS" => r.cases[c] = "PASS" BY <3>1, <3>2
    <3> QED BY <2>3, <2>5, <3>3 DEF CreepInv, ReportKinds, NothingCreeps
  <2> QED BY <2>1, <2>4, <2>5
<1>3. CASE SuiteNext \/ UNCHANGED evalVars
  <2>1. UNCHANGED auditVars
    BY <1>3 DEF SuiteNext, BeginSuite, Migrate, RunCase, OutOfTime, Label, Conclude, SuiteDies, evalVars, auditVars
  <2>2. baseline' = baseline /\ accepted' = accepted BY <2>1 DEF auditVars
  <2> QED BY <2>2 DEF CreepInv, ReportKinds, NothingCreeps, compare, CoverageFell
<1> QED BY <1>1, <1>2, <1>3 DEF EvaluationNext, AuditNext

\* However long the chain of reports that were each accepted against the last one,
\* nothing the first one passed is lost, for any checks, cases and durations.
THEOREM NothingCreepsIn == EvaluationInit /\ [][EvaluationNext]_evalVars => []NothingCreeps
<1>1. EvaluationInit => CreepInv BY DEF EvaluationInit, CreepInv, ReportKinds, NothingCreeps
<1>2. CreepInv => NothingCreeps BY DEF CreepInv
<1> QED BY <1>1, <1>2, CreepStep, PTL

-----------------------------------------------------------------------------
(* Evaluation: a run stays within its budget.                              *)

HIDE EvaluationAssumption

\* What a row of a suite may be, with the calls it has counted; -1 for none.
Row == [case : Range(EvalCases), repeat : Int, status : {"PASS", "FAIL", "ERROR", "UNKNOWN", "NOT_RUN"},
        calls : Nat \cup {-1}, failure : {"none", "TIMEOUT", "BUDGET_EXCEEDED"},
        triage : {"none", "hinted", "INFRASTRUCTURE_FAILURE", "COST_FAILURE", "PERFORMANCE_FAILURE"}]

Unmeasured(list) == {i \in DOMAIN list : list[i].calls = -1}

\* What was measured is within the limit of the run; what was not is within the
\* limit of a case for each row; and a row that was not measured has not passed.
SuiteInv ==
  /\ suite \in [pc : {"idle", "migrate", "failed", "running", "labelled", "done", "dead"}, rows : Seq(Row)]
  /\ spent \in Nat
  /\ Measured <= CallsPerRun
  /\ spent <= Measured + CallsPerCase * Cardinality(Unmeasured(suite.rows))
  /\ \A i \in DOMAIN suite.rows : suite.rows[i].calls = -1 => suite.rows[i].status = "ERROR"
  /\ report.status = "PASS" => suite.pc = "done" /\ Unmeasured(suite.rows) = {}

LEMMA UnmeasuredIsFinite ==
  ASSUME NEW list \in Seq(Row)
  PROVE  IsFiniteSet(Unmeasured(list)) /\ Cardinality(Unmeasured(list)) \in Nat
<1>1. Unmeasured(list) \subseteq 1..Len(list) /\ Len(list) \in Nat BY DEF Unmeasured
<1>2. IsFiniteSet(1..Len(list)) BY <1>1, FS_Interval
<1> QED BY <1>1, <1>2, FS_Subset, FS_CardinalityType

LEMMA SuiteStarts == EvaluationInit => SuiteInv
<1> SUFFICES ASSUME EvaluationInit PROVE SuiteInv
  OBVIOUS
<1>1. suite = [pc |-> "idle", rows |-> <<>>] /\ spent = 0 /\ report.status = "none"
  BY DEF EvaluationInit, Saved
<1>2. CallsOf(suite.rows) = <<>> BY <1>1 DEF CallsOf
<1>3. Measured = 0 BY <1>2, TotalOfNone DEF Measured
<1>4. Unmeasured(suite.rows) = {} BY <1>1 DEF Unmeasured
<1>5. Cardinality(Unmeasured(suite.rows)) = 0 BY <1>4, FS_EmptySet
<1>6. CallsPerRun \in Nat /\ CallsPerCase \in Nat /\ CallsPerCase * 0 = 0 BY EvaluationAssumption
<1>7. <<>> \in Seq(Row) OBVIOUS
<1> QED BY <1>1, <1>3, <1>5, <1>6, <1>7 DEF SuiteInv

\* Calls are counted row by row.
LEMMA CallsOfRows ==
  ASSUME NEW list \in Seq(Row), NEW row \in Row
  PROVE  /\ CallsOf(list) \in Seq(Nat)
         /\ Total(CallsOf(list)) \in Nat
         /\ Total(CallsOf(Append(list, row))) = Total(CallsOf(list)) + IF row.calls = -1 THEN 0 ELSE row.calls
<1>1. \A i \in 1..Len(list) : list[i] \in Row OBVIOUS
<1>2. \A i \in 1..Len(list) : list[i].calls \in Nat \cup {-1} BY <1>1 DEF Row
<1>3. CallsOf(list) = [i \in 1..Len(list) |-> IF list[i].calls = -1 THEN 0 ELSE list[i].calls] BY DEF CallsOf
<1>4. CallsOf(list) \in Seq(Nat) BY <1>2, <1>3
<1> DEFINE more == IF row.calls = -1 THEN 0 ELSE row.calls
           t == Append(list, row)
           u == Append(CallsOf(list), more)
<1>5. CallsOf(t) = u
  <2>1. Len(t) = Len(list) + 1 /\ t \in Seq(Row) /\ t[Len(list) + 1] = row /\ \A i \in 1..Len(list) : t[i] = list[i]
    OBVIOUS
  <2>2. Len(CallsOf(list)) = Len(list) BY <1>3
  <2>3. u \in Seq(Nat) /\ Len(u) = Len(list) + 1 /\ u[Len(list) + 1] = more
        /\ \A i \in 1..Len(list) : u[i] = CallsOf(list)[i]
    <3>1. more \in Nat BY DEF Row
    <3> HIDE DEF more
    <3> QED BY <1>4, <2>2, <3>1
  <2> HIDE DEF t, u
  <2>4. CallsOf(t) = [i \in 1..(Len(list) + 1) |-> IF t[i].calls = -1 THEN 0 ELSE t[i].calls] BY <2>1 DEF CallsOf
  <2>5. u = [i \in 1..(Len(list) + 1) |-> u[i]] BY <2>3
  <2>6. ASSUME NEW i \in 1..(Len(list) + 1) PROVE u[i] = IF t[i].calls = -1 THEN 0 ELSE t[i].calls
    <3>1. CASE i = Len(list) + 1 BY <3>1, <2>1, <2>3
    <3>2. CASE i # Len(list) + 1
      <4>1. i \in 1..Len(list) BY <3>2
      <4> QED BY <4>1, <2>1, <2>3, <1>3
    <3> QED BY <3>1, <3>2
  <2> QED BY <2>4, <2>5, <2>6
<1> HIDE DEF t, u, more
<1>6. Total(u) = Total(CallsOf(list)) + more BY <1>4, TotalOfAppend DEF u
<1>7. Total(CallsOf(list)) \in Nat BY <1>4, TotalIsNatural
<1> QED BY <1>4, <1>5, <1>6, <1>7 DEF t, more

LEMMA CallsAreNatural == \A list \in Seq(Row) : Total(CallsOf(list)) \in Nat
<1> SUFFICES ASSUME NEW list \in Seq(Row) PROVE Total(CallsOf(list)) \in Nat
  OBVIOUS
<1>1. CallsOf(list) \in Seq(Nat)
  <2>1. \A i \in 1..Len(list) : list[i] \in Row OBVIOUS
  <2>2. \A i \in 1..Len(list) : list[i].calls \in Nat \cup {-1} BY <2>1 DEF Row
  <2>3. CallsOf(list) = [i \in 1..Len(list) |-> IF list[i].calls = -1 THEN 0 ELSE list[i].calls] BY DEF CallsOf
  <2> QED BY <2>2, <2>3
<1> QED BY <1>1, TotalIsNatural

\* A call more is paid by the row that measured it, or by the limit of a case.
LEMMA CallsArePaid ==
  ASSUME NEW s \in Nat, NEW m \in Nat, NEW k \in Nat, NEW c \in Nat, NEW limit \in Nat,
         c <= limit, s <= m + limit * k
  PROVE  s + c \in Nat /\ s + c <= m + c + limit * k /\ s + c <= m + limit * (k + 1)
<1>1. PICK p \in Nat : p = limit * k OBVIOUS
<1>2. limit * (k + 1) = p + limit BY <1>1
<1> QED BY <1>1, <1>2

\* One more row keeps the account, if its calls fit.
LEMMA RowKeepsAccount ==
  ASSUME SuiteInv, NEW row \in Row, NEW calls \in Nat, calls <= CallsPerCase, calls <= CallsPerRun - Measured,
         row.calls # -1 => row.calls = calls, row.calls = -1 => row.status = "ERROR",
         suite.pc = "running", suite' = [suite EXCEPT !.rows = Append(@, row)],
         spent' = spent + calls, report'.status = "RUNNING"
  PROVE  SuiteInv'
<1> DEFINE list == suite.rows
           more == IF row.calls = -1 THEN 0 ELSE row.calls
<1>1. list \in Seq(Row) /\ suite'.rows = Append(list, row) /\ suite'.pc = "running" /\ suite'.rows \in Seq(Row)
      /\ suite' \in [pc : {"idle", "migrate", "failed", "running", "labelled", "done", "dead"}, rows : Seq(Row)]
  <2>1. suite \in [pc : {"idle", "migrate", "failed", "running", "labelled", "done", "dead"}, rows : Seq(Row)]
    BY DEF SuiteInv
  <2>2. list \in Seq(Row) BY <2>1
  <2> DEFINE t == Append(list, row)
  <2>3. t \in Seq(Row) BY <2>2
  <2>4. suite' = [suite EXCEPT !.rows = t] OBVIOUS
  <2> HIDE DEF t
  <2>5. suite' = [pc |-> "running", rows |-> t] BY <2>1, <2>4
  <2> QED BY <2>2, <2>3, <2>5 DEF t
<1>2. CallsPerRun \in Nat /\ CallsPerCase \in Nat BY EvaluationAssumption
<1>3. Measured \in Nat /\ Measured' = Measured + more
  BY <1>1, CallsOfRows DEF Measured
<1>4. \A i \in DOMAIN suite'.rows : suite'.rows[i].calls = -1 => suite'.rows[i].status = "ERROR"
  <2> SUFFICES ASSUME NEW i \in DOMAIN suite'.rows, suite'.rows[i].calls = -1 PROVE suite'.rows[i].status = "ERROR"
    OBVIOUS
  <2>1. CASE i = Len(list) + 1 BY <1>1, <2>1
  <2>2. CASE i # Len(list) + 1
    <3>1. i \in 1..Len(list) /\ suite'.rows[i] = list[i] BY <1>1, <2>2
    <3> QED BY <3>1 DEF SuiteInv
  <2> QED BY <2>1, <2>2
<1> DEFINE U == Unmeasured(list)
           V == Unmeasured(suite'.rows)
           n == Len(list)
<1>5. V = IF row.calls = -1 THEN U \cup {n + 1} ELSE U
  <2>1. /\ n \in Nat /\ DOMAIN suite'.rows = 1..(n + 1) /\ DOMAIN list = 1..n /\ suite'.rows[n + 1] = row
        /\ \A i \in 1..n : suite'.rows[i] = list[i]
    BY <1>1
  <2>2. 1..(n + 1) = (1..n) \cup {n + 1} BY <2>1
  <2> HIDE DEF n
  <2> QED BY <2>1, <2>2 DEF Unmeasured
<1>6. n + 1 \notin U BY <1>1 DEF Unmeasured
<1>7. IsFiniteSet(U) /\ Cardinality(U) \in Nat BY <1>1, UnmeasuredIsFinite
<1> HIDE DEF U, V, n
<1>8. Cardinality(V) = Cardinality(U) + IF row.calls = -1 THEN 1 ELSE 0
  <2>1. CASE row.calls = -1 BY <1>5, <1>6, <1>7, <2>1, FS_AddElement
  <2>2. CASE row.calls # -1
    <3>1. V = U BY <1>5, <2>2
    <3> QED BY <3>1, <1>7, <2>2
  <2> QED BY <2>1, <2>2
<1>9. spent \in Nat /\ spent <= Measured + CallsPerCase * Cardinality(U) BY DEF SuiteInv, U
<1>10. spent' \in Nat /\ Measured' <= CallsPerRun /\ spent' <= Measured' + CallsPerCase * Cardinality(V)
  <2>1. spent' \in Nat /\ spent' <= Measured + calls + CallsPerCase * Cardinality(U)
        /\ spent' <= Measured + CallsPerCase * (Cardinality(U) + 1)
    BY <1>2, <1>3, <1>7, <1>9, CallsArePaid
  <2>2. Measured <= CallsPerRun BY DEF SuiteInv
  <2>3. CASE row.calls = -1
    <3>1. Measured' = Measured /\ Cardinality(V) = Cardinality(U) + 1 BY <1>3, <1>8, <2>3
    <3> QED BY <2>1, <2>2, <3>1
  <2>4. CASE row.calls # -1
    <3>1. Measured' = Measured + calls /\ Cardinality(V) = Cardinality(U) BY <1>3, <1>7, <1>8, <2>4
    <3>2. Measured + calls <= CallsPerRun BY <1>2, <1>3
    <3> QED BY <2>1, <3>1, <3>2
  <2> QED BY <2>3, <2>4
<1> QED BY <1>1, <1>4, <1>10 DEF SuiteInv, V

\* A row has a verdict, of a case.
LEMMA EndingsClassified ==
  ASSUME NEW e \in Endings
  PROVE  /\ classify(e) \in {"PASS", "FAIL", "ERROR", "UNKNOWN"}
         /\ ~ e.written => classify(e) = "ERROR"
<1>1. classify(e) \in {"PASS", "FAIL", "ERROR", "UNKNOWN"} BY DEF classify
<1>2. ASSUME ~ e.written PROVE classify(e) = "ERROR"
  <2>1. \A exit, called, all : /\ Ended(exit, called, all).written
                             /\ [Ended(exit, called, all) EXCEPT !.errors = TRUE].written
    BY DEF Ended
  <2>2. e = Killed(TRUE) \/ e = Killed(FALSE)
    <3> HIDE DEF classify
    <3> SUFFICES ASSUME e # Killed(TRUE), e # Killed(FALSE) PROVE e.written
      BY <1>2
    <3>1. (\E exit, called, all : e = Ended(exit, called, all)) \/ e = [Ended(2, {}, {}) EXCEPT !.errors = TRUE]
      BY Zenon DEF Endings
    <3> QED BY <2>1, <3>1
  <2>3. e.exit = -1 BY <2>2 DEF Killed, Ended
  <2> QED BY <2>3 DEF classify
<1> QED BY <1>1, <1>2

LEMMA RemainderIsLess ==
  ASSUME NEW a, a \in Nat, NEW b, b \in Nat \ {0}
  PROVE  a % b \in 0..(b - 1) /\ a \div b \in Int
OBVIOUS

LEMMA NextCaseIsCase == suite.rows \in Seq(Row) => NextCase \in Range(EvalCases) /\ NextRepeat \in Int
<1> SUFFICES ASSUME suite.rows \in Seq(Row) PROVE NextCase \in Range(EvalCases) /\ NextRepeat \in Int
  OBVIOUS
<1>1. PICK n \in Nat, m \in Nat \ {0} : n = Len(suite.rows) /\ m = Len(EvalCases)
  <2>1. Len(suite.rows) \in Nat OBVIOUS
  <2>2. Len(EvalCases) \in Nat \ {0} BY EvaluationAssumption
  <2> QED BY <2>1, <2>2
<1>2. PICK r \in Nat : r = n % m /\ r < m BY RemainderIsLess
<1>3. NextCase = EvalCases[(n % m) + 1] BY Zenon, <1>1 DEF NextCase
<1>4. r + 1 \in DOMAIN EvalCases
  <2>1. DOMAIN EvalCases = 1..m BY <1>1, EvaluationAssumption
  <2>2. r + 1 \in 1..m BY <1>2
  <2> QED BY <2>1, <2>2
<1>5. NextRepeat \in Int BY <1>1, RemainderIsLess DEF NextRepeat
<1> QED BY <1>2, <1>3, <1>4, <1>5 DEF Range

\* Where a case ended in an error its verdict is not PASS.
LEMMA ErrorIsNotPassed ==
  ASSUME NEW states, "ERROR" \in states
  PROVE  consistency(states) # "PASS"
<1> DEFINE order == <<"ERROR", "FAIL", "UNKNOWN", "NOT_RUN">>
           S == {i \in DOMAIN order : order[i] \in states}
<1>1. S \subseteq 1..4 /\ 1 \in S OBVIOUS
<1>2. \A i \in S : 1 <= i BY <1>1
<1> HIDE DEF S
<1>3. Min(S) \in S BY <1>1, <1>2 DEF Min
<1>4. \A i \in 1..4 : order[i] # "PASS" OBVIOUS
<1>5. order[Min(S)] # "PASS" BY <1>1, <1>3, <1>4
<1>6. ~ (states \subseteq {"PASS"}) OBVIOUS
<1> HIDE DEF order
<1>7. consistency(states) \in {"FLAKY", order[Min(S)]} BY <1>6 DEF consistency, order, S
<1> QED BY <1>5, <1>7

\* Every step of a run keeps it.
LEMMA SuiteStep == SuiteInv /\ [EvaluationNext]_evalVars => SuiteInv'
<1> SUFFICES ASSUME SuiteInv, [EvaluationNext]_evalVars PROVE SuiteInv'
  OBVIOUS
<1>1. CASE UNCHANGED suiteVars
  BY <1>1 DEF SuiteInv, suiteVars, Measured
<1>2. ASSUME suite'.rows = suite.rows, suite' = [suite EXCEPT !.pc = suite'.pc], spent' = spent,
             suite'.pc \in {"migrate", "running", "failed", "done", "dead"},
             suite.pc # "done", report'.status = "PASS" => suite'.pc = "done" /\ Unmeasured(suite.rows) = {}
      PROVE  SuiteInv'
  <2>1. suite \in [pc : {"idle", "migrate", "failed", "running", "labelled", "done", "dead"}, rows : Seq(Row)]
    BY DEF SuiteInv
  <2>2. suite' \in [pc : {"idle", "migrate", "failed", "running", "labelled", "done", "dead"}, rows : Seq(Row)]
    BY <1>2, <2>1
  <2>3. Measured' = Measured BY <1>2 DEF Measured
  <2> QED BY <1>2, <2>2, <2>3 DEF SuiteInv
<1>3. CASE BeginSuite \/ Migrate \/ SuiteDies
  <2>1. suite'.rows = suite.rows /\ suite' = [suite EXCEPT !.pc = suite'.pc] /\ spent' = spent
        /\ suite'.pc \in {"migrate", "running", "failed", "dead"} /\ suite.pc # "done"
    BY <1>3 DEF BeginSuite, Migrate, SuiteDies, SuiteAt, SuiteInv
  <2>2. report'.status # "PASS"
    BY <1>3 DEF BeginSuite, Migrate, SuiteDies, SuiteAt, SuiteInv, Saved
  <2> QED BY <1>2, <2>1, <2>2
<1>4. CASE RunCase
  <2>1. PICK e \in Endings, calls \in 0..Allowance, exhausted \in BOOLEAN :
          /\ spent' = spent + calls
          /\ AddRow(classify(e), IF e.written THEN calls ELSE -1,
                    IF e.timed THEN "TIMEOUT" ELSE IF exhausted THEN "BUDGET_EXCEEDED" ELSE "none")
    BY <1>4 DEF RunCase
  <2> DEFINE row == [case |-> NextCase, repeat |-> NextRepeat, status |-> classify(e),
                     calls |-> IF e.written THEN calls ELSE -1,
                     failure |-> IF e.timed THEN "TIMEOUT" ELSE IF exhausted THEN "BUDGET_EXCEEDED" ELSE "none",
                     triage |-> "none"]
  <2>2. suite' = [suite EXCEPT !.rows = Append(@, row)] /\ report'.status = "RUNNING"
    BY <2>1 DEF AddRow, Saved
  <2>3. suite.rows \in Seq(Row) BY DEF SuiteInv
  <2>4. Measured \in Nat /\ Measured <= CallsPerRun /\ CallsPerRun \in Nat /\ CallsPerCase \in Nat
    BY <2>3, EvaluationAssumption, CallsAreNatural DEF SuiteInv, Measured
  <2>5. Allowance \in Nat /\ Allowance <= CallsPerCase /\ Allowance <= CallsPerRun - Measured
    BY <2>4 DEF Allowance, Lesser
  <2>6. calls \in Nat /\ calls <= CallsPerCase /\ calls <= CallsPerRun - Measured BY <2>4, <2>5
  <2>7. row \in Row BY <2>3, <2>6, EndingsClassified, NextCaseIsCase DEF Row
  <2>8. (row.calls # -1 => row.calls = calls) /\ (row.calls = -1 => row.status = "ERROR")
    BY <2>6, EndingsClassified
  <2>9. suite.pc = "running" BY <1>4 DEF RunCase
  <2> HIDE DEF row
  <2> QED BY <2>1, <2>2, <2>6, <2>7, <2>8, <2>9, RowKeepsAccount
<1>5. CASE OutOfTime
  <2> DEFINE row == [case |-> NextCase, repeat |-> NextRepeat, status |-> "NOT_RUN", calls |-> 0,
                     failure |-> "TIMEOUT", triage |-> "none"]
  <2>1. suite' = [suite EXCEPT !.rows = Append(@, row)] /\ report'.status = "RUNNING" /\ suite.pc = "running"
        /\ spent' = spent
    BY <1>5 DEF OutOfTime, AddRow, Saved
  <2>2. suite.rows \in Seq(Row) BY DEF SuiteInv
  <2>3. Measured \in Nat /\ Measured <= CallsPerRun /\ CallsPerRun \in Nat /\ CallsPerCase \in Nat /\ spent \in Nat
    BY <2>2, EvaluationAssumption, CallsAreNatural DEF SuiteInv, Measured
  <2>4. row \in Row BY <2>2, NextCaseIsCase DEF Row
  <2>5. row.calls = 0 OBVIOUS
  <2> HIDE DEF row
  <2>6. PICK c \in Nat : c = 0 /\ c <= CallsPerCase /\ c <= CallsPerRun - Measured /\ spent' = spent + c
    BY <2>1, <2>3
  <2>7. (row.calls # -1 => row.calls = c) /\ (row.calls = -1 => row.status = "ERROR") BY <2>5, <2>6
  <2> QED BY <2>1, <2>4, <2>6, <2>7, RowKeepsAccount
<1>6. CASE Label
  <2> DEFINE list == suite.rows
             labelled == [i \in 1..RowsDue |-> [list[i] EXCEPT !.triage = triage_result(list[i])]]
  <2>1. suite' = [pc |-> "labelled", rows |-> labelled] /\ report'.status = "RUNNING" /\ spent' = spent
        /\ Len(list) = RowsDue
    BY <1>6 DEF Label, Saved
  <2>2. list \in Seq(Row) /\ Len(list) \in Nat BY DEF SuiteInv
  <2>3. \A i \in 1..Len(list) : list[i] \in Row BY <2>2
  <2>4. \A i \in 1..Len(list) : triage_result(list[i]) \in
           {"none", "hinted", "INFRASTRUCTURE_FAILURE", "COST_FAILURE", "PERFORMANCE_FAILURE"}
    BY <2>3 DEF Row, triage_result
  <2>5. \A i \in 1..Len(list) : /\ labelled[i] \in Row /\ labelled[i].calls = list[i].calls
                                /\ labelled[i].status = list[i].status
    BY <2>1, <2>3, <2>4 DEF Row
  <2>6. labelled = [i \in 1..Len(list) |-> labelled[i]] BY <2>1
  <2> HIDE DEF labelled
  <2>7. labelled \in Seq(Row) /\ DOMAIN labelled = DOMAIN list /\ DOMAIN list = 1..Len(list)
    <3>1. PICK n \in Nat : n = Len(list) BY <2>2
    <3>2. DOMAIN list = 1..n BY <2>2, <3>1
    <3>3. labelled \in [1..n -> Row] BY <2>5, <2>6, <3>1
    <3> QED BY <3>1, <3>2, <3>3, SeqDef
  <2>8. CallsOf(labelled) = CallsOf(list) BY <2>5, <2>7 DEF CallsOf
  <2>9. Unmeasured(labelled) = Unmeasured(list) BY <2>5, <2>7 DEF Unmeasured
  <2>10. Measured' = Measured BY <2>1, <2>8 DEF Measured
  <2>11. \A i \in DOMAIN labelled : labelled[i].calls = -1 => labelled[i].status = "ERROR"
    BY <2>5, <2>7 DEF SuiteInv
  <2> QED BY <2>1, <2>7, <2>9, <2>10, <2>11 DEF SuiteInv
<1>7. CASE Conclude
  <2>1. suite'.rows = suite.rows /\ suite' = [suite EXCEPT !.pc = suite'.pc] /\ spent' = spent
        /\ suite'.pc = "done" /\ suite.pc # "done"
    BY <1>7 DEF Conclude, SuiteAt, SuiteInv
  <2>2. ASSUME report'.status = "PASS" PROVE Unmeasured(suite.rows) = {}
    <3>1. Range(CaseVerdicts(suite.rows)) = {"PASS"} BY <1>7, <2>2 DEF Conclude, Saved
    <3> SUFFICES ASSUME NEW i \in Unmeasured(suite.rows) PROVE FALSE
      OBVIOUS
    <3>2. i \in DOMAIN suite.rows /\ suite.rows \in Seq(Row) /\ suite.rows[i].status = "ERROR"
      BY DEF SuiteInv, Unmeasured
    <3>3. suite.rows[i] \in Row BY <3>2
    <3>4. PICK c \in Range(EvalCases) : c = suite.rows[i].case BY <3>3 DEF Row
    <3>5. "ERROR" \in CaseStates(suite.rows, c) BY <3>2, <3>4 DEF CaseStates
    <3>6. CaseVerdicts(suite.rows)[c] \in Range(CaseVerdicts(suite.rows)) BY <3>4 DEF CaseVerdicts, Range
    <3>7. consistency(CaseStates(suite.rows, c)) = "PASS" BY <3>1, <3>4, <3>6 DEF CaseVerdicts
    <3> QED BY <3>5, <3>7, ErrorIsNotPassed
  <2> QED BY <1>2, <2>1, <2>2
<1> QED BY <1>1, <1>3, <1>4, <1>5, <1>6, <1>7 DEF EvaluationNext, SuiteNext, AuditNext, Audit, AcceptSuite, evalVars, suiteVars

\* A run stays within its budget.
THEOREM SuitesStayWithinBudget == EvaluationInit /\ [][EvaluationNext]_evalVars => []SuiteWithinBudget
<1>1. ASSUME SuiteInv PROVE SuiteWithinBudget
  <2>1. suite.rows \in Seq(Row) BY <1>1 DEF SuiteInv
  <2>2. Measured \in Nat /\ Measured <= CallsPerRun /\ CallsPerRun \in Nat /\ CallsPerCase \in Nat /\ spent \in Nat
    BY <1>1, <2>1, EvaluationAssumption, CallsAreNatural DEF SuiteInv, Measured
  <2>3. Cardinality(Unmeasured(suite.rows)) \in Nat BY <2>1, UnmeasuredIsFinite
  <2>4. PICK p \in Nat : p = CallsPerCase * Cardinality(Unmeasured(suite.rows)) BY <2>2, <2>3
  <2>5. spent <= CallsPerRun + p BY <1>1, <2>2, <2>4 DEF SuiteInv
  <2>6. ASSUME report.status = "PASS" PROVE spent <= CallsPerRun
    <3>1. Cardinality(Unmeasured(suite.rows)) = 0 BY <1>1, <2>6, FS_EmptySet DEF SuiteInv
    <3>2. p = 0 BY <2>2, <2>4, <3>1
    <3> QED BY <2>2, <2>5, <3>2
  <2> QED BY <2>4, <2>5, <2>6 DEF SuiteWithinBudget, Unmeasured
<1> QED BY <1>1, SuiteStarts, SuiteStep, PTL

-----------------------------------------------------------------------------
\* Among the other services, of which one moves at a time, both still hold.
THEOREM CompletionSafe == Spec => []CompletionRests
<1>1. Init => OversightInv /\ GateInv BY OversightStarts, GateStarts DEF Init
<1>2. [Next]_vars => [OversightNext]_allOversightVars
  <2> SUFFICES ASSUME [Next]_vars PROVE OversightNext \/ UNCHANGED <<blobVars, oversightVars>>
    BY DEF allOversightVars
  <2>1. CASE Next BY <2>1 DEF Next, OversightNext
  <2>2. CASE UNCHANGED vars BY <2>2 DEF vars
  <2> QED BY <2>1, <2>2
<1>3. [Next]_vars => [CompletionNext]_completionVars
  <2>1. CASE Next BY <2>1 DEF Next
  <2>2. CASE UNCHANGED vars BY <2>2 DEF vars
  <2> QED BY <2>1, <2>2
<1>4. OversightInv /\ GateInv => CompletionRests BY DEF OversightInv, GateInv, CompletionRests
<1> QED BY <1>1, <1>2, <1>3, <1>4, OversightStep, GateStep, PTL DEF Spec

\* Among the other services, reviews, sessions, downloads, executions, evaluations,
\* plans, the index, prompts and the limiter are still safe.
THEOREM ServicesSafe ==
  Spec => [](/\ AcceptedWithRecord /\ LostWasSilent /\ SliceServed /\ WorkBounded /\ NothingCreeps
             /\ SuiteWithinBudget /\ PlansWhole /\ IndexSettles /\ ContextBounded /\ LimitIsFair)
<1>1. Init => /\ ReviewInit /\ SupervisionInit /\ DownloadInit /\ ExecutionInit /\ EvaluationInit
              /\ PlanningInit /\ WorkspaceInit /\ ContextInit /\ RateInit
  BY DEF Init
<1>2. [Next]_vars => /\ [ReviewNext]_reviewVars /\ [SupervisionNext]_supervisionVars
                     /\ [DownloadNext]_downloadVars /\ [ExecutionNext]_executionVars
                     /\ [EvaluationNext]_evalVars /\ [PlanningNext]_planningVars
                     /\ [WorkspaceNext]_workspaceVars /\ [ContextNext]_contextVars /\ [RateNext]_rateVars
  <2>1. CASE Next BY <2>1 DEF Next, EvaluationNext
  <2>2. CASE UNCHANGED vars BY <2>2 DEF vars
  <2> QED BY <2>1, <2>2
<1> QED BY <1>1, <1>2, ReviewSafe, SupervisionSafe, SlicesAreServed, WorkIsWithinBounds, NothingCreepsIn,
           SuitesStayWithinBudget, PlansStayWhole, IndexIsSettled, PromptsStayBounded, LimitStaysFair, PTL DEF Spec

\* So is the evidence in the store, whatever else goes on.
THEOREM EvidenceStays == Spec => []EvidenceReadable
<1>1. Init => BlobInit BY DEF Init, OversightInit
<1>2. [Next]_vars => [BlobNext]_blobVars
  <2>1. CASE Next BY <2>1 DEF Next, OversightNext
  <2>2. CASE UNCHANGED vars BY <2>2 DEF vars
  <2> QED BY <2>1, <2>2
<1>3. BlobInit /\ [][BlobNext]_blobVars => []EvidenceReadable BY EvidenceSafe
<1> QED BY <1>1, <1>2, <1>3, PTL DEF Spec

=============================================================================
