----------------------------- MODULE Evaluation -----------------------------
(***************************************************************************)
(* Offline evaluation (app/evaluation).  A suite run executes each case in *)
(* a pytest process of its own, as often as asked, under a limit on model  *)
(* calls per case and per run, and saves its report after every row; what  *)
(* it left on disk is validated before it is used.  Supplied evidence is   *)
(* audited into a scorecard.  Two reports of a kind are compared, and a    *)
(* report that regresses on the last one accepted is not accepted.         *)
(***************************************************************************)
EXTENDS Integers, Sequences, FiniteSets, FiniteSetsExt, Functions, SequencesExt, Sums

CONSTANTS
  EvalCases,        \* the cases selected, in order
  Repeats,
  CallsPerCase, CallsPerRun,
  AuditKeys,        \* the mandatory check keys of the audited case
  Durations         \* durations of a case in a suite report, in some unit

ASSUME EvaluationAssumption ==
  /\ {Repeats, CallsPerCase, CallsPerRun} \subseteq Nat /\ Repeats > 0
  /\ EvalCases \in Seq(STRING) /\ Len(EvalCases) > 0
  /\ AuditKeys # {} /\ IsFiniteSet(AuditKeys) /\ Durations \subseteq Nat

VARIABLES
  suite,       \* the run: step, rows so far, whether its time is up
  spent,       \* model calls really made
  report,      \* the file: status ("none" before it is written) and rows
  databases,   \* evaluation databases that exist
  baseline, accepted   \* the first and the last report accepted

suiteVars == <<suite, spent, report, databases>>
auditVars == <<baseline, accepted>>
evalVars == <<suite, spent, report, databases, baseline, accepted>>

\* ---- verdicts ----------------------------------------------------------
\* How a pytest process can end: by exit code, with the outcomes of its tests (of
\* those that were called, and of all), or killed, at its timeout or not, without
\* a result file.
Ended(exit, called, all) ==
  [exit |-> exit, called |-> called, all |-> all, errors |-> FALSE, written |-> TRUE, timed |-> FALSE]
Killed(timed) == [Ended(-1, {}, {}) EXCEPT !.written = FALSE, !.timed = timed]
Endings ==
  {Ended(0, {"passed"}, {"passed"}), Ended(1, {"passed", "failed"}, {"passed", "failed"}),
   Ended(0, {"passed", "skipped"}, {"passed", "skipped"}), Ended(0, {}, {"skipped"}),
   [Ended(2, {}, {}) EXCEPT !.errors = TRUE], Killed(TRUE), Killed(FALSE)}

classify(e) ==
  IF e.timed \/ e.exit \notin {0, 1} \/ e.errors \/ e.all = {} THEN "ERROR"
  ELSE IF e.called = {} THEN IF e.all = {"skipped"} THEN "UNKNOWN" ELSE "ERROR"
  ELSE IF e.exit = 1 \/ "failed" \in e.all THEN "FAIL"
  ELSE IF "skipped" \in e.all THEN "UNKNOWN" ELSE "PASS"

consistency(states) ==
  IF {"PASS", "FAIL"} \subseteq states THEN "FLAKY"
  ELSE IF states \subseteq {"PASS"} THEN IF states = {} THEN "UNKNOWN" ELSE "PASS"
  ELSE LET order == <<"ERROR", "FAIL", "UNKNOWN", "NOT_RUN">>
       IN order[Min({i \in DOMAIN order : order[i] \in states})]

\* The hard signals of the triage; the hints in a failed test's name are not told apart.
triage_result(row) ==
  CASE row.status = "PASS" -> "none"
    [] row.status = "NOT_RUN" -> "INFRASTRUCTURE_FAILURE"
    [] row.status \notin {"PASS", "NOT_RUN"} /\ row.failure = "BUDGET_EXCEEDED" -> "COST_FAILURE"
    [] row.status \notin {"PASS", "NOT_RUN"} /\ row.failure = "TIMEOUT" -> "PERFORMANCE_FAILURE"
    [] row.status = "ERROR" /\ row.failure = "none" -> "INFRASTRUCTURE_FAILURE"
    [] OTHER -> "hinted"

\* ---- the suite run -----------------------------------------------------
CallsOf(rows) == [i \in DOMAIN rows |-> IF rows[i].calls = -1 THEN 0 ELSE rows[i].calls]
Measured == Total(CallsOf(suite.rows))
Lesser(a, b) == IF a < b THEN a ELSE b

\* Mutant of Allowance: the limit of the run is left to the limits of the cases.
AllowancePerCase == CallsPerCase

\* What the next case may call: a row without metrics counts as no call.
Allowance == Lesser(CallsPerCase, IF Measured > CallsPerRun THEN 0 ELSE CallsPerRun - Measured)

CaseStates(rows, c) == {rows[i].status : i \in {j \in DOMAIN rows : rows[j].case = c}}
CaseVerdicts(rows) == [c \in Range(EvalCases) |-> consistency(CaseStates(rows, c))]
Saved(status, rows) == [status |-> status, rows |-> rows]
SuiteAt(to) == suite' = [suite EXCEPT !.pc = to]

BeginSuite ==
  /\ suite.pc = "idle"
  /\ report' = Saved("RUNNING", <<>>)
  /\ \/ SuiteAt("migrate") /\ databases' = databases + 1
     \/ SuiteAt("failed") /\ UNCHANGED databases       \* no such database server
  /\ UNCHANGED <<spent, auditVars>>

Migrate ==
  /\ suite.pc = "migrate"
  /\ \/ SuiteAt("running") /\ UNCHANGED <<report, databases>>
     \/ /\ SuiteAt("failed") /\ report' = Saved("ERROR", <<>>)
        /\ databases' = databases - 1
  /\ UNCHANGED <<spent, auditVars>>

RowsDue == Len(EvalCases) * Repeats
NextCase == EvalCases[(Len(suite.rows) % Len(EvalCases)) + 1]
NextRepeat == (Len(suite.rows) \div Len(EvalCases)) + 1

AddRow(status, calls, failure) ==
  LET row == [case |-> NextCase, repeat |-> NextRepeat, status |-> status, calls |-> calls,
              failure |-> failure, triage |-> "none"]
  IN /\ suite' = [suite EXCEPT !.rows = Append(@, row)]
     /\ report' = Saved("RUNNING", Append(suite.rows, row))

\* A call beyond the allowance fails its test.
RunCase ==
  /\ suite.pc = "running" /\ Len(suite.rows) < RowsDue
  /\ \E e \in Endings, calls \in 0..Allowance, exhausted \in BOOLEAN :
       /\ exhausted => calls = Allowance /\ e.exit = 1
       /\ e.written /\ e.called = {} => calls = 0
       /\ spent' = spent + calls
       /\ AddRow(classify(e), IF e.written THEN calls ELSE -1,
                 IF e.timed THEN "TIMEOUT" ELSE IF exhausted THEN "BUDGET_EXCEEDED" ELSE "none")
  /\ UNCHANGED <<databases, auditVars>>

OutOfTime ==
  /\ suite.pc = "running" /\ Len(suite.rows) < RowsDue
  /\ AddRow("NOT_RUN", 0, "TIMEOUT")
  /\ UNCHANGED <<spent, databases, auditVars>>

\* The rows are labelled and saved once more before the verdict is.
Label ==
  /\ suite.pc = "running" /\ Len(suite.rows) = RowsDue
  /\ LET labelled == [i \in 1..RowsDue |-> [suite.rows[i] EXCEPT !.triage = triage_result(suite.rows[i])]]
     IN suite' = [pc |-> "labelled", rows |-> labelled] /\ report' = Saved("RUNNING", labelled)
  /\ databases' = databases - 1
  /\ UNCHANGED <<spent, auditVars>>

Conclude ==
  /\ suite.pc = "labelled" /\ SuiteAt("done")
  /\ LET verdicts == CaseVerdicts(suite.rows)
     IN report' = Saved(IF Range(verdicts) = {"PASS"} THEN "PASS" ELSE "FAIL", suite.rows)
  /\ UNCHANGED <<spent, databases, auditVars>>

\* The run is killed, or cannot drop its database: that one stays.
SuiteDies ==
  /\ suite.pc \in {"migrate", "running", "labelled"} /\ SuiteAt("dead")
  /\ UNCHANGED <<spent, report, databases, auditVars>>

validate(r) ==
  /\ r.status \in {"PASS", "FAIL"}
  /\ {<<r.rows[i].case, r.rows[i].repeat>> : i \in DOMAIN r.rows} = Range(EvalCases) \X (1..Repeats)
  /\ r.status = "PASS" <=> Range(CaseVerdicts(r.rows)) = {"PASS"}

----------------------------------------------------------------------------
\* ---- audits ------------------------------------------------------------
AuditVerdicts == {"PASS", "FAIL", "UNKNOWN"}

Worst(verdicts) ==
  IF "FAIL" \in verdicts THEN "FAIL" ELSE IF "UNKNOWN" \in verdicts THEN "UNKNOWN" ELSE "PASS"

\* Evidence: what was supplied for each mandatory key (requirement coverage), an
\* optional security check, and the gate of the execution.
Supplied == [checks : [AuditKeys -> AuditVerdicts \cup {"absent"}], security : {"absent", "FAIL"}, execution : AuditVerdicts]

\* A missing mandatory check is added, as a failed one, under "evidence".
Reconcile(e) ==
  {[key |-> k, dimension |-> IF e.checks[k] = "absent" THEN "evidence" ELSE "requirement_coverage",
    mandatory |-> TRUE, verdict |-> IF e.checks[k] = "absent" THEN "FAIL" ELSE e.checks[k]] : k \in AuditKeys}
  \cup IF e.security = "absent" THEN {}
       ELSE {[key |-> "optional", dimension |-> "security", mandatory |-> FALSE, verdict |-> e.security]}

Dimensions == {"requirement_coverage", "evidence", "security", "execution"}

\* The gates beside the execution are passed.
evaluate_evidence(e) ==
  LET checks == Reconcile(e)
      grouped(d) == {c.verdict : c \in {k \in checks : k.dimension = d}}
      gate(d) == CASE d = "execution" -> {e.execution} [] d = "security" -> {"PASS"} [] OTHER -> {}
      verdicts(d) == grouped(d) \cup gate(d)
      coverage == {c \in checks : c.dimension = "requirement_coverage"}
      hard == \/ \E c \in checks : IF c.mandatory THEN c.verdict # "PASS"
                                   ELSE c.dimension = "security" /\ c.verdict = "FAIL"
              \/ e.execution = "FAIL"
  IN [status |-> IF hard THEN "FAIL" ELSE Worst({e.execution}),
      dimensions |-> [d \in Dimensions |-> IF verdicts(d) = {} THEN "UNKNOWN" ELSE Worst(verdicts(d))],
      passed |-> Cardinality({c \in coverage : c.verdict = "PASS"}),
      covered |-> Cardinality(coverage)]

\* ---- comparisons -------------------------------------------------------
\* Mutant of CoverageFell: only a ratio that is known can have fallen.
CoverageFellIfKnown(a, b) == a.covered > 0 /\ b.covered > 0 /\ b.passed * a.covered < a.passed * b.covered

CoverageFell(a, b) ==
  a.covered > 0 /\ (b.covered = 0 \/ b.passed * a.covered < a.passed * b.covered)

compare(a, b) ==
  /\ a.status = "PASS" => b.status = "PASS"
  /\ \A d \in Dimensions : a.dimensions[d] = "PASS" => b.dimensions[d] = "PASS"
  /\ ~CoverageFell(a, b)

SuiteReports ==
  [cases : [Range(EvalCases) -> {"PASS", "FAIL", "FLAKY"}], duration : [Range(EvalCases) -> Durations]]

Slower(old, new) == 2 * new > 3 * old /\ new - old > 1
compare_suites(a, b) ==
  \A c \in Range(EvalCases) :
    (a.cases[c] = "PASS" => b.cases[c] = "PASS") /\ ~Slower(a.duration[c], b.duration[c])

\* An audit looks its artifacts up and stores its report before it is compared;
\* an error on the way stores nothing.
Audit(e) ==
  LET card == evaluate_evidence(e)
  IN /\ \/ baseline.kind = "none" /\ baseline' = [kind |-> "audit", of |-> card]
        \/ baseline.kind = "audit" /\ compare(accepted.of, card) /\ UNCHANGED baseline
     /\ accepted' = [kind |-> "audit", of |-> card]
     /\ UNCHANGED suiteVars

AcceptSuite(r) ==
  /\ \/ baseline.kind = "none" /\ baseline' = [kind |-> "suite", of |-> r]
     \/ baseline.kind = "suite" /\ compare_suites(accepted.of, r) /\ UNCHANGED baseline
  /\ accepted' = [kind |-> "suite", of |-> r]
  /\ UNCHANGED suiteVars

----------------------------------------------------------------------------
EvaluationInit ==
  /\ suite = [pc |-> "idle", rows |-> <<>>] /\ spent = 0 /\ report = Saved("none", <<>>) /\ databases = 0
  /\ baseline = [kind |-> "none"] /\ accepted = [kind |-> "none"]

SuiteNext == BeginSuite \/ Migrate \/ RunCase \/ OutOfTime \/ Label \/ Conclude \/ SuiteDies
AuditNext == (\E e \in Supplied : Audit(e)) \/ (\E r \in SuiteReports : AcceptSuite(r))

\* A run makes no more model calls than its limit and, for each row whose process
\* left no metrics (it was killed at its timeout), the limit of one case; a report
\* that validate accepts and that says PASS stands for a run within its limit,
\* however it was interrupted and its report saved.
SuiteWithinBudget ==
  LET unmeasured == {i \in DOMAIN suite.rows : suite.rows[i].calls = -1}
  IN /\ spent <= CallsPerRun + CallsPerCase * Cardinality(unmeasured)
     /\ validate(report) /\ report.status = "PASS" => spent <= CallsPerRun

\* Whatever was accepted one comparison at a time has lost nothing since the first
\* report: a verdict that passed, a dimension that passed, the share of the
\* requirements covered.  The durations of a suite may creep: each is compared
\* with the last one only.
NothingCreeps ==
  /\ baseline.kind = "audit" => compare(baseline.of, accepted.of)
  /\ baseline.kind = "suite" =>
       \A c \in Range(EvalCases) : baseline.of.cases[c] = "PASS" => accepted.of.cases[c] = "PASS"
=============================================================================
