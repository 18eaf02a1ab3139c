------------------------------- MODULE Review -------------------------------
(***************************************************************************)
(* Independent review and adjudication (services/quality/review.py):       *)
(* reviewers in parallel, then the critic, the evidence verifier and the   *)
(* adjudicator, one after the other.  Every verdict is committed as a row  *)
(* of its own; the decision is accepted in a last commit.  The request may *)
(* die between any two steps.                                              *)
(***************************************************************************)
EXTENDS Sequences, SequencesExt

CONSTANTS
  Reviews,        \* requests of a review
  ReviewerRoles   \* the independent reviewers, in order

ASSUME ReviewAssumption == ReviewerRoles \in Seq(STRING) /\ Len(ReviewerRoles) \in 1..4

VARIABLES
  decision,   \* status of each decision row: "none", "proposed", "accepted"
  verdicts,   \* the reviews rows of each decision: [role, verdict]
  pipeline,   \* progress of each request: stage, answers awaited, rows to write
  told        \* the verdict of each DECISION_ADJUDICATED event

reviewVars == <<decision, verdicts, pipeline, told>>

Stages == <<ReviewerRoles, <<"critic">>, <<"evidence_verifier">>, <<"adjudicator">>>>
AllRoles == UNION {ToSet(Stages[i]) : i \in DOMAIN Stages}
Verdicts == {"approve", "reject", "needs_evidence"}

IdlePipeline == [pc |-> "idle", stage |-> 1, answer |-> [r \in AllRoles |-> "none"], rows |-> <<>>]

Propose(v) ==
  /\ pipeline[v].pc = "idle" /\ decision[v] = "none"
  /\ decision' = [decision EXCEPT ![v] = "proposed"]
  /\ pipeline' = [pipeline EXCEPT ![v].pc = "ask"]
  /\ UNCHANGED <<verdicts, told>>

Asked(v) == ToSet(Stages[pipeline[v].stage])
Awaited(v) == {r \in Asked(v) : pipeline[v].answer[r] = "none"}

\* _ask and _parse_review: what cannot be parsed needs evidence.
AnswerReview(v, r) ==
  /\ pipeline[v].pc = "ask" /\ r \in Awaited(v)
  /\ \E verdict \in Verdicts : pipeline' = [pipeline EXCEPT ![v].answer[r] = verdict]
  /\ UNCHANGED <<decision, verdicts, told>>

\* Every answer of the stage is in: its rows are written in order.
Gather(v) ==
  /\ pipeline[v].pc = "ask" /\ Awaited(v) = {}
  /\ pipeline' = [pipeline EXCEPT ![v].pc = "persist", ![v].rows = Stages[pipeline[v].stage]]
  /\ UNCHANGED <<decision, verdicts, told>>

\* Mutant of FailClosed: the others go on.
CountAsNoAnswer(v, r) == pipeline' = [pipeline EXCEPT ![v].answer[r] = "failed"]

\* The provider fails, or its time runs out: nothing is adjudicated.  Answers
\* of the other reviewers are dropped.
FailClosed(v, r) == pipeline' = [pipeline EXCEPT ![v].pc = "failed"]

FailAsk(v, r) ==
  /\ pipeline[v].pc = "ask" /\ r \in Awaited(v)
  /\ FailClosed(v, r)
  /\ UNCHANGED <<decision, verdicts, told>>

PersistReview(v) ==
  /\ pipeline[v].pc = "persist" /\ pipeline[v].rows # <<>>
  /\ LET r == Head(pipeline[v].rows) IN
     verdicts' = [verdicts EXCEPT ![v] = @ \union {[role |-> r, verdict |-> pipeline[v].answer[r]]}]
  /\ pipeline' = [pipeline EXCEPT ![v].rows = Tail(@)]
  /\ UNCHANGED <<decision, told>>

NextStage(v) ==
  /\ pipeline[v].pc = "persist" /\ pipeline[v].rows = <<>>
  /\ pipeline' = IF pipeline[v].stage < Len(Stages)
                 THEN [pipeline EXCEPT ![v].pc = "ask", ![v].stage = @ + 1]
                 ELSE [pipeline EXCEPT ![v].pc = "decide"]
  /\ UNCHANGED <<decision, verdicts, told>>

\* Only the adjudicator's verdict counts; the others are findings it is shown.
FinalVerdict(v) == pipeline[v].answer["adjudicator"]

Adjudicate(v) ==
  /\ pipeline[v].pc = "decide"
  /\ decision' = [decision EXCEPT ![v] = IF FinalVerdict(v) = "approve" THEN "accepted" ELSE "proposed"]
  /\ pipeline' = [pipeline EXCEPT ![v].pc = "tell"]
  /\ UNCHANGED <<verdicts, told>>

Tell(v) ==
  /\ pipeline[v].pc = "tell"
  /\ told' = [told EXCEPT ![v] = FinalVerdict(v)]
  /\ pipeline' = [pipeline EXCEPT ![v].pc = "done"]
  /\ UNCHANGED <<decision, verdicts>>

DieReview(v) ==
  /\ pipeline[v].pc \in {"ask", "persist", "decide", "tell"}
  /\ pipeline' = [pipeline EXCEPT ![v].pc = "died"]
  /\ UNCHANGED <<decision, verdicts, told>>

----------------------------------------------------------------------------
ReviewInit ==
  /\ decision = [v \in Reviews |-> "none"] /\ verdicts = [v \in Reviews |-> {}]
  /\ pipeline = [v \in Reviews |-> IdlePipeline] /\ told = [v \in Reviews |-> "none"]

ReviewNext == \E v \in Reviews :
  \/ Propose(v) \/ Gather(v) \/ PersistReview(v) \/ NextStage(v) \/ Adjudicate(v) \/ Tell(v) \/ DieReview(v)
  \/ \E r \in AllRoles : AnswerReview(v, r) \/ FailAsk(v, r)

WholeRecord(v) ==
  /\ [role |-> "adjudicator", verdict |-> "approve"] \in verdicts[v]
  /\ \A r \in AllRoles : \E given \in Verdicts : [role |-> r, verdict |-> given] \in verdicts[v]

\* A decision is accepted only with the whole record behind it: a verdict row of
\* every participant, the adjudicator's an approval.  A request that fails or
\* dies leaves it proposed, and the event never says more than the row.
AcceptedWithRecord == \A v \in Reviews :
  /\ decision[v] = "accepted" => WholeRecord(v)
  /\ pipeline[v].pc = "failed" => decision[v] = "proposed"
  /\ told[v] = "approve" => decision[v] = "accepted"
=============================================================================
