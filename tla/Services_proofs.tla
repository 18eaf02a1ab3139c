-------------------------- MODULE Services_proofs --------------------------
(***************************************************************************)
(* Proofs about the services beside the run, for any numbers of requests,  *)
(* sessions, stages, files, readers and lanes, and unbounded clocks: the   *)
(* supervision of sessions, the review, the store of artifacts (with two   *)
(* writers), downloads, what the lanes of executions may hold, plans and   *)
(* imports, the index over the files of a project, the rate limit, and the *)
(* context of a prompt.                                                    *)
(***************************************************************************)
EXTENDS AgentSessions, Review, BlobStore, Downloads, AgentExecution, Planning, Workspace,
        RateLimit, ContextBroker, SequenceTheorems, FiniteSetTheorems, WellFoundedInduction, TLAPS

-----------------------------------------------------------------------------
(* AgentSessions: a session that is given up had fallen silent.            *)

SupervisionKinds ==
  /\ clock \in Nat
  /\ agentState \in {"none", "created", "running", "waiting", "failed"}
  /\ beats \in [Beaters -> [status : {"none", "running", "ended", "lost"}, started : Nat, beat : Nat]]
  /\ starting \in [Starters -> {"new", "running", "other", "done"}]
  /\ ending \in [Enders -> [at : {"new", "read", "done"}, of : Beaters \cup {"none"}, running : BOOLEAN]]
  /\ supervisor \in [at : {"idle", "rows", "agent"}, rows : SUBSET Beaters, running : BOOLEAN]
  /\ silent \subseteq Beaters
  /\ drained \in BOOLEAN

\* Who ends a session has read one.
EndersHaveRead == \A r \in Enders : ending[r].at = "read" => ending[r].of \in Beaters

\* Silence is noticed when it happens: a live session that has been quiet for too
\* long is among the silent ones.
SilenceIsSeen == \A s \in Alive : clock - beats[s].beat > STALE => s \in silent

\* What the supervisor holds to be lost was silent when it looked, and still
\* counts as that whatever came in since; it never holds an empty list.
SweepIsJustified ==
  /\ supervisor.rows \subseteq silent
  /\ supervisor.at # "idle" => supervisor.rows # {}

SupervisionInv ==
  SupervisionKinds /\ EndersHaveRead /\ SilenceIsSeen /\ SweepIsJustified /\ LostWasSilent

USE SupervisionAssumption

\* The supervision starts with nobody silent and nobody lost.
LEMMA SupervisionStarts == SupervisionInit => SupervisionInv
<1> SUFFICES ASSUME SupervisionInit PROVE SupervisionInv
  OBVIOUS
<1> USE DEF SupervisionInit, NoSession, NotAsked, Asleep
<1>1. SupervisionKinds BY DEF SupervisionKinds
<1>2. EndersHaveRead   BY DEF EndersHaveRead
<1>3. SilenceIsSeen    BY DEF SilenceIsSeen, Alive
<1>4. SweepIsJustified BY DEF SweepIsJustified
<1>5. LostWasSilent    BY DEF LostWasSilent
<1> QED BY <1>1, <1>2, <1>3, <1>4, <1>5 DEF SupervisionInv

\* Time passing makes a session silent, and records it as that.
LEMMA ElapseKeeps == SupervisionInv /\ Elapse => SupervisionInv'
<1> SUFFICES ASSUME SupervisionInv, Elapse PROVE SupervisionInv'
  OBVIOUS
<1> USE DEF SupervisionInv, Elapse, Alive
<1>1. SupervisionKinds' BY DEF SupervisionKinds
<1>2. EndersHaveRead'   BY DEF EndersHaveRead
<1>3. SilenceIsSeen'    BY DEF SilenceIsSeen, SupervisionKinds
<1>4. SweepIsJustified' BY DEF SweepIsJustified
<1>5. LostWasSilent'    BY DEF LostWasSilent
<1> QED BY <1>1, <1>2, <1>3, <1>4, <1>5

\* A session opens with a heartbeat: whatever opens one leaves no silence unseen,
\* and loses none.
LEMMA OpenedIsHeard ==
  ASSUME SupervisionInv, NEW s \in Beaters, OpenSession(s), UNCHANGED <<clock, silent, drained>>,
         agentState' # "failed" \/ agentState' = agentState
  PROVE  SilenceIsSeen' /\ LostWasSilent'
         /\ beats' \in [Beaters -> [status : {"none", "running", "ended", "lost"}, started : Nat, beat : Nat]]
<1> USE DEF SupervisionInv, OpenSession, SupervisionKinds
<1>1. SilenceIsSeen' BY DEF SilenceIsSeen, Alive
<1>2. LostWasSilent' BY DEF LostWasSilent
<1> QED BY <1>1, <1>2

\* The requests that start sessions.
LEMMA StartsKeep ==
  ASSUME SupervisionInv, NEW s \in Beaters,
         StartWorker(s) \/ \E r \in Starters : Start(r, s)
  PROVE  SupervisionInv'
<1> USE DEF SupervisionInv
<1>1. CASE StartWorker(s)
  <2> USE <1>1 DEF StartWorker
  <2>1. SilenceIsSeen' /\ LostWasSilent' /\ SupervisionKinds'
    BY OpenedIsHeard DEF SupervisionKinds
  <2> QED BY <2>1 DEF EndersHaveRead, SweepIsJustified
<1>2. ASSUME NEW r \in Starters, Start(r, s) PROVE SupervisionInv'
  <2> USE <1>2 DEF Start
  <2>1. SilenceIsSeen' /\ LostWasSilent' /\ SupervisionKinds'
    BY OpenedIsHeard DEF SupervisionKinds
  <2> QED BY <2>1 DEF EndersHaveRead, SweepIsJustified
<1> QED BY <1>1, <1>2

\* The steps that write no session.
LEMMA ReadersKeep ==
  ASSUME SupervisionInv,
         \/ CreateAgent \/ SetRunning \/ LoadAgent
         \/ \E r \in Starters : AskStart(r)
         \/ \E r \in Enders, s \in Beaters : AskEnd(r, s)
  PROVE  SupervisionInv'
<1> USE DEF SupervisionInv
<1>1. SupervisionKinds'
  <2>1. CASE CreateAgent \/ SetRunning BY <2>1 DEF CreateAgent, SetRunning, SupervisionKinds
  <2>2. CASE LoadAgent BY <2>2 DEF LoadAgent, Working, SupervisionKinds
  <2>3. CASE \E r \in Starters : AskStart(r) BY <2>3 DEF AskStart, Working, SupervisionKinds
  <2>4. CASE \E r \in Enders, s \in Beaters : AskEnd(r, s) BY <2>4 DEF AskEnd, Working, SupervisionKinds
  <2> QED BY <2>1, <2>2, <2>3, <2>4
<1>2. UNCHANGED <<clock, beats, silent, drained>> /\ (agentState' # "failed" \/ agentState' = agentState)
  BY DEF CreateAgent, SetRunning, LoadAgent, AskStart, AskEnd
<1>3. SilenceIsSeen' /\ LostWasSilent' BY <1>2 DEF SilenceIsSeen, Alive, LostWasSilent
<1>4. EndersHaveRead'
  BY DEF EndersHaveRead, SupervisionKinds, CreateAgent, SetRunning, LoadAgent, AskStart, AskEnd
<1>5. SweepIsJustified'
  BY DEF SweepIsJustified, SupervisionKinds, CreateAgent, SetRunning, LoadAgent, AskStart, AskEnd
<1> QED BY <1>1, <1>3, <1>4, <1>5

\* Heartbeats and the two ways to end a session.
LEMMA BeatsAndEndsKeep ==
  ASSUME SupervisionInv,
         (\E s \in Beaters : Heartbeat(s) \/ EndAttempt(s)) \/ \E r \in Enders : End(r)
  PROVE  SupervisionInv'
<1> USE DEF SupervisionInv
<1>1. ASSUME NEW s \in Beaters, Heartbeat(s) PROVE SupervisionInv'
  <2> USE <1>1 DEF Heartbeat, SupervisionKinds
  <2>1. SupervisionKinds' OBVIOUS
  <2>2. SilenceIsSeen' BY DEF SilenceIsSeen, Alive
  <2>3. LostWasSilent' BY DEF LostWasSilent
  <2> QED BY <2>1, <2>2, <2>3 DEF EndersHaveRead, SweepIsJustified
<1>2. ASSUME NEW s \in Beaters, EndAttempt(s) PROVE SupervisionInv'
  <2> USE <1>2 DEF EndAttempt, Set, SupervisionKinds
  <2>1. SupervisionKinds' OBVIOUS
  <2>2. SilenceIsSeen' BY DEF SilenceIsSeen, Alive
  <2>3. LostWasSilent' BY DEF LostWasSilent
  <2> QED BY <2>1, <2>2, <2>3 DEF EndersHaveRead, SweepIsJustified
<1>3. ASSUME NEW r \in Enders, End(r) PROVE SupervisionInv'
  <2> USE <1>3 DEF End, Set, SupervisionKinds, NotAsked
  <2>1. ending[r].of \in Beaters BY DEF EndersHaveRead
  <2>2. SupervisionKinds'
    <3>1. ending' \in [Enders -> [at : {"new", "read", "done"}, of : Beaters \cup {"none"}, running : BOOLEAN]]
      OBVIOUS
    <3> QED BY <2>1, <3>1
  <2>3. SilenceIsSeen' BY <2>1 DEF SilenceIsSeen, Alive
  <2>4. LostWasSilent' BY <2>1 DEF LostWasSilent
  <2>5. EndersHaveRead' BY DEF EndersHaveRead
  <2> QED BY <2>2, <2>3, <2>4, <2>5 DEF SweepIsJustified
<1> QED BY <1>1, <1>2, <1>3

\* The supervisor finds only sessions that are silent: their last sign is older
\* than the limit.
LEMMA SweepKeeps == SupervisionInv /\ Sweep => SupervisionInv'
<1> SUFFICES ASSUME SupervisionInv, Sweep PROVE SupervisionInv'
  OBVIOUS
<1> USE DEF SupervisionInv
<1>1. PICK lost \in SUBSET Alive :
         /\ lost # {} /\ \A s \in lost : beats[s].beat < clock - STALE
         /\ supervisor' = [at |-> "rows", rows |-> lost, running |-> FALSE]
  BY DEF Sweep, LastSign
<1>2. lost \subseteq silent BY <1>1 DEF SilenceIsSeen, SupervisionKinds, Alive
<1>3. UNCHANGED <<clock, agentState, beats, starting, ending, silent, drained>> BY DEF Sweep
<1>4. SupervisionKinds' BY <1>1, <1>3 DEF SupervisionKinds, Alive
<1>5. SweepIsJustified' BY <1>1, <1>2, <1>3 DEF SweepIsJustified
<1> QED BY <1>3, <1>4, <1>5 DEF EndersHaveRead, SilenceIsSeen, Alive, LostWasSilent

\* What it gives up it found, and so was silent, even when a heartbeat came in
\* between; the agent fails with it.
LEMMA GiveUpKeeps == SupervisionInv /\ GiveUpSessions => SupervisionInv'
<1> SUFFICES ASSUME SupervisionInv, GiveUpSessions PROVE SupervisionInv'
  OBVIOUS
<1> USE DEF SupervisionInv, GiveUpSessions, Asleep
<1>1. SupervisionKinds' BY DEF SupervisionKinds
<1>2. SilenceIsSeen' BY DEF SilenceIsSeen, Alive, SupervisionKinds
<1>3. LostWasSilent' BY DEF LostWasSilent, SweepIsJustified, SupervisionKinds
<1>4. SweepIsJustified' BY DEF SweepIsJustified
<1> QED BY <1>1, <1>2, <1>3, <1>4 DEF EndersHaveRead

\* A session whose heartbeats came in time is never given up, and the agent fails
\* only with a silent session or with the attempt.
THEOREM SupervisionSafe ==
  SupervisionInit /\ [][SupervisionNext]_supervisionVars => []LostWasSilent
<1>1. ASSUME SupervisionInv, [SupervisionNext]_supervisionVars PROVE SupervisionInv'
  <2>1. CASE Elapse BY <1>1, <2>1, ElapseKeeps
  <2>2. CASE \E s \in Beaters : StartWorker(s) \/ \E r \in Starters : Start(r, s)
    BY <1>1, <2>2, StartsKeep
  <2>3. CASE \/ CreateAgent \/ SetRunning \/ LoadAgent
             \/ \E r \in Starters : AskStart(r)
             \/ \E r \in Enders, s \in Beaters : AskEnd(r, s)
    BY <1>1, <2>3, ReadersKeep
  <2>4. CASE (\E s \in Beaters : Heartbeat(s) \/ EndAttempt(s)) \/ \E r \in Enders : End(r)
    BY <1>1, <2>4, BeatsAndEndsKeep
  <2>5. CASE Sweep BY <1>1, <2>5, SweepKeeps
  <2>6. CASE GiveUpSessions BY <1>1, <2>6, GiveUpKeeps
  <2>7. CASE UNCHANGED supervisionVars
    BY <1>1, <2>7 DEF supervisionVars, SupervisionInv, SupervisionKinds, EndersHaveRead, SilenceIsSeen, Alive,
                      SweepIsJustified, LostWasSilent
  <2> QED BY <1>1, <2>1, <2>2, <2>3, <2>4, <2>5, <2>6, <2>7 DEF SupervisionNext
<1>2. SupervisionInv => LostWasSilent BY DEF SupervisionInv
<1> QED BY <1>1, <1>2, SupervisionStarts, PTL

-----------------------------------------------------------------------------
(* Review: what is accepted has the whole record behind it.                *)

PipelineSteps == {"idle", "ask", "persist", "decide", "tell", "done", "failed", "died"}

PipelineState ==
  [pc : PipelineSteps, stage : 1..4, answer : [AllRoles -> Verdicts \cup {"none"}], rows : Seq(AllRoles)]

VerdictRow == [role : AllRoles, verdict : Verdicts]

ReviewKinds ==
  /\ decision \in [Reviews -> {"none", "proposed", "accepted"}]
  /\ verdicts \in [Reviews -> SUBSET VerdictRow]
  /\ pipeline \in [Reviews -> PipelineState]
  /\ told \in [Reviews -> Verdicts \cup {"none"}]

\* A participant has answered, and the answer is a row.
HasRow(v, r) ==
  pipeline[v].answer[r] # "none" /\ [role |-> r, verdict |-> pipeline[v].answer[r]] \in verdicts[v]

\* The stages behind a request are recorded; of the stage it writes, what is not
\* recorded is still among the rows to write.
Recorded(v) ==
  /\ pipeline[v].pc = "idle" => pipeline[v].stage = 1
  /\ pipeline[v].pc \in {"ask", "persist"} =>
       \A i \in 1..(pipeline[v].stage - 1) : \A r \in ToSet(Stages[i]) : HasRow(v, r)
  /\ pipeline[v].pc = "persist" =>
       /\ \A r \in ToSet(Stages[pipeline[v].stage]) : HasRow(v, r) \/ r \in ToSet(pipeline[v].rows)
       /\ \A r \in ToSet(pipeline[v].rows) : pipeline[v].answer[r] # "none"
  /\ pipeline[v].pc \in {"decide", "tell", "done"} => \A r \in AllRoles : HasRow(v, r)

\* The decision is proposed until the end, and then what the adjudicator said.
Decided(v) ==
  /\ pipeline[v].pc = "idle" => decision[v] # "accepted"
  /\ pipeline[v].pc \in {"ask", "persist", "decide", "failed"} => decision[v] = "proposed"
  /\ pipeline[v].pc \in {"tell", "done"} /\ FinalVerdict(v) = "approve" => decision[v] = "accepted"
  /\ decision[v] = "accepted" => WholeRecord(v)
  /\ told[v] = "approve" => pipeline[v].pc = "done" /\ FinalVerdict(v) = "approve"

ReviewInv == ReviewKinds /\ \A v \in Reviews : Recorded(v) /\ Decided(v)

USE ReviewAssumption

\* There are four stages, each of participants; the last is the adjudicator's.
LEMMA StagesAreRoles ==
  /\ DOMAIN Stages = 1..4 /\ Len(Stages) = 4
  /\ \A i \in 1..4 : Stages[i] \in Seq(AllRoles) /\ ToSet(Stages[i]) \subseteq AllRoles
  /\ \A r \in AllRoles : \E i \in 1..4 : r \in ToSet(Stages[i])
  /\ "adjudicator" \in AllRoles
<1>1. DOMAIN Stages = 1..4 /\ Len(Stages) = 4 BY DEF Stages
<1>2. \A i \in 1..4 : \E S : Stages[i] \in Seq(S)
  <2>1. Stages[1] \in Seq(STRING) BY DEF Stages
  <2>2. Stages[2] \in Seq({"critic"}) BY DEF Stages
  <2>3. Stages[3] \in Seq({"evidence_verifier"}) BY DEF Stages
  <2>4. Stages[4] \in Seq({"adjudicator"}) BY DEF Stages
  <2> QED BY <2>1, <2>2, <2>3, <2>4
<1>3. \A i \in 1..4 : ToSet(Stages[i]) \subseteq AllRoles BY <1>1 DEF AllRoles
<1>4. \A i \in 1..4 : \A j \in 1..Len(Stages[i]) : Stages[i][j] \in AllRoles
  <2> SUFFICES ASSUME NEW i \in 1..4, NEW j \in 1..Len(Stages[i]) PROVE Stages[i][j] \in ToSet(Stages[i])
    BY <1>3
  <2>1. j \in DOMAIN Stages[i] BY <1>2
  <2> QED BY <2>1 DEF ToSet
<1>5. ASSUME NEW i \in 1..4 PROVE Stages[i] \in Seq(AllRoles)
  <2>1. Stages[i] \in [1..Len(Stages[i]) -> AllRoles] /\ Len(Stages[i]) \in Nat BY <1>2, <1>4
  <2> QED BY <2>1, SeqDef
<1>6. \A r \in AllRoles : \E i \in 1..4 : r \in ToSet(Stages[i]) BY <1>1 DEF AllRoles
<1>7. "adjudicator" \in ToSet(Stages[4]) BY DEF Stages, ToSet
<1> QED BY <1>1, <1>3, <1>5, <1>6, <1>7

\* What a request leaves alone stays as it was.
LEMMA OthersAreUntouched ==
  ASSUME ReviewInv, NEW u \in Reviews,
         pipeline'[u] = pipeline[u], decision'[u] = decision[u], verdicts'[u] = verdicts[u], told'[u] = told[u]
  PROVE  Recorded(u)' /\ Decided(u)'
BY DEF ReviewInv, Recorded, Decided, HasRow, FinalVerdict, WholeRecord

\* No request has begun.
LEMMA ReviewStarts == ReviewInit => ReviewInv
<1> SUFFICES ASSUME ReviewInit PROVE ReviewInv
  OBVIOUS
<1> USE DEF ReviewInit, IdlePipeline
<1>1. ReviewKinds BY DEF ReviewKinds, PipelineState, PipelineSteps
<1>2. \A v \in Reviews : Recorded(v) BY DEF Recorded
<1>3. \A v \in Reviews : Decided(v) BY DEF Decided
<1> QED BY <1>1, <1>2, <1>3 DEF ReviewInv

\* What a step may do to the progress of a request.
LEMMA PipelineMoves ==
  ASSUME NEW p \in PipelineState
  PROVE  /\ \A pc \in PipelineSteps : [p EXCEPT !.pc = pc] \in PipelineState
         /\ \A r \in AllRoles, given \in Verdicts : [p EXCEPT !.answer[r] = given] \in PipelineState
         /\ \A roles \in Seq(AllRoles) : /\ [p EXCEPT !.rows = roles] \in PipelineState
                                       /\ [p EXCEPT !.pc = "persist", !.rows = roles] \in PipelineState
         /\ p.stage < 4 => [p EXCEPT !.pc = "ask", !.stage = @ + 1] \in PipelineState
<1>1. \A pc \in PipelineSteps : [p EXCEPT !.pc = pc] \in PipelineState BY DEF PipelineState
<1>2. ASSUME NEW r \in AllRoles, NEW given \in Verdicts PROVE [p EXCEPT !.answer[r] = given] \in PipelineState
  <2> DEFINE answer == [p.answer EXCEPT ![r] = given]
  <2>1. answer \in [AllRoles -> Verdicts \cup {"none"}] BY DEF PipelineState
  <2>2. [p EXCEPT !.answer[r] = given] = [p EXCEPT !.answer = answer] BY DEF PipelineState
  <2> HIDE DEF answer
  <2>3. [p EXCEPT !.answer = answer] \in PipelineState BY <2>1 DEF PipelineState
  <2> QED BY <2>2, <2>3
<1>3. ASSUME NEW roles \in Seq(AllRoles)
      PROVE  /\ [p EXCEPT !.rows = roles] \in PipelineState
             /\ [p EXCEPT !.pc = "persist", !.rows = roles] \in PipelineState
  BY DEF PipelineState, PipelineSteps
<1>4. ASSUME p.stage < 4 PROVE [p EXCEPT !.pc = "ask", !.stage = @ + 1] \in PipelineState
  <2>1. p.stage + 1 \in 1..4 BY <1>4 DEF PipelineState
  <2>2. ASSUME NEW n \in 1..4 PROVE [p EXCEPT !.pc = "ask", !.stage = n] \in PipelineState
    BY DEF PipelineState, PipelineSteps
  <2> QED BY <2>1, <2>2
<1> QED BY <1>1, <1>2, <1>3, <1>4

\* A request that takes a step to q, with its rows and its decision, keeps the
\* invariant when its own part of it holds.
LEMMA OneMoves ==
  ASSUME ReviewInv, NEW v \in Reviews, NEW q \in PipelineState, pipeline' = [pipeline EXCEPT ![v] = q],
         NEW d \in {"none", "proposed", "accepted"}, decision' = [decision EXCEPT ![v] = d],
         NEW roles \in SUBSET VerdictRow, verdicts' = [verdicts EXCEPT ![v] = roles],
         NEW said \in Verdicts \cup {"none"}, told' = [told EXCEPT ![v] = said],
         Recorded(v)' /\ Decided(v)'
  PROVE  ReviewInv'
<1>1. ReviewKinds' BY DEF ReviewInv, ReviewKinds
<1>2. ASSUME NEW u \in Reviews \ {v} PROVE Recorded(u)' /\ Decided(u)'
  BY OthersAreUntouched DEF ReviewInv, ReviewKinds
<1> QED BY <1>1, <1>2 DEF ReviewInv

\* A request that only moves on, its answers, rows and decision as they are.
LEMMA OneGoesOn ==
  ASSUME ReviewInv, NEW v \in Reviews, NEW q \in PipelineState, pipeline' = [pipeline EXCEPT ![v] = q],
         UNCHANGED <<decision, verdicts, told>>, Recorded(v)' /\ Decided(v)'
  PROVE  ReviewInv'
<1>1. /\ decision' = [decision EXCEPT ![v] = decision[v]] /\ decision[v] \in {"none", "proposed", "accepted"}
      /\ verdicts' = [verdicts EXCEPT ![v] = verdicts[v]] /\ verdicts[v] \in SUBSET VerdictRow
      /\ told' = [told EXCEPT ![v] = told[v]] /\ told[v] \in Verdicts \cup {"none"}
  BY DEF ReviewInv, ReviewKinds
<1> QED BY <1>1, OneMoves

\* A request begins, asks, and may fail or die: nothing that is recorded changes.
LEMMA AskingKeepsReview ==
  ASSUME ReviewInv, NEW v \in Reviews,
         Propose(v) \/ DieReview(v) \/ \E r \in AllRoles : AnswerReview(v, r) \/ FailAsk(v, r)
  PROVE  ReviewInv'
<1> USE DEF ReviewInv
<1>1. pipeline[v] \in PipelineState /\ v \in DOMAIN pipeline /\ v \in DOMAIN decision BY DEF ReviewKinds
<1>2. CASE Propose(v)
  <2> DEFINE q == [pipeline[v] EXCEPT !.pc = "ask"]
  <2>1. q \in PipelineState BY <1>1, PipelineMoves DEF PipelineSteps
  <2>2. pipeline' = [pipeline EXCEPT ![v] = q] /\ UNCHANGED <<verdicts, told>>
        /\ decision' = [decision EXCEPT ![v] = "proposed"] /\ pipeline[v].pc = "idle"
    BY <1>2 DEF Propose
  <2>3. q.pc = "ask" /\ q.stage = pipeline[v].stage /\ q.answer = pipeline[v].answer BY <1>1 DEF PipelineState
  <2>4. /\ verdicts' = [verdicts EXCEPT ![v] = verdicts[v]] /\ verdicts[v] \in SUBSET VerdictRow
        /\ told' = [told EXCEPT ![v] = told[v]] /\ told[v] \in Verdicts \cup {"none"}
    BY <2>2 DEF ReviewKinds
  <2> HIDE DEF q
  <2>5. pipeline'[v] = q /\ decision'[v] = "proposed" BY <1>1, <2>2
  <2>6. Recorded(v)' BY <2>2, <2>3, <2>5 DEF Recorded
  <2>7. Decided(v)' BY <2>2, <2>3, <2>5 DEF Decided
  <2> QED BY <2>1, <2>2, <2>4, <2>6, <2>7, OneMoves
<1>3. ASSUME DieReview(v) \/ \E r \in AllRoles : FailAsk(v, r) PROVE ReviewInv'
  <2>1. PICK pc \in {"died", "failed"} :
           /\ pipeline' = [pipeline EXCEPT ![v].pc = pc]
           /\ pc = "failed" => pipeline[v].pc = "ask"
           /\ pipeline[v].pc \in {"ask", "persist", "decide", "tell"}
    BY <1>3 DEF DieReview, FailAsk, FailClosed
  <2> DEFINE q == [pipeline[v] EXCEPT !.pc = pc]
  <2>2. q \in PipelineState BY <1>1, PipelineMoves DEF PipelineSteps
  <2>3. pipeline' = [pipeline EXCEPT ![v] = q] /\ UNCHANGED <<decision, verdicts, told>>
    BY <1>3, <2>1 DEF DieReview, FailAsk
  <2>4. q.pc = pc /\ q.answer = pipeline[v].answer BY <1>1 DEF PipelineState
  <2> HIDE DEF q
  <2>5. pipeline'[v] = q BY <1>1, <2>3
  <2>6. Recorded(v)' BY <2>4, <2>5 DEF Recorded
  <2>7. Decided(v)' BY <2>1, <2>3, <2>4, <2>5 DEF Decided, WholeRecord, FinalVerdict
  <2> QED BY <2>2, <2>3, <2>6, <2>7, OneGoesOn
<1>4. ASSUME NEW r \in AllRoles, AnswerReview(v, r) PROVE ReviewInv'
  <2>1. PICK given \in Verdicts : pipeline' = [pipeline EXCEPT ![v].answer[r] = given] BY <1>4 DEF AnswerReview
  <2> DEFINE q == [pipeline[v] EXCEPT !.answer[r] = given]
  <2>2. q \in PipelineState BY <1>1, PipelineMoves
  <2>3. pipeline' = [pipeline EXCEPT ![v] = q] /\ UNCHANGED <<decision, verdicts, told>>
    BY <2>1, <1>4 DEF AnswerReview
  <2>4. q.pc = "ask" /\ q.stage = pipeline[v].stage
        /\ \A o \in AllRoles : pipeline[v].answer[o] # "none" => q.answer[o] = pipeline[v].answer[o]
    <3>1. pipeline[v].pc = "ask" /\ pipeline[v].answer[r] = "none" BY <1>4 DEF AnswerReview, Awaited
    <3> QED BY <1>1, <3>1 DEF PipelineState
  <2> HIDE DEF q
  <2>5. pipeline'[v] = q BY <1>1, <2>3
  <2>6. Recorded(v)'
    <3>1. pipeline[v].pc = "ask" /\ pipeline[v].stage \in 1..4 BY <1>1, <1>4 DEF AnswerReview, PipelineState
    <3>2. ASSUME NEW i \in 1..(pipeline[v].stage - 1), NEW o \in ToSet(Stages[i]) PROVE HasRow(v, o)'
      <4>1. o \in AllRoles BY <3>1, StagesAreRoles
      <4>2. HasRow(v, o) BY <3>1 DEF Recorded
      <4> QED BY <2>3, <2>4, <2>5, <4>1, <4>2 DEF HasRow
    <3> QED BY <2>4, <2>5, <3>2 DEF Recorded
  <2>7. Decided(v)' BY <2>3, <2>4, <2>5, <1>4 DEF Decided, WholeRecord, AnswerReview
  <2> QED BY <2>2, <2>3, <2>6, <2>7, OneGoesOn
<1> QED BY <1>2, <1>3, <1>4

\* The rows of a stage are gathered when all have answered, and written one by one.
LEMMA WritingKeepsReview ==
  ASSUME ReviewInv, NEW v \in Reviews, Gather(v) \/ PersistReview(v)
  PROVE  ReviewInv'
<1> USE DEF ReviewInv
<1>1. pipeline[v] \in PipelineState /\ v \in DOMAIN pipeline /\ v \in DOMAIN verdicts
      /\ pipeline[v].stage \in 1..4
  BY DEF ReviewKinds, PipelineState
<1>2. CASE Gather(v)
  <2> DEFINE roles == Stages[pipeline[v].stage]
             q == [pipeline[v] EXCEPT !.pc = "persist", !.rows = roles]
  <2>1. roles \in Seq(AllRoles) /\ ToSet(roles) \subseteq AllRoles BY <1>1, StagesAreRoles
  <2>2. \A r \in ToSet(roles) : pipeline[v].answer[r] # "none" BY <1>2 DEF Gather, Awaited, Asked
  <2>3. pipeline' = [pipeline EXCEPT ![v] = q] /\ UNCHANGED <<decision, verdicts, told>>
        /\ pipeline[v].pc = "ask"
    BY <1>2 DEF Gather
  <2>4. q \in PipelineState BY <1>1, <2>1, PipelineMoves
  <2>5. q.pc = "persist" /\ q.stage = pipeline[v].stage /\ q.answer = pipeline[v].answer /\ q.rows = roles
    BY <1>1 DEF PipelineState
  <2> HIDE DEF q
  <2>6. pipeline'[v] = q BY <1>1, <2>3
  <2>7. Recorded(v)' BY <2>2, <2>3, <2>5, <2>6 DEF Recorded, HasRow
  <2>8. Decided(v)' BY <2>3, <2>5, <2>6 DEF Decided, WholeRecord
  <2> QED BY <2>3, <2>4, <2>7, <2>8, OneGoesOn
<1>3. CASE PersistReview(v)
  <2>0. PICK r : r = Head(pipeline[v].rows) OBVIOUS
  <2> DEFINE roles == pipeline[v].rows
             row == [role |-> r, verdict |-> pipeline[v].answer[r]]
             q == [pipeline[v] EXCEPT !.rows = Tail(roles)]
  <2>1. pipeline[v].pc = "persist" /\ roles # <<>> /\ roles \in Seq(AllRoles)
    BY <1>1, <1>3 DEF PersistReview, PipelineState
  <2>2. r \in AllRoles /\ Tail(roles) \in Seq(AllRoles) BY <2>0, <2>1
  <2>3. ToSet(roles) = {r} \cup ToSet(Tail(roles))
    <3>1. /\ DOMAIN roles = 1..Len(roles) /\ DOMAIN Tail(roles) = 1..(Len(roles) - 1) /\ Len(roles) \in Nat \ {0}
          /\ r = roles[1] /\ \A i \in 1..(Len(roles) - 1) : Tail(roles)[i] = roles[i + 1]
      BY <2>0, <2>1
    <3>2. ASSUME NEW i \in 2..Len(roles) PROVE roles[i] \in ToSet(Tail(roles))
      <4>1. i - 1 \in 1..(Len(roles) - 1) /\ Tail(roles)[i - 1] = roles[i] BY <3>1
      <4> QED BY <3>1, <4>1 DEF ToSet
    <3> HIDE DEF roles
    <3> QED BY <3>1, <3>2 DEF ToSet
  <2>4. pipeline[v].answer[r] # "none" BY <2>1, <2>3 DEF Recorded
  <2>5. row \in VerdictRow
    <3>1. pipeline[v].answer[r] \in Verdicts BY <1>1, <2>2, <2>4 DEF PipelineState
    <3> QED BY <2>2, <3>1 DEF VerdictRow
  <2>6. /\ verdicts' = [verdicts EXCEPT ![v] = verdicts[v] \cup {row}]
        /\ verdicts[v] \cup {row} \in SUBSET VerdictRow
    BY <1>3, <2>0, <2>5 DEF PersistReview, ReviewKinds
  <2>7. pipeline' = [pipeline EXCEPT ![v] = q] /\ q \in PipelineState
    BY <1>1, <1>3, <2>2, PipelineMoves DEF PersistReview
  <2>8. q.pc = "persist" /\ q.stage = pipeline[v].stage /\ q.answer = pipeline[v].answer /\ q.rows = Tail(roles)
    BY <1>1, <2>1 DEF PipelineState
  <2>9. UNCHANGED <<decision, told>> BY <1>3 DEF PersistReview
  <2> HIDE DEF q
  <2>10. pipeline'[v] = q /\ verdicts'[v] = verdicts[v] \cup {row} BY <1>1, <2>6, <2>7
  <2>11. \A o \in AllRoles : HasRow(v, o) => HasRow(v, o)' BY <2>8, <2>10 DEF HasRow
  <2>12. HasRow(v, r)' BY <2>4, <2>8, <2>10 DEF HasRow
  <2>13. Recorded(v)'
    <3>1. ASSUME NEW i \in 1..(q.stage - 1), NEW o \in ToSet(Stages[i]) PROVE HasRow(v, o)'
      BY <1>1, <2>1, <2>8, <2>11, StagesAreRoles DEF Recorded
    <3>2. ASSUME NEW o \in ToSet(Stages[q.stage]) PROVE HasRow(v, o)' \/ o \in ToSet(q.rows)
      <4>1. o \in AllRoles BY <1>1, <2>8, StagesAreRoles
      <4>2. HasRow(v, o) \/ o \in ToSet(roles) BY <2>1, <2>8 DEF Recorded
      <4> QED BY <2>3, <2>8, <2>11, <2>12, <4>1, <4>2
    <3>3. ASSUME NEW o \in ToSet(q.rows) PROVE q.answer[o] # "none" BY <2>1, <2>3, <2>8 DEF Recorded
    <3> QED BY <2>8, <2>10, <3>1, <3>2, <3>3 DEF Recorded
  <2>14. Decided(v)' BY <2>1, <2>8, <2>9, <2>10 DEF Decided
  <2>15. /\ decision' = [decision EXCEPT ![v] = decision[v]] /\ decision[v] \in {"none", "proposed", "accepted"}
         /\ told' = [told EXCEPT ![v] = told[v]] /\ told[v] \in Verdicts \cup {"none"}
    BY <2>9 DEF ReviewKinds
  <2> QED BY <2>6, <2>7, <2>13, <2>14, <2>15, OneMoves
<1> QED BY <1>2, <1>3

\* The next stage begins when the rows of this one are written; after the last
\* all participants have one.
LEMMA StagesKeepReview ==
  ASSUME ReviewInv, NEW v \in Reviews, NextStage(v)
  PROVE  ReviewInv'
<1> USE DEF ReviewInv
<1>1. pipeline[v] \in PipelineState /\ v \in DOMAIN pipeline /\ pipeline[v].stage \in 1..4
  BY DEF ReviewKinds, PipelineState
<1>2. pipeline[v].pc = "persist" /\ UNCHANGED <<decision, verdicts, told>> BY DEF NextStage
<1>3. \A i \in 1..pipeline[v].stage : \A r \in ToSet(Stages[i]) : HasRow(v, r)
  <2>1. ToSet(pipeline[v].rows) = {} BY DEF NextStage, ToSet
  <2> QED BY <1>1, <1>2, <2>1 DEF Recorded
<1>4. CASE pipeline[v].stage < 4
  <2> DEFINE q == [pipeline[v] EXCEPT !.pc = "ask", !.stage = @ + 1]
  <2>1. pipeline' = [pipeline EXCEPT ![v] = q] BY <1>4, StagesAreRoles DEF NextStage
  <2>2. q \in PipelineState BY <1>1, <1>4, PipelineMoves
  <2>3. q.pc = "ask" /\ q.stage = pipeline[v].stage + 1 /\ q.answer = pipeline[v].answer
    BY <1>1 DEF PipelineState
  <2> HIDE DEF q
  <2>4. pipeline'[v] = q BY <1>1, <2>1
  <2>5. Recorded(v)'
    <3>1. 1..(q.stage - 1) = 1..pipeline[v].stage BY <1>1, <2>3
    <3> QED BY <1>2, <1>3, <2>3, <2>4, <3>1 DEF Recorded, HasRow
  <2>6. Decided(v)' BY <1>2, <2>3, <2>4 DEF Decided
  <2> QED BY <1>2, <2>1, <2>2, <2>5, <2>6, OneGoesOn
<1>5. CASE ~ (pipeline[v].stage < 4)
  <2> DEFINE q == [pipeline[v] EXCEPT !.pc = "decide"]
  <2>1. pipeline' = [pipeline EXCEPT ![v] = q] BY <1>5, StagesAreRoles DEF NextStage
  <2>2. q \in PipelineState BY <1>1, PipelineMoves DEF PipelineSteps
  <2>3. q.pc = "decide" /\ q.answer = pipeline[v].answer BY <1>1 DEF PipelineState
  <2> HIDE DEF q
  <2>4. pipeline'[v] = q BY <1>1, <2>1
  <2>5. pipeline[v].stage = 4 BY <1>1, <1>5
  <2>6. \A r \in AllRoles : HasRow(v, r) BY <1>3, <2>5, StagesAreRoles
  <2>7. Recorded(v)' BY <1>2, <2>3, <2>4, <2>6 DEF Recorded, HasRow
  <2>8. Decided(v)' BY <1>2, <2>3, <2>4 DEF Decided
  <2> QED BY <1>2, <2>1, <2>2, <2>7, <2>8, OneGoesOn
<1> QED BY <1>4, <1>5

\* The decision is what the adjudicator said, and the event says the same.
LEMMA DecidingKeepsReview ==
  ASSUME ReviewInv, NEW v \in Reviews, Adjudicate(v) \/ Tell(v)
  PROVE  ReviewInv'
<1> USE DEF ReviewInv
<1>1. pipeline[v] \in PipelineState /\ v \in DOMAIN pipeline /\ v \in DOMAIN decision /\ v \in DOMAIN told
  BY DEF ReviewKinds
<1>2. \A r \in AllRoles : HasRow(v, r) /\ pipeline[v].answer[r] \in Verdicts
  <2>1. \A r \in AllRoles : HasRow(v, r) BY DEF Recorded, Adjudicate, Tell
  <2> QED BY <1>1, <2>1 DEF HasRow, PipelineState
<1>3. /\ verdicts' = [verdicts EXCEPT ![v] = verdicts[v]] /\ verdicts[v] \in SUBSET VerdictRow
  BY DEF ReviewKinds, Adjudicate, Tell
<1>4. CASE Adjudicate(v)
  <2> DEFINE q == [pipeline[v] EXCEPT !.pc = "tell"]
             d == IF FinalVerdict(v) = "approve" THEN "accepted" ELSE "proposed"
  <2>1. /\ pipeline' = [pipeline EXCEPT ![v] = q] /\ decision' = [decision EXCEPT ![v] = d]
        /\ UNCHANGED <<verdicts, told>> /\ pipeline[v].pc = "decide"
    BY <1>4 DEF Adjudicate
  <2>2. q \in PipelineState BY <1>1, PipelineMoves DEF PipelineSteps
  <2>3. q.pc = "tell" /\ q.answer = pipeline[v].answer BY <1>1 DEF PipelineState
  <2> HIDE DEF q
  <2>4. pipeline'[v] = q /\ decision'[v] = d BY <1>1, <2>1
  <2>5. Recorded(v)' BY <1>2, <2>1, <2>3, <2>4 DEF Recorded, HasRow
  <2>6. FinalVerdict(v)' = FinalVerdict(v) BY <2>3, <2>4 DEF FinalVerdict
  <2>7. d = "accepted" => WholeRecord(v)'
    <3>1. ASSUME FinalVerdict(v) = "approve" PROVE [role |-> "adjudicator", verdict |-> "approve"] \in verdicts[v]
      BY <1>2, <3>1, StagesAreRoles DEF HasRow, FinalVerdict
    <3>2. \A r \in AllRoles : \E given \in Verdicts : [role |-> r, verdict |-> given] \in verdicts[v]
      BY <1>2 DEF HasRow
    <3> QED BY <2>1, <3>1, <3>2 DEF WholeRecord
  <2>8. Decided(v)'
    <3>1. told[v] # "approve" BY <2>1 DEF Decided
    <3> QED BY <2>1, <2>3, <2>4, <2>6, <2>7, <3>1 DEF Decided
  <2>9. d \in {"none", "proposed", "accepted"} OBVIOUS
  <2>10. told' = [told EXCEPT ![v] = told[v]] /\ told[v] \in Verdicts \cup {"none"}
    BY <2>1 DEF ReviewKinds
  <2> HIDE DEF d
  <2> QED BY <1>3, <2>1, <2>2, <2>5, <2>8, <2>9, <2>10, OneMoves
<1>5. CASE Tell(v)
  <2>0. PICK said : said = FinalVerdict(v) OBVIOUS
  <2> DEFINE q == [pipeline[v] EXCEPT !.pc = "done"]
  <2>1. /\ pipeline' = [pipeline EXCEPT ![v] = q] /\ told' = [told EXCEPT ![v] = said]
        /\ UNCHANGED <<verdicts, decision>> /\ pipeline[v].pc = "tell"
    BY <1>5, <2>0 DEF Tell
  <2>2. q \in PipelineState BY <1>1, PipelineMoves DEF PipelineSteps
  <2>3. q.pc = "done" /\ q.answer = pipeline[v].answer BY <1>1 DEF PipelineState
  <2> HIDE DEF q
  <2>4. pipeline'[v] = q /\ told'[v] = said BY <1>1, <2>1
  <2>5. Recorded(v)' BY <1>2, <2>1, <2>3, <2>4 DEF Recorded, HasRow
  <2>6. Decided(v)' BY <2>0, <2>1, <2>3, <2>4 DEF Decided, FinalVerdict, WholeRecord
  <2>7. said \in Verdicts \cup {"none"} BY <1>2, <2>0, StagesAreRoles DEF FinalVerdict
  <2>8. decision' = [decision EXCEPT ![v] = decision[v]] /\ decision[v] \in {"none", "proposed", "accepted"}
    BY <2>1 DEF ReviewKinds
  <2> QED BY <1>3, <2>1, <2>2, <2>5, <2>6, <2>7, <2>8, OneMoves
<1> QED BY <1>4, <1>5

\* A decision is accepted only with a verdict row of every participant, the
\* adjudicator's an approval; a request that fails leaves it proposed, and the
\* event never says more than the row.
THEOREM ReviewSafe == ReviewInit /\ [][ReviewNext]_reviewVars => []AcceptedWithRecord
<1>1. ASSUME ReviewInv, [ReviewNext]_reviewVars PROVE ReviewInv'
  <2>1. ASSUME NEW v \in Reviews,
               Propose(v) \/ DieReview(v) \/ \E r \in AllRoles : AnswerReview(v, r) \/ FailAsk(v, r)
        PROVE  ReviewInv'
    BY <1>1, <2>1, AskingKeepsReview
  <2>2. ASSUME NEW v \in Reviews, Gather(v) \/ PersistReview(v) PROVE ReviewInv'
    BY <1>1, <2>2, WritingKeepsReview
  <2>3. ASSUME NEW v \in Reviews, NextStage(v) PROVE ReviewInv' BY <1>1, <2>3, StagesKeepReview
  <2>4. ASSUME NEW v \in Reviews, Adjudicate(v) \/ Tell(v) PROVE ReviewInv' BY <1>1, <2>4, DecidingKeepsReview
  <2>5. CASE UNCHANGED reviewVars
    <3> USE <2>5 DEF reviewVars
    <3>1. ReviewKinds' BY <1>1 DEF ReviewInv, ReviewKinds
    <3>2. \A v \in Reviews : Recorded(v)' /\ Decided(v)' BY <1>1, OthersAreUntouched
    <3> QED BY <3>1, <3>2 DEF ReviewInv
  <2> QED BY <1>1, <2>1, <2>2, <2>3, <2>4, <2>5 DEF ReviewNext
<1>2. ReviewInv => AcceptedWithRecord BY DEF ReviewInv, Decided, AcceptedWithRecord
<1> QED BY <1>1, <1>2, ReviewStarts, PTL

-----------------------------------------------------------------------------
(* BlobStore: evidence that was readable stays readable.                   *)

WriterState ==
  [pc : {"idle", "open", "write", "replace", "row", "refer"}, content : Contents \cup {IdleWriter.content},
   at : {"none", "tmp", "path", "gone"}]

BlobKinds ==
  /\ file \in [Contents -> {"none", "part", "whole"}]
  /\ tmp \in [Contents -> {"none", "part", "whole"}]
  /\ writer \in [Writers -> WriterState]
  /\ evidence \subseteq Contents
  /\ sweep \in [pc : {"idle", "scan"}, protected : SUBSET Contents, left : SUBSET Contents]

\* A descriptor that writes to the path has a file there.
PathHasFile ==
  \A w \in Writers, c \in Contents : writer[w].content = c /\ writer[w].at = "path" => file[c] # "none"

\* No three writers have a blob in hand at once, unless it is on record.
NotCrowded ==
  \A c \in Contents \ crowded : \A u, v, w \in Writers :
    InPut(u, c) /\ InPut(v, c) /\ InPut(w, c) => u = v \/ u = w \/ v = w

\* Two writers that are in put at once both came before the first blob.
FirstPutsOverlap ==
  \A v, w \in Writers, c \in Contents \ crowded : v # w /\ InPut(v, c) /\ InPut(w, c) => file[c] = "none"

\* A writer that is late, after another published, will replace the blob by
\* nothing that is cut.
LatePutIsWhole ==
  \A w \in Writers, c \in Contents \ crowded :
    InPut(w, c) /\ file[c] # "none" =>
      \/ writer[w].pc = "open" \/ tmp[c] # "part"
      \/ (writer[w].pc = "write" /\ writer[w].at = "tmp")

\* What an attempt will refer to has a row; what is settled has one, and is
\* protected in the pass that is under way.
SettledIsProtected ==
  /\ \A w \in Writers : writer[w].pc = "refer" => writer[w].content \in artifact
  /\ settled \subseteq Contents /\ settled \subseteq Protected
  /\ sweep.pc = "scan" => settled \subseteq sweep.protected

BlobInv ==
  /\ BlobKinds /\ PathHasFile /\ NotCrowded /\ FirstPutsOverlap /\ LatePutIsWhole
  /\ SettledIsProtected /\ EvidenceReadable

\* The store is empty at the start.
LEMMA StoreStarts == BlobInit => BlobInv
<1> SUFFICES ASSUME BlobInit PROVE BlobInv
  OBVIOUS
<1>1. IdleWriter.pc = "idle" /\ IdleWriter.at = "none" /\ IdleWriter \in WriterState
  BY DEF IdleWriter, WriterState
<1> USE DEF BlobInit
<1>2. BlobKinds BY <1>1 DEF BlobKinds, IdleSweep
<1>3. PathHasFile BY <1>1 DEF PathHasFile
<1>4. NotCrowded /\ FirstPutsOverlap BY <1>1 DEF NotCrowded, FirstPutsOverlap, InPut
<1>5. LatePutIsWhole BY DEF LatePutIsWhole
<1>6. SettledIsProtected BY <1>1 DEF SettledIsProtected
<1>7. EvidenceReadable BY DEF EvidenceReadable
<1> QED BY <1>2, <1>3, <1>4, <1>5, <1>6, <1>7 DEF BlobInv

\* One writer moves on, the files as they are: it may enter put only while there
\* is no blob, and touches neither temporary file nor descriptor in it.
LEMMA WriterMoves ==
  ASSUME BlobInv, NEW w \in Writers, NEW x \in WriterState, writer' = [writer EXCEPT ![w] = x],
         UNCHANGED <<file, tmp>>,
         \A c \in Contents : x.content = c =>
           /\ x.pc \in {"open", "write", "replace"} => file[c] = "none"
           /\ x.at = "path" => file[c] # "none",
         crowded \subseteq crowded',
         \A c \in Contents \ crowded' :
           x.content = c /\ x.pc \in {"open", "write", "replace"} =>
             InPut(w, c) \/ \A u, v \in Writers : InPut(u, c) /\ InPut(v, c) => u = v
  PROVE  /\ writer' \in [Writers -> WriterState]
         /\ PathHasFile' /\ NotCrowded' /\ FirstPutsOverlap' /\ LatePutIsWhole'
<1> USE DEF BlobInv, BlobKinds
<1>1. \A v \in Writers : writer'[v] = IF v = w THEN x ELSE writer[v] OBVIOUS
<1>2. PathHasFile' BY <1>1 DEF PathHasFile
<1>3. FirstPutsOverlap' BY <1>1 DEF FirstPutsOverlap, InPut
<1>4. LatePutIsWhole' BY <1>1 DEF LatePutIsWhole, InPut
<1>5. NotCrowded'
  <2> SUFFICES ASSUME NEW c \in Contents \ crowded', NEW u \in Writers, NEW v \in Writers, NEW z \in Writers,
                      InPut(u, c)', InPut(v, c)', InPut(z, c)'
               PROVE  u = v \/ u = z \/ v = z
    BY DEF NotCrowded
  <2>1. \A y \in Writers \ {w} : InPut(y, c)' => InPut(y, c) BY <1>1 DEF InPut
  <2>2. InPut(w, c)' => InPut(w, c) \/ \A y, q \in Writers : InPut(y, c) /\ InPut(q, c) => y = q
    BY <1>1 DEF InPut
  <2> QED BY <2>1, <2>2 DEF NotCrowded
<1> QED BY <1>2, <1>3, <1>4, <1>5

\* What a writer is told from its own state alone: it looks, records a row, refers
\* to it, fails or dies.
LEMMA WritersKeepStore ==
  ASSUME BlobInv, NEW w \in Writers,
         DieWriter(w) \/ \E c \in Contents : Put(w, c) \/ CommitRow(w, c) \/ Refer(w, c)
  PROVE  BlobInv'
<1> USE DEF BlobInv
<1>0. /\ writer[w] \in WriterState /\ IdleWriter \in WriterState
      /\ IdleWriter.pc = "idle" /\ IdleWriter.at = "none"
  BY DEF BlobKinds, IdleWriter, WriterState
<1>1. UNCHANGED <<file, tmp, sweep>> BY DEF DieWriter, Put, CommitRow, Refer
<1> DEFINE Kept == /\ EvidenceReadable' /\ SettledIsProtected'
                   /\ PathHasFile' /\ NotCrowded' /\ FirstPutsOverlap' /\ LatePutIsWhole'
                   /\ writer' \in [Writers -> WriterState]
<1>2. Kept
  <2>1. ASSUME writer' = [writer EXCEPT ![w] = IdleWriter], crowded' = crowded
        PROVE  PathHasFile' /\ NotCrowded' /\ FirstPutsOverlap' /\ LatePutIsWhole' /\ writer' \in [Writers -> WriterState]
    BY <1>0, <1>1, <2>1, WriterMoves
  <2>2. CASE DieWriter(w)
    <3> USE <2>2 DEF DieWriter
    <3>1. SettledIsProtected' BY <1>0 DEF SettledIsProtected, Protected, BlobKinds
    <3>2. EvidenceReadable' BY DEF EvidenceReadable, Readable
    <3> QED BY <2>1, <3>1, <3>2
  <2>3. ASSUME NEW c \in Contents, Put(w, c) PROVE Kept
    <3> DEFINE x == [pc |-> IF file[c] = "none" THEN "open" ELSE "row", content |-> c, at |-> "none"]
    <3>1. writer' = [writer EXCEPT ![w] = x] BY <2>3 DEF Put
    <3>2. x \in WriterState BY DEF WriterState
    <3>3. x.content = c /\ x.at = "none" /\ x.pc \in {"open", "row"} /\ (x.pc = "open" => file[c] = "none")
      OBVIOUS
    <3> HIDE DEF x
    <3>a. /\ crowded \subseteq crowded'
          /\ c \notin crowded' =>
               (file[c] = "none" => \A u, v \in Writers : InPut(u, c) /\ InPut(v, c) => u = v)
      BY <2>3 DEF Put
    <3>b. \A d \in Contents \ crowded' : x.content = d /\ x.pc \in {"open", "write", "replace"} =>
            InPut(w, d) \/ \A u, v \in Writers : InPut(u, d) /\ InPut(v, d) => u = v
      BY <3>3, <3>a
    <3>c. \A d \in Contents : x.content = d =>
            /\ x.pc \in {"open", "write", "replace"} => file[d] = "none"
            /\ x.at = "path" => file[d] # "none"
      BY <3>3
    <3>4. PathHasFile' /\ NotCrowded' /\ FirstPutsOverlap' /\ LatePutIsWhole' /\ writer' \in [Writers -> WriterState]
      BY <1>1, <3>1, <3>2, <3>a, <3>b, <3>c, WriterMoves
    <3>5. SettledIsProtected' BY <2>3, <3>1, <3>3 DEF Put, SettledIsProtected, Protected, BlobKinds
    <3>6. EvidenceReadable' BY <2>3 DEF Put, EvidenceReadable, Readable
    <3> QED BY <3>4, <3>5, <3>6
  <2>4. ASSUME NEW c \in Contents, CommitRow(w, c) PROVE Kept
    <3> DEFINE x == [writer[w] EXCEPT !.pc = "refer"]
    <3>1. writer' = [writer EXCEPT ![w] = x] /\ writer[w].content = c BY <2>4 DEF CommitRow, Step, At
    <3>2. x \in WriterState /\ x.pc = "refer" /\ x.content = c /\ x.at = writer[w].at
      BY <1>0, <3>1 DEF WriterState
    <3> HIDE DEF x
    <3>3. \A d \in Contents : x.content = d /\ x.at = "path" => file[d] # "none"
      BY <3>1, <3>2 DEF PathHasFile
    <3>a. crowded' = crowded BY <2>4 DEF CommitRow
    <3>4. PathHasFile' /\ NotCrowded' /\ FirstPutsOverlap' /\ LatePutIsWhole' /\ writer' \in [Writers -> WriterState]
      BY <1>1, <3>1, <3>2, <3>3, <3>a, WriterMoves
    <3>5. SettledIsProtected' BY <2>4, <3>1, <3>2 DEF CommitRow, SettledIsProtected, Protected, BlobKinds
    <3>6. EvidenceReadable' BY <2>4 DEF CommitRow, EvidenceReadable, Readable
    <3> QED BY <3>4, <3>5, <3>6
  <2>5. ASSUME NEW c \in Contents, Refer(w, c) PROVE Kept
    <3>1. c \in artifact BY <2>5 DEF Refer, At, SettledIsProtected
    <3>2. SettledIsProtected'
      BY <1>0, <2>5, <3>1 DEF Refer, SettledIsProtected, Protected, BlobKinds
    <3>3. EvidenceReadable' BY <2>5 DEF Refer, EvidenceReadable, Readable
    <3> QED BY <2>1, <2>5, <3>2, <3>3 DEF Refer
  <2> QED BY <2>2, <2>3, <2>4, <2>5
<1>3. evidence' \subseteq Contents BY DEF BlobKinds, DieWriter, Put, CommitRow, Refer
<1>4. BlobKinds' BY <1>1, <1>2, <1>3 DEF BlobKinds
<1> QED BY <1>2, <1>4

\* A writer of a blob opens, writes and publishes it.
LEMMA PutKeepsStore ==
  ASSUME BlobInv, NEW w \in Writers, NEW c \in Contents,
         Open(w, c) \/ Write(w, c) \/ Replace(w, c)
  PROVE  BlobInv'
<1> USE DEF BlobInv
<1>0. writer[w] \in WriterState /\ writer[w].content = c /\ InPut(w, c)
  BY DEF BlobKinds, Open, Write, Replace, At, InPut
<1>1. UNCHANGED <<artifact, evidence, sweep, settled, crowded>> BY DEF Open, Write, Replace
<1>a. ASSUME \A v \in Writers, d \in Contents : InPut(v, d)' => InPut(v, d)
      PROVE  NotCrowded'
  BY <1>1, <1>a DEF NotCrowded
<1>2. SettledIsProtected'
  <2>1. \A v \in Writers : writer'[v].pc = "refer" => writer[v].pc = "refer" /\ writer'[v].content = writer[v].content
    <3>1. /\ writer \in [Writers -> WriterState]
          /\ \A v \in Writers : writer[v] = [writer[v] EXCEPT !.pc = writer[v].pc]
      BY DEF BlobKinds, WriterState
    <3>2. CASE Open(w, c) BY <3>1, <3>2 DEF WriterState, Open, OpenFor
    <3>3. CASE Write(w, c) BY <3>1, <3>3 DEF WriterState, Write, Step
    <3>4. CASE Replace(w, c) /\ tmp[c] = "none"
      <4>1. IdleWriter.pc = "idle" BY DEF IdleWriter
      <4> QED BY <3>1, <3>4, <4>1 DEF Replace
    <3>5. CASE Replace(w, c) /\ tmp[c] # "none"
      <4>1. writer' = [v \in Writers |-> IF v = w THEN [writer[w] EXCEPT !.pc = "row", !.at = "none"]
                                         ELSE [writer[v] EXCEPT !.at = Moved(v, c)]]
        BY <3>5 DEF Replace
      <4> QED BY <3>1, <4>1 DEF WriterState
    <3> QED BY <3>2, <3>3, <3>4, <3>5
  <2> QED BY <1>1, <2>1 DEF SettledIsProtected, Protected
<1>3. CASE Open(w, c)
  <2> USE <1>3 DEF Open, OpenFor, At
  <2>1. /\ writer' = [writer EXCEPT ![w].pc = "write", ![w].at = "tmp"]
        /\ tmp' = [tmp EXCEPT ![c] = "part"] /\ file' = file
    OBVIOUS
  <2>2. /\ writer' \in [Writers -> WriterState]
        /\ writer'[w].pc = "write" /\ writer'[w].at = "tmp" /\ writer'[w].content = c
        /\ \A v \in Writers \ {w} : writer'[v] = writer[v]
    <3>1. writer' = [writer EXCEPT ![w] = [writer[w] EXCEPT !.pc = "write", !.at = "tmp"]]
      BY <2>1 DEF BlobKinds
    <3>2. [writer[w] EXCEPT !.pc = "write", !.at = "tmp"] \in WriterState BY <1>0 DEF WriterState
    <3> QED BY <1>0, <3>1, <3>2 DEF BlobKinds, WriterState
  <2>3. BlobKinds' BY <1>1, <2>1, <2>2 DEF BlobKinds
  <2>4. PathHasFile' BY <2>1, <2>2 DEF PathHasFile
  <2>5. FirstPutsOverlap' BY <1>0, <1>1, <2>1, <2>2 DEF FirstPutsOverlap, InPut
  <2>6. LatePutIsWhole'
    <3>1. c \notin crowded => \A v \in Writers \ {w} : InPut(v, c) => file[c] = "none"
      BY <1>0 DEF FirstPutsOverlap
    <3> QED BY <1>1, <2>1, <2>2, <3>1 DEF LatePutIsWhole, InPut, BlobKinds
  <2>7. EvidenceReadable' BY <1>1, <2>1 DEF EvidenceReadable, Readable
  <2>8. NotCrowded' BY <1>0, <1>a, <2>2 DEF InPut
  <2> QED BY <1>2, <2>3, <2>4, <2>5, <2>6, <2>7, <2>8
<1>4. CASE Write(w, c)
  <2> USE <1>4 DEF Write, At
  <2>1. /\ writer' \in [Writers -> WriterState]
        /\ writer'[w].pc = "replace" /\ writer'[w].at = writer[w].at /\ writer'[w].content = c
        /\ \A v \in Writers \ {w} : writer'[v] = writer[v]
    BY <1>0 DEF BlobKinds, WriterState, Step
  <2>2. /\ file' \in [Contents -> {"none", "part", "whole"}] /\ tmp' \in [Contents -> {"none", "part", "whole"}]
        /\ \A d \in Contents : /\ file'[d] # file[d] => d = c /\ writer[w].at = "path" /\ file'[d] = "whole"
                               /\ tmp'[d] # tmp[d] => tmp'[d] = "whole"
        /\ writer[w].at = "tmp" => tmp'[c] = "whole"
    BY DEF BlobKinds
  <2>3. \A d \in Contents : file'[d] = "none" <=> file[d] = "none"
    BY <1>0, <2>2 DEF PathHasFile
  <2>4. BlobKinds' BY <1>1, <2>1, <2>2 DEF BlobKinds
  <2>5. PathHasFile' BY <2>1, <2>3, <1>0 DEF PathHasFile
  <2>6. FirstPutsOverlap' BY <1>0, <1>1, <2>1, <2>3 DEF FirstPutsOverlap, InPut
  <2>7. LatePutIsWhole' BY <1>0, <1>1, <2>1, <2>2, <2>3 DEF LatePutIsWhole, InPut
  <2>8. EvidenceReadable' BY <1>1, <2>2 DEF EvidenceReadable, Readable, SettledIsProtected
  <2>9. NotCrowded' BY <1>0, <1>a, <2>1 DEF InPut
  <2> QED BY <1>2, <2>4, <2>5, <2>6, <2>7, <2>8, <2>9
<1>5. CASE Replace(w, c) /\ tmp[c] = "none"
  <2>1. /\ IdleWriter \in WriterState /\ IdleWriter.pc = "idle" /\ IdleWriter.at = "none"
        /\ writer' = [writer EXCEPT ![w] = IdleWriter] /\ UNCHANGED <<file, tmp, old>>
    BY <1>5 DEF Replace, IdleWriter, WriterState
  <2>2. /\ PathHasFile' /\ NotCrowded' /\ FirstPutsOverlap' /\ LatePutIsWhole'
        /\ writer' \in [Writers -> WriterState]
    BY <1>1, <2>1, WriterMoves
  <2>3. EvidenceReadable' BY <1>1, <2>1 DEF EvidenceReadable, Readable
  <2> QED BY <1>1, <1>2, <2>1, <2>2, <2>3 DEF BlobKinds
<1>6. CASE Replace(w, c) /\ tmp[c] # "none"
  <2>1. /\ file' = [file EXCEPT ![c] = tmp[c]] /\ tmp' = [tmp EXCEPT ![c] = "none"]
        /\ writer' = [v \in Writers |-> IF v = w THEN [writer[w] EXCEPT !.pc = "row", !.at = "none"]
                                        ELSE [writer[v] EXCEPT !.at = Moved(v, c)]]
        /\ writer[w].pc = "replace"
    BY <1>6 DEF Replace, At
  <2>2. /\ writer'[w] \in WriterState
        /\ writer'[w].pc = "row" /\ writer'[w].at = "none"
    BY <1>0, <2>1 DEF WriterState
  <2>3. ASSUME NEW v \in Writers \ {w}
        PROVE  /\ writer'[v] \in WriterState
               /\ writer'[v].pc = writer[v].pc /\ writer'[v].content = writer[v].content
               /\ writer[v].content # c => writer'[v].at = writer[v].at
    <3>1. writer[v] \in WriterState BY DEF BlobKinds
    <3>2. Moved(v, c) \in {"none", "tmp", "path", "gone"} /\ (writer[v].content # c => Moved(v, c) = writer[v].at)
      BY <3>1 DEF Moved, WriterState
    <3>3. writer'[v] = [writer[v] EXCEPT !.at = Moved(v, c)] BY <2>1
    <3> QED BY <3>1, <3>2, <3>3 DEF WriterState
  <2>4. writer' \in [Writers -> WriterState] BY <2>1, <2>2, <2>3
  <2>5. BlobKinds' BY <1>1, <2>1, <2>4 DEF BlobKinds
  <2>6. file'[c] = tmp[c] /\ file'[c] # "none" /\ tmp'[c] = "none"
        /\ \A d \in Contents \ {c} : file'[d] = file[d] /\ tmp'[d] = tmp[d]
    BY <1>6, <2>1 DEF BlobKinds
  <2>7. PathHasFile' BY <2>2, <2>3, <2>6 DEF PathHasFile
  <2>8. FirstPutsOverlap'
    <3>1. \A v \in Writers, d \in Contents : InPut(v, d)' => v # w /\ InPut(v, d) BY <2>2, <2>3 DEF InPut
    <3>2. \A u, v \in Writers : c \notin crowded /\ InPut(u, c)' /\ InPut(v, c)' => u = v
      BY <1>0, <3>1 DEF NotCrowded
    <3> QED BY <1>1, <2>6, <3>1, <3>2 DEF FirstPutsOverlap
  <2>9. LatePutIsWhole'
    <3>1. \A v \in Writers, d \in Contents : InPut(v, d)' => v # w /\ InPut(v, d) BY <2>2, <2>3 DEF InPut
    <3> QED BY <1>1, <2>3, <2>6, <3>1 DEF LatePutIsWhole, InPut
  <2>10. EvidenceReadable'
    <3>1. c \in settled \ crowded => tmp[c] = "whole"
      BY <1>0, <1>6, <2>1 DEF EvidenceReadable, Readable, LatePutIsWhole, BlobKinds
    <3> QED BY <1>1, <2>6, <3>1 DEF EvidenceReadable, Readable, SettledIsProtected
  <2>11. NotCrowded'
    <3>1. \A v \in Writers, d \in Contents : InPut(v, d)' => InPut(v, d) BY <2>2, <2>3 DEF InPut
    <3> QED BY <1>a, <3>1
  <2> QED BY <1>2, <2>5, <2>7, <2>8, <2>9, <2>10, <2>11
<1> QED BY <1>3, <1>4, <1>5, <1>6

\* The pass removes what is old and unprotected, which nothing settled is.
LEMMA SweepKeepsStore ==
  ASSUME BlobInv, BeginSweep \/ EndSweep \/ \E c \in Contents : Age(c) \/ Scan(c)
  PROVE  BlobInv'
<1> USE DEF BlobInv
<1>1. CASE BeginSweep
  <2> USE <1>1 DEF BeginSweep
  <2>1. BlobKinds' BY DEF BlobKinds, Protected, SettledIsProtected
  <2>2. SettledIsProtected' BY DEF SettledIsProtected, Protected
  <2>3. PathHasFile' /\ NotCrowded' /\ FirstPutsOverlap' BY DEF PathHasFile, NotCrowded, FirstPutsOverlap, InPut
  <2>4. LatePutIsWhole' /\ EvidenceReadable' BY DEF LatePutIsWhole, InPut, EvidenceReadable, Readable
  <2> QED BY <2>1, <2>2, <2>3, <2>4
<1>2. CASE EndSweep
  BY <1>2 DEF EndSweep, IdleSweep, BlobKinds, PathHasFile, NotCrowded, FirstPutsOverlap, LatePutIsWhole, InPut,
              SettledIsProtected, Protected, EvidenceReadable, Readable
<1>3. ASSUME NEW c \in Contents, Age(c) PROVE BlobInv'
  BY <1>3 DEF Age, BlobKinds, PathHasFile, NotCrowded, FirstPutsOverlap, LatePutIsWhole, InPut, SettledIsProtected,
              Protected, EvidenceReadable, Readable
<1>4. ASSUME NEW c \in Contents, Scan(c) PROVE BlobInv'
  <2>1. UNCHANGED <<tmp, artifact, evidence, settled, crowded>> /\ sweep' = [sweep EXCEPT !.left = @ \ {c}]
        /\ sweep.pc = "scan"
    BY <1>4 DEF Scan
  <2>2. /\ sweep' \in [pc : {"idle", "scan"}, protected : SUBSET Contents, left : SUBSET Contents]
        /\ sweep'.pc = sweep.pc /\ sweep'.protected = sweep.protected
    BY <2>1 DEF BlobKinds
  <2>3. CASE ~ (c \in old \ sweep.protected)
    <3>1. UNCHANGED <<file, writer>> BY <1>4, <2>3 DEF Scan
    <3> QED BY <2>1, <2>2, <3>1 DEF BlobKinds, PathHasFile, NotCrowded, FirstPutsOverlap, LatePutIsWhole, InPut,
            SettledIsProtected, Protected, EvidenceReadable, Readable
  <2>4. CASE c \in old \ sweep.protected
    <3>1. /\ file' = [file EXCEPT ![c] = "none"]
          /\ writer' = [w \in Writers |-> IF writer[w].content = c /\ writer[w].at = "path"
                                          THEN [writer[w] EXCEPT !.at = "gone"] ELSE writer[w]]
      BY <1>4, <2>4 DEF Scan
    <3>2. \A w \in Writers :
            /\ writer'[w] \in WriterState
            /\ writer'[w].pc = writer[w].pc /\ writer'[w].content = writer[w].content
            /\ writer'[w].at # writer[w].at => writer[w].content = c
            /\ writer[w].content = c => writer'[w].at # "path"
      BY <3>1 DEF BlobKinds, WriterState
    <3>3. file'[c] = "none" /\ \A d \in Contents \ {c} : file'[d] = file[d] BY <3>1 DEF BlobKinds
    <3>4. BlobKinds' BY <2>1, <2>2, <3>1, <3>2 DEF BlobKinds
    <3>5. PathHasFile' BY <3>2, <3>3 DEF PathHasFile
    <3>6. FirstPutsOverlap' /\ NotCrowded' BY <2>1, <3>2, <3>3 DEF FirstPutsOverlap, NotCrowded, InPut
    <3>7. LatePutIsWhole' BY <2>1, <3>2, <3>3 DEF LatePutIsWhole, InPut
    <3>8. SettledIsProtected' BY <2>1, <2>2, <3>2 DEF SettledIsProtected, Protected
    <3>9. EvidenceReadable' BY <2>1, <2>4, <3>3 DEF EvidenceReadable, Readable, SettledIsProtected
    <3> QED BY <3>4, <3>5, <3>6, <3>7, <3>8, <3>9
  <2> QED BY <2>3, <2>4
<1> QED BY <1>1, <1>2, <1>3, <1>4

\* Every step of the store.
LEMMA StoreStep == BlobInv /\ [BlobNext]_blobVars => BlobInv'
<1> SUFFICES ASSUME BlobInv, [BlobNext]_blobVars PROVE BlobInv'
  OBVIOUS
<1>1. ASSUME NEW w \in Writers,
             DieWriter(w) \/ \E c \in Contents : Put(w, c) \/ CommitRow(w, c) \/ Refer(w, c)
      PROVE  BlobInv'
  BY <1>1, WritersKeepStore
<1>2. ASSUME NEW w \in Writers, NEW c \in Contents, Open(w, c) \/ Write(w, c) \/ Replace(w, c)
      PROVE  BlobInv'
  BY <1>2, PutKeepsStore
<1>3. CASE BeginSweep \/ EndSweep \/ \E c \in Contents : Age(c) \/ Scan(c) BY <1>3, SweepKeepsStore
<1>4. CASE UNCHANGED blobVars
  BY <1>4 DEF blobVars, BlobInv, BlobKinds, PathHasFile, NotCrowded, FirstPutsOverlap, LatePutIsWhole, InPut,
              SettledIsProtected, Protected, EvidenceReadable, Readable
<1> QED BY <1>1, <1>2, <1>3, <1>4 DEF BlobNext, Store

\* Evidence that was readable when it was recorded stays readable, for any writers,
\* contents, deaths and passes, unless three writers store it at the same time.
THEOREM EvidenceSafe == BlobInit /\ [][BlobNext]_blobVars => []EvidenceReadable
<1>1. BlobInv => EvidenceReadable BY DEF BlobInv
<1>2. BlobInv /\ [BlobNext]_blobVars => BlobInv' BY StoreStep
<1> QED BY <1>1, <1>2, StoreStarts, PTL

-----------------------------------------------------------------------------
(* Downloads: the bytes sent are those the range asks for.                 *)

DownloadFields == {"pc", "header", "size", "status", "start", "cursor", "end", "want", "sent"}

DownloadState(d) ==
  /\ DOMAIN d = DownloadFields
  /\ d.pc \in {"idle", "described", "stream", "read", "done", "cut"}
  /\ d.size \in Nat /\ d.status \in {0, 200, 206, 404, 416}
  /\ d.start \in Nat /\ d.cursor \in Nat /\ d.end \in Nat /\ d.want \in Nat /\ d.sent \in Seq(Nat)

\* The bytes asked for are one stretch, of which there is at least one unless
\* the header names none.
Stretch(h, size, from, to) ==
  /\ h \in Headers /\ from <= to /\ to <= size /\ Wanted(h, size) = from..(to - 1)
  /\ h.form # "none" => from < to

\* What has been sent is the beginning of that stretch.
Sending(d) ==
  /\ Stretch(d.header, d.size, d.start, d.end)
  /\ d.cursor = d.start + Len(d.sent) /\ d.cursor <= d.end
  /\ \A i \in 1..Len(d.sent) : d.sent[i] = d.start + i - 1
  /\ d.pc = "read" => d.cursor + d.want <= d.end

\* The state of a request, by its reply.
RequestInv(d) ==
  /\ d.pc = "idle" => d.status = 0
  /\ d.pc = "described" => d.header \in Headers /\ d.status = 0
  /\ d.pc \in {"stream", "read"} => d.status \in {200, 206}
  /\ d.status \in {0, 404, 416} => d.sent = <<>>
  /\ d.status = 416 => Wanted(d.header, d.size) = {}
  /\ d.status = 206 => d.header.form # "none"
  /\ d.status \in {200, 206} => Sending(d)

\* While nothing happened to the blob, a chunk is never short.
Untouched(d) ==
  swaps = 0 =>
    /\ onDisk = length
    /\ d.pc # "idle" /\ d.status # 404 => d.size = length
    /\ d.pc = "read" => d.want >= 1
    /\ d.pc = "done" /\ d.status \in {200, 206} => d.cursor = d.end

DownloadKinds ==
  /\ length \in Nat /\ onDisk \in Nat \cup {NoBlob} /\ swaps \in Nat
  /\ DownloadState(download)

DownloadInv == DownloadKinds /\ RequestInv(download) /\ Untouched(download)

USE DownloadAssumption

\* The least and the greatest of two numbers.
LEMMA ExtremesOfTwo ==
  ASSUME NEW a \in Int, NEW b \in Int
  PROVE  /\ Min({a, b}) = IF a <= b THEN a ELSE b
         /\ Max({a, b}) = IF a >= b THEN a ELSE b
<1>1. \E x \in {a, b} : \A y \in {a, b} : x <= y OBVIOUS
<1>2. \E x \in {a, b} : \A y \in {a, b} : x >= y OBVIOUS
<1>3. Min({a, b}) \in {a, b} /\ \A y \in {a, b} : Min({a, b}) <= y BY <1>1 DEF Min
<1>4. Max({a, b}) \in {a, b} /\ \A y \in {a, b} : Max({a, b}) >= y BY <1>2 DEF Max
<1> QED BY <1>3, <1>4

\* The least of three numbers.
LEMMA LeastOfThree ==
  ASSUME NEW a \in Int, NEW b \in Int, NEW c \in Int
  PROVE  /\ Min({a, b, c}) \in {a, b, c}
         /\ Min({a, b, c}) <= a /\ Min({a, b, c}) <= b /\ Min({a, b, c}) <= c
<1>1. \E x \in {a, b, c} : \A y \in {a, b, c} : x <= y OBVIOUS
<1>2. Min({a, b, c}) \in {a, b, c} /\ \A y \in {a, b, c} : Min({a, b, c}) <= y BY <1>1 DEF Min
<1> QED BY <1>2

\* A range that is not refused asks for the stretch from its start to its end.
LEMMA RangeIsStretch ==
  ASSUME NEW h \in Headers, NEW s \in Nat, h.form = "none" \/ ~ Refused(h, s)
  PROVE  /\ StartOf(h, s) \in Nat /\ EndOf(h, s) \in Nat
         /\ Stretch(h, s, StartOf(h, s), EndOf(h, s))
<1>0. h.first \in Nat /\ h.last \in Nat /\ h.form \in {"none", "malformed", "suffix", "open", "closed"}
  OBVIOUS
<1>1. CASE h.form = "none"
  <2>1. StartOf(h, s) = 0 /\ EndOf(h, s) = s BY <1>1 DEF StartOf, EndOf
  <2>2. Wanted(h, s) = 0..(s - 1) BY <1>1 DEF Wanted
  <2> QED BY <1>1, <2>1, <2>2 DEF Stretch
<1>2. CASE h.form = "suffix"
  <2>1. s # 0 /\ h.last # 0 BY <1>2 DEF Refused
  <2>2. StartOf(h, s) = IF 0 >= s - h.last THEN 0 ELSE s - h.last
    <3>1. StartOf(h, s) = Max({0, s - h.last}) BY <1>2 DEF StartOf
    <3>2. 0 \in Int /\ s - h.last \in Int BY <1>0
    <3> QED BY <3>1, <3>2, ExtremesOfTwo
  <2>3. EndOf(h, s) = s BY <1>2 DEF EndOf
  <2>4. Wanted(h, s) = {p \in 0..(s - 1) : p >= s - h.last} BY <1>2 DEF Wanted
  <2>5. StartOf(h, s) \in Nat /\ StartOf(h, s) < s BY <1>0, <2>1, <2>2
  <2>6. Wanted(h, s) = StartOf(h, s)..(s - 1) BY <1>0, <2>2, <2>4
  <2> QED BY <2>3, <2>5, <2>6 DEF Stretch
<1>3. CASE h.form = "open"
  <2>1. h.first < s BY <1>0, <1>3 DEF Refused
  <2>2. StartOf(h, s) = h.first /\ EndOf(h, s) = s BY <1>3 DEF StartOf, EndOf
  <2>3. Wanted(h, s) = {p \in 0..(s - 1) : p >= h.first} BY <1>3 DEF Wanted
  <2>4. Wanted(h, s) = h.first..(s - 1) BY <1>0, <2>3
  <2> QED BY <1>0, <2>1, <2>2, <2>4 DEF Stretch
<1>4. CASE h.form = "closed"
  <2>1. EndOf(h, s) = IF h.last + 1 <= s THEN h.last + 1 ELSE s BY <1>0, <1>4, ExtremesOfTwo DEF EndOf
  <2>2. EndOf(h, s) \in Nat BY <1>0, <2>1
  <2>3. h.first < EndOf(h, s) BY <1>0, <1>4, <2>2 DEF Refused
  <2>4. StartOf(h, s) = h.first BY <1>4 DEF StartOf
  <2>5. Wanted(h, s) = {p \in 0..(s - 1) : p \in h.first..h.last} BY <1>4 DEF Wanted
  <2>6. Wanted(h, s) = h.first..(EndOf(h, s) - 1) BY <1>0, <2>1, <2>5
  <2> QED BY <1>0, <2>1, <2>2, <2>3, <2>4, <2>6 DEF Stretch
<1> QED BY <1>0, <1>1, <1>2, <1>3, <1>4 DEF Refused

\* A range that is refused asks for nothing.
LEMMA RefusedIsEmpty ==
  ASSUME NEW h \in Headers, NEW s \in Nat, h.form # "none", Refused(h, s)
  PROVE  Wanted(h, s) = {}
<1>0. h.first \in Nat /\ h.last \in Nat /\ h.form \in {"malformed", "suffix", "open", "closed"}
  OBVIOUS
<1>1. CASE s = 0 BY <1>1 DEF Wanted
<1>2. CASE s # 0 /\ h.form = "malformed" BY <1>2 DEF Wanted
<1>3. CASE s # 0 /\ h.form = "suffix"
  <2>1. h.last = 0 BY <1>3 DEF Refused
  <2> QED BY <1>3, <2>1 DEF Wanted
<1>4. CASE s # 0 /\ h.form = "open"
  <2>1. h.first >= s BY <1>0, <1>4 DEF Refused, EndOf
  <2> QED BY <1>0, <1>4, <2>1 DEF Wanted
<1>5. CASE s # 0 /\ h.form = "closed"
  <2>1. EndOf(h, s) = IF h.last + 1 <= s THEN h.last + 1 ELSE s BY <1>0, <1>5, ExtremesOfTwo DEF EndOf
  <2>2. h.first >= s \/ EndOf(h, s) <= h.first BY <1>5 DEF Refused
  <2>3. Wanted(h, s) = {p \in 0..(s - 1) : p \in h.first..h.last} BY <1>5 DEF Wanted
  <2> QED BY <1>0, <2>1, <2>2, <2>3
<1> QED BY <1>0, <1>1, <1>2, <1>3, <1>4, <1>5

\* Nothing was asked for at the start.
LEMMA DownloadStarts == DownloadInit => DownloadInv
<1> SUFFICES ASSUME DownloadInit PROVE DownloadInv
  OBVIOUS
<1>1. DownloadState(Unasked) /\ Unasked.pc = "idle" /\ Unasked.status = 0 /\ Unasked.sent = <<>>
  BY DEF Unasked, DownloadState, DownloadFields
<1>2. download = Unasked /\ length \in Nat /\ onDisk = length /\ swaps = 0 BY DEF DownloadInit
<1>3. DownloadKinds BY <1>1, <1>2 DEF DownloadKinds
<1>4. RequestInv(download) /\ Untouched(download) BY <1>1, <1>2 DEF RequestInv, Untouched
<1> QED BY <1>3, <1>4 DEF DownloadInv

\* A header is asked with and answered by a reply.
LEMMA RepliesKeepDownload ==
  ASSUME DownloadInv, Reply \/ \E h \in Headers : AskContent(h)
  PROVE  DownloadInv'
<1> USE DEF DownloadInv
<1>0. DownloadState(download) BY DEF DownloadKinds
<1>1. UNCHANGED <<length, onDisk, swaps>> BY DEF Reply, AskContent
<1>2. ASSUME NEW q, DownloadState(q), download' = q, RequestInv(q), Untouched(q) PROVE DownloadInv'
  BY <1>1, <1>2 DEF DownloadKinds, Untouched
<1>3. ASSUME NEW h \in Headers, AskContent(h) PROVE DownloadInv'
  <2>1. download.pc = "idle" /\ download.status = 0 /\ download.sent = <<>>
    BY <1>3 DEF AskContent, RequestInv
  <2>2. CASE onDisk = NoBlob
    <3> DEFINE q == [download EXCEPT !.pc = "done", !.header = h, !.status = 404]
    <3>1. download' = q BY <1>3, <2>2 DEF AskContent
    <3>2. /\ DOMAIN q = DownloadFields /\ q.pc = "done" /\ q.header = h
          /\ q.size = download.size /\ q.status = 404 /\ q.start = download.start
          /\ q.cursor = download.cursor /\ q.end = download.end /\ q.want = download.want /\ q.sent = download.sent
      BY <1>0 DEF DownloadState, DownloadFields
    <3> HIDE DEF q
    <3>3. DownloadState(q) BY <1>0, <3>2 DEF DownloadState
    <3>4. RequestInv(q) /\ Untouched(q) BY <2>1, <3>2 DEF RequestInv, Untouched
    <3> QED BY <1>2, <3>1, <3>3, <3>4
  <2>3. CASE onDisk # NoBlob
    <3> DEFINE q == [download EXCEPT !.pc = "described", !.header = h, !.size = onDisk]
    <3>1. download' = q BY <1>3, <2>3 DEF AskContent
    <3>2. onDisk \in Nat BY <2>3 DEF DownloadKinds
    <3>3. /\ DOMAIN q = DownloadFields /\ q.pc = "described" /\ q.header = h
          /\ q.size = onDisk /\ q.status = download.status /\ q.start = download.start
          /\ q.cursor = download.cursor /\ q.end = download.end /\ q.want = download.want /\ q.sent = download.sent
      BY <1>0 DEF DownloadState, DownloadFields
    <3> HIDE DEF q
    <3>4. DownloadState(q) BY <1>0, <3>2, <3>3 DEF DownloadState
    <3>5. RequestInv(q) /\ Untouched(q) BY <2>1, <3>3 DEF RequestInv, Untouched
    <3> QED BY <1>2, <3>1, <3>4, <3>5
  <2> QED BY <2>2, <2>3
<1>4. CASE Reply
  <2> DEFINE h == download.header
             s == download.size
  <2>1. download.pc = "described" /\ h \in Headers /\ s \in Nat /\ download.status = 0 /\ download.sent = <<>>
    BY <1>0, <1>4 DEF Reply, RequestInv, DownloadState
  <2>2. CASE h.form # "none" /\ Refused(h, s)
    <3> DEFINE q == [download EXCEPT !.pc = "done", !.status = 416]
    <3>1. download' = q BY <1>4, <2>2 DEF Reply
    <3>2. /\ DOMAIN q = DownloadFields /\ q.pc = "done" /\ q.header = download.header
          /\ q.size = download.size /\ q.status = 416 /\ q.start = download.start
          /\ q.cursor = download.cursor /\ q.end = download.end /\ q.want = download.want /\ q.sent = download.sent
      BY <1>0 DEF DownloadState, DownloadFields
    <3> HIDE DEF q
    <3>3. Wanted(q.header, q.size) = {} BY <2>1, <2>2, <3>2, RefusedIsEmpty
    <3>4. DownloadState(q) BY <1>0, <3>2 DEF DownloadState
    <3>5. RequestInv(q) BY <2>1, <3>2, <3>3 DEF RequestInv
    <3>6. Untouched(q) BY <2>1, <3>2 DEF Untouched
    <3> QED BY <1>2, <3>1, <3>4, <3>5, <3>6
  <2>3. CASE h.form = "none" \/ ~ Refused(h, s)
    <3>1. PICK from \in Nat, to \in Nat :
            from = StartOf(h, s) /\ to = EndOf(h, s) /\ Stretch(h, s, from, to)
      BY <2>1, <2>3, RangeIsStretch
    <3>2. PICK code \in {200, 206} : code = IF h.form = "none" THEN 200 ELSE 206 OBVIOUS
    <3> DEFINE q == [download EXCEPT !.pc = "stream", !.status = code, !.start = from, !.cursor = from,
                                     !.end = to]
    <3>3. download' = q BY <1>4, <2>3, <3>1, <3>2 DEF Reply
    <3>4. /\ DOMAIN q = DownloadFields /\ q.pc = "stream" /\ q.header = download.header
          /\ q.size = download.size /\ q.status = code /\ q.start = from
          /\ q.cursor = from /\ q.end = to /\ q.want = download.want /\ q.sent = download.sent
      BY <1>0 DEF DownloadState, DownloadFields
    <3> HIDE DEF q
    <3>5. Sending(q) BY <2>1, <3>1, <3>4 DEF Sending, Stretch
    <3>6. DownloadState(q) BY <1>0, <3>1, <3>2, <3>4 DEF DownloadState
    <3>7. RequestInv(q) BY <3>2, <3>4, <3>5 DEF RequestInv
    <3>8. Untouched(q) BY <2>1, <3>4 DEF Untouched
    <3> QED BY <1>2, <3>3, <3>6, <3>7, <3>8
  <2> QED BY <2>2, <2>3
<1> QED BY <1>3, <1>4

\* A chunk is measured, read and sent, or the stream is over.
LEMMA StreamKeepsDownload ==
  ASSUME DownloadInv, Finished \/ Stat \/ Read
  PROVE  DownloadInv'
<1> USE DEF DownloadInv
<1>0. DownloadState(download) /\ download.pc \in {"stream", "read"} /\ download.status \in {200, 206}
      /\ Sending(download)
  BY DEF DownloadKinds, RequestInv, Finished, Stat, Read
<1>1. UNCHANGED <<length, onDisk, swaps>> BY DEF Finished, Stat, Read
<1>2. ASSUME NEW q, DownloadState(q), download' = q, RequestInv(q), Untouched(q) PROVE DownloadInv'
  BY <1>1, <1>2 DEF DownloadKinds, Untouched
\* The request stands still but for its phase.
<1>3. ASSUME NEW pc \in {"done", "cut"}, download' = [download EXCEPT !.pc = pc],
             pc = "done" => download.cursor = download.end
      PROVE  DownloadInv'
  <2> DEFINE q == [download EXCEPT !.pc = pc]
  <2>1. DownloadState(q) /\ q.pc = pc /\ q.status = download.status /\ q.header = download.header
        /\ q.size = download.size /\ q.start = download.start /\ q.cursor = download.cursor
        /\ q.end = download.end /\ q.sent = download.sent
    BY <1>0 DEF DownloadState, DownloadFields
  <2>2. download' = q BY <1>3
  <2> HIDE DEF q
  <2>3. Sending(q) BY <1>0, <2>1 DEF Sending
  <2>4. RequestInv(q) BY <1>0, <2>1, <2>3 DEF RequestInv
  <2>5. Untouched(q) BY <1>0, <1>3, <2>1 DEF Untouched
  <2> QED BY <1>2, <2>1, <2>2, <2>4, <2>5
<1>4. CASE Finished BY <1>3, <1>4 DEF Finished
<1>5. CASE Stat /\ (onDisk = NoBlob \/ download.cursor > onDisk) BY <1>3, <1>5 DEF Stat
<1>6. CASE Stat /\ ~ (onDisk = NoBlob \/ download.cursor > onDisk)
  <2>1. /\ onDisk \in Nat /\ download.cursor \in Nat /\ download.end \in Nat /\ download.cursor <= onDisk
        /\ download.cursor < download.end
    BY <1>0, <1>6 DEF DownloadKinds, DownloadState, Stat
  <2>2. PICK n : n = Min({CHUNK, download.end - download.cursor, onDisk - download.cursor}) OBVIOUS
  <2>3. n \in Nat /\ n <= download.end - download.cursor
        /\ (onDisk > download.cursor => n >= 1)
    <3>1. CHUNK \in Int /\ download.end - download.cursor \in Int /\ onDisk - download.cursor \in Int
      BY <2>1
    <3>2. n \in {CHUNK, download.end - download.cursor, onDisk - download.cursor}
          /\ n <= download.end - download.cursor
      BY <2>2, <3>1, LeastOfThree
    <3> QED BY <2>1, <3>1, <3>2
  <2> DEFINE q == [download EXCEPT !.pc = "read", !.want = n]
  <2>4. download' = q BY <1>6, <2>2 DEF Stat
  <2>5. DownloadState(q) /\ q.pc = "read" /\ q.status = download.status /\ q.header = download.header
        /\ q.size = download.size /\ q.start = download.start /\ q.cursor = download.cursor
        /\ q.end = download.end /\ q.sent = download.sent /\ q.want = n
    BY <1>0, <2>3 DEF DownloadState, DownloadFields
  <2> HIDE DEF q
  <2>6. Sending(q) BY <1>0, <2>1, <2>3, <2>5 DEF Sending
  <2>7. RequestInv(q) BY <1>0, <2>5, <2>6 DEF RequestInv
  <2>8. Untouched(q)
    <3>1. download.end <= download.size /\ download.size \in Nat
      BY <1>0 DEF Sending, Stretch, DownloadState
    <3> QED BY <1>0, <2>1, <2>3, <2>5, <3>1 DEF Untouched
  <2> QED BY <1>2, <2>4, <2>5, <2>7, <2>8
<1>7. CASE Read /\ onDisk = NoBlob BY <1>3, <1>7 DEF Read
<1>8. CASE Read /\ onDisk # NoBlob
  <2>1. /\ onDisk \in Nat /\ download.cursor \in Nat /\ download.end \in Nat /\ download.want \in Nat
        /\ download.start \in Nat /\ download.sent \in Seq(Nat) /\ download.pc = "read"
        /\ download.cursor + download.want <= download.end
    BY <1>0, <1>8 DEF DownloadKinds, DownloadState, Read, Sending
  <2>2. PICK got : got = Max({0, Min({download.want, onDisk - download.cursor})}) OBVIOUS
  <2>3. got \in Nat /\ got <= download.want
        /\ (download.cursor + download.want <= onDisk => got = download.want)
    <3>1. PICK a \in Int, b \in Int : a = download.want /\ b = onDisk - download.cursor BY <2>1
    <3>2. Min({a, b}) = IF a <= b THEN a ELSE b BY ExtremesOfTwo
    <3>3. PICK m \in Int : m = Min({a, b}) BY <3>2
    <3>4. Max({0, m}) = IF 0 >= m THEN 0 ELSE m
      <4>1. 0 \in Int OBVIOUS
      <4> QED BY <4>1, ExtremesOfTwo
    <3>5. got = Max({0, m}) BY <2>2, <3>1, <3>3
    <3> QED BY <2>1, <3>1, <3>2, <3>3, <3>4, <3>5
  <2>4. PICK chunk : chunk = [i \in 1..got |-> download.cursor + i - 1] OBVIOUS
  <2>5. chunk \in Seq(Nat) /\ Len(chunk) = got /\ \A i \in 1..got : chunk[i] = download.cursor + i - 1
    BY <2>1, <2>3, <2>4
  <2>6. PICK pc \in {"done", "stream"} : pc = IF got = 0 THEN "done" ELSE "stream" OBVIOUS
  <2>7. PICK n \in Nat, all \in Seq(Nat) :
          /\ all = download.sent \o chunk /\ n = Len(download.sent) /\ Len(all) = n + got
          /\ \A i \in 1..(n + got) : all[i] = IF i <= n THEN download.sent[i] ELSE chunk[i - n]
    <3>1. download.sent \in Seq(Nat) /\ chunk \in Seq(Nat) /\ Len(chunk) = got BY <2>1, <2>5
    <3>2. \A t, u \in Seq(Nat) :
            /\ t \o u \in Seq(Nat) /\ Len(t \o u) = Len(t) + Len(u)
            /\ \A i \in 1..(Len(t) + Len(u)) : (t \o u)[i] = IF i <= Len(t) THEN t[i] ELSE u[i - Len(t)]
      BY ConcatProperties
    <3>3. PICK all \in Seq(Nat) : all = download.sent \o chunk BY <3>1, <3>2
    <3>4. PICK n \in Nat : n = Len(download.sent) BY <3>1
    <3>5. Len(all) = n + got BY <3>1, <3>2, <3>3, <3>4
    <3>6. ASSUME NEW i \in 1..(n + got)
          PROVE  all[i] = IF i <= n THEN download.sent[i] ELSE chunk[i - n]
      <4>1. i \in 1..(Len(download.sent) + Len(chunk)) BY <3>1, <3>4
      <4>2. all[i] = IF i <= Len(download.sent) THEN download.sent[i] ELSE chunk[i - Len(download.sent)]
        BY <3>1, <3>2, <3>3, <4>1
      <4> QED BY <3>4, <4>2
    <3> QED BY <3>3, <3>4, <3>5, <3>6, Zenon
  <2> DEFINE q == [download EXCEPT !.pc = pc, !.cursor = download.cursor + got, !.sent = all]
  <2>8. download' = q BY <1>8, <2>2, <2>4, <2>6, <2>7 DEF Read
  <2>9. /\ DOMAIN q = DownloadFields /\ q.pc = pc /\ q.header = download.header
        /\ q.size = download.size /\ q.status = download.status /\ q.start = download.start
        /\ q.cursor = download.cursor + got /\ q.end = download.end /\ q.want = download.want
        /\ q.sent = all
    BY <1>0 DEF DownloadState, DownloadFields
  <2> HIDE DEF q
  <2>10. Sending(q)
    <3>1. \A i \in 1..n : download.sent[i] = download.start + i - 1 BY <1>0, <2>7 DEF Sending
    <3>2. download.cursor = download.start + n BY <1>0, <2>7 DEF Sending
    <3>3. ASSUME NEW i \in 1..(n + got) PROVE all[i] = download.start + i - 1
      <4>1. CASE i <= n BY <2>3, <2>7, <3>1, <4>1
      <4>2. CASE i > n
        <5>1. i - n \in 1..got BY <2>3, <4>2
        <5>2. all[i] = chunk[i - n] BY <2>3, <2>7, <4>2
        <5>3. chunk[i - n] = download.cursor + (i - n) - 1 BY <2>5, <5>1
        <5> QED BY <2>1, <2>3, <3>2, <5>2, <5>3
      <4> QED BY <2>3, <4>1, <4>2
    <3>4. q.cursor = q.start + Len(q.sent) /\ q.cursor <= q.end
      <4>1. Len(q.sent) = n + got BY <2>7, <2>9
      <4>2. q.cursor = download.start + n + got /\ q.start = download.start BY <2>1, <2>3, <2>9, <3>2
      <4>3. q.cursor <= q.end BY <2>1, <2>3, <2>9
      <4> QED BY <2>1, <2>3, <4>1, <4>2, <4>3
    <3>5. Stretch(q.header, q.size, q.start, q.end) BY <1>0, <2>9 DEF Sending
    <3> QED BY <2>6, <2>7, <2>9, <3>3, <3>4, <3>5 DEF Sending
  <2>11. RequestInv(q) BY <1>0, <2>6, <2>9, <2>10 DEF RequestInv
  <2>12. Untouched(q)
    <3>1. download.end <= download.size /\ download.size \in Nat
      BY <1>0 DEF Sending, Stretch, DownloadState
    <3>2. swaps = 0 => onDisk = download.size /\ download.want >= 1 /\ onDisk = length
      BY <1>0, <2>1 DEF Untouched
    <3>3. ASSUME swaps = 0 PROVE got # 0
      <4>1. download.cursor + download.want <= download.size BY <2>1, <3>1
      <4>2. got = download.want BY <2>3, <3>2, <3>3, <4>1
      <4> QED BY <2>1, <3>2, <3>3, <4>2
    <3> QED BY <1>0, <2>6, <2>9, <3>2, <3>3 DEF Untouched
  <2>13. DownloadState(q)
    <3>1. q.cursor \in Nat BY <2>1, <2>3, <2>9
    <3>2. q.sent \in Seq(Nat) /\ q.pc \in {"done", "stream"} BY <2>6, <2>7, <2>9
    <3>3. DownloadState(download) BY <1>0
    <3> QED BY <2>9, <3>1, <3>2, <3>3 DEF DownloadState
  <2> QED BY <1>2, <2>8, <2>11, <2>12, <2>13
<1> QED BY <1>4, <1>5, <1>6, <1>7, <1>8

\* Every step of a download and of the blob under it.
LEMMA DownloadStep == DownloadInv /\ [DownloadNext]_downloadVars => DownloadInv'
<1> SUFFICES ASSUME DownloadInv, [DownloadNext]_downloadVars PROVE DownloadInv'
  OBVIOUS
<1>1. CASE PruneBlob BY <1>1 DEF PruneBlob, DownloadInv, DownloadKinds, Untouched
<1>2. CASE PublishBlob
  <2>1. onDisk' \in Nat /\ swaps' = swaps + 1 /\ UNCHANGED <<length, download>>
    BY <1>2 DEF PublishBlob, DownloadInv, DownloadKinds
  <2>2. swaps' \in Nat /\ swaps' # 0 BY <2>1 DEF DownloadInv, DownloadKinds
  <2> QED BY <2>1, <2>2 DEF DownloadInv, DownloadKinds, Untouched
<1>3. CASE Reply \/ \E h \in Headers : AskContent(h) BY <1>3, RepliesKeepDownload
<1>4. CASE Finished \/ Stat \/ Read BY <1>4, StreamKeepsDownload
<1>5. CASE UNCHANGED downloadVars BY <1>5 DEF downloadVars, DownloadInv, DownloadKinds, Untouched
<1> QED BY <1>1, <1>2, <1>3, <1>4, <1>5 DEF DownloadNext

\* What the state of a request says of its bytes.
LEMMA DownloadIsServed == DownloadInv => SliceServed
<1> SUFFICES ASSUME DownloadInv PROVE SliceServed
  OBVIOUS
<1> DEFINE d == download
           w == Wanted(d.header, d.size)
<1>1. DownloadState(d) /\ RequestInv(d) /\ Untouched(d) BY DEF DownloadInv, DownloadKinds
<1> HIDE DEF d
<1>2. d.status = 416 => w = {} BY <1>1 DEF RequestInv
<1>3. CASE d.status \notin {200, 206}
  <2>1. d.sent = <<>> BY <1>1, <1>3 DEF RequestInv, DownloadState
  <2> QED BY <1>2, <1>3, <2>1 DEF SliceServed, d
<1>4. CASE d.status \in {200, 206}
  <2>1. Sending(d) /\ w = d.start..(d.end - 1) /\ d.start \in Nat /\ d.end \in Nat /\ d.start <= d.end
        /\ d.sent \in Seq(Nat) /\ d.cursor \in Nat
    BY <1>1, <1>4 DEF RequestInv, Sending, Stretch, DownloadState
  <2> HIDE DEF w
  <2>2. d.status = 206 => d.start < d.end BY <1>1, <1>4, <2>1 DEF RequestInv, Sending, Stretch
  <2>3. d.start < d.end => Min(w) = d.start
    <3> SUFFICES ASSUME d.start < d.end PROVE Min(w) = d.start
      OBVIOUS
    <3>1. d.start \in w /\ \A p \in w : p \in Int /\ d.start <= p BY <2>1
    <3>2. \E x \in w : \A y \in w : x <= y BY <3>1
    <3>3. Min(w) \in w /\ \A y \in w : Min(w) <= y BY <3>2 DEF Min
    <3> QED BY <3>1, <3>3
  <2>4. ASSUME NEW i \in DOMAIN d.sent PROVE d.sent[i] \in w /\ d.sent[i] = Min(w) + i - 1
    <3>1. i \in 1..Len(d.sent) /\ Len(d.sent) \in Nat BY <2>1
    <3>2. d.sent[i] = d.start + i - 1 /\ d.start + Len(d.sent) <= d.end BY <2>1, <3>1 DEF Sending
    <3>3. PICK n \in Nat : n = Len(d.sent) /\ i \in 1..n BY <3>1
    <3>4. PICK from \in Nat, to \in Nat : from = d.start /\ to = d.end BY <2>1
    <3>5. from + n <= to /\ from < to /\ from + i - 1 \in from..(to - 1)
      <4>1. from + n <= to BY <3>2, <3>3, <3>4
      <4>2. i \in Nat /\ i >= 1 /\ i <= n BY <3>3
      <4> QED BY <4>1, <4>2
    <3>6. d.sent[i] = from + i - 1 /\ w = from..(to - 1) BY <2>1, <3>2, <3>4
    <3> QED BY <2>3, <3>4, <3>5, <3>6
  <2>5. d.pc = "done" /\ swaps = 0 => Len(d.sent) = Cardinality(w)
    <3> SUFFICES ASSUME d.pc = "done", swaps = 0 PROVE Len(d.sent) = Cardinality(w)
      OBVIOUS
    <3>1. d.cursor = d.end BY <1>1, <1>4 DEF Untouched
    <3>2. Len(d.sent) = d.end - d.start BY <2>1, <3>1 DEF Sending
    <3>3. Cardinality(w) = IF d.start > d.end - 1 THEN 0 ELSE (d.end - 1) - d.start + 1
      <4>1. PICK m \in Int : m = d.end - 1 BY <2>1
      <4>2. d.start \in Int /\ w = d.start..m BY <2>1, <4>1
      <4>3. Cardinality(d.start..m) = IF d.start > m THEN 0 ELSE m - d.start + 1 BY <4>2, FS_Interval
      <4> QED BY <4>1, <4>2, <4>3
    <3> QED BY <2>1, <3>2, <3>3
  <2>6. d.status = 206 => w # {} /\ d.start..(d.end - 1) = w
    <3>1. d.start < d.end => d.start \in d.start..(d.end - 1) BY <2>1
    <3> QED BY <2>1, <2>2, <3>1
  <2> QED BY <1>2, <1>4, <2>4, <2>5, <2>6 DEF SliceServed, d, w
<1> QED BY <1>3, <1>4

\* A reader gets bytes of the range asked for, in order and each once, all of them
\* when the blob is left alone, for any lengths, chunks and headers.
THEOREM SlicesAreServed == DownloadInit /\ [][DownloadNext]_downloadVars => []SliceServed
BY DownloadStarts, DownloadStep, DownloadIsServed, PTL

-----------------------------------------------------------------------------
(* AgentExecution: the bounds of the work on a task.                       *)

ExecutionSteps ==
  {"idle", "model", "fallback", "record", "slot", "take", "command", "release", "ended", "dead"}

SlotRows == [state : {"absent", "open", "released"}, holder : Executions \cup {NoOne}]

\* Who is about to take a slot has read its row free.
ExecState(x) ==
  /\ DOMAIN x = {"pc", "tries", "slot", "read", "at", "approved", "class", "payload"}
  /\ x.slot \in Nat /\ x.read \in SlotRows
  /\ x.pc = "take" => x.slot \in SlotIds /\ x.read.holder = NoOne
  /\ x.pc \in ExecutionSteps
  /\ x.at \in Nat
  /\ x.approved \in BOOLEAN
  /\ x.payload \in Seq({"plain", "gated", "denied", "empty"})

ExecutionKinds ==
  /\ DOMAIN exec = Executions /\ \A e \in Executions : ExecState(exec[e])
  /\ ledger \in Nat /\ answered \in Nat /\ unwritten \in Nat /\ lapses \in Nat /\ overtaken \in Nat
  /\ slotRow \in [SlotIds -> SlotRows]

\* Who will be charged for a call, and who has been answered but has no row yet.
Calling == {e \in Executions : exec[e].pc \in {"model", "fallback", "record"}}
Recording == {e \in Executions : exec[e].pc = "record"}
HeldSlots == {s \in SlotIds : slotRow[s].holder # NoOne}

\* Each answer has a row, will have one, or has lost it; beyond the budget there
\* are at most the calls of all lanes but the one that was let in last.
CallsAreCounted ==
  /\ answered = ledger + unwritten + Cardinality(Recording)
  /\ ledger + Cardinality(Calling) <= CallBudget + Cardinality(Executions) - 1

\* Who runs holds a slot, unless a lease was lost or a row was overtaken.
RunnersHoldSlots == Cardinality(Running) <= Cardinality(HeldSlots) + (lapses + overtaken)

\* An approval is for the gated command it was asked for.
ApprovedIsGated ==
  \A e \in Executions : exec[e].approved =>
    /\ exec[e].pc \in {"command", "release"}
    /\ exec[e].pc = "command" => exec[e].at <= Len(exec[e].payload) /\ Command(e) = "gated"

WorkInv == ExecutionKinds /\ CallsAreCounted /\ RunnersHoldSlots /\ ApprovedIsGated /\ GatedWasApproved

HIDE DownloadAssumption
HIDE ReviewAssumption
HIDE SupervisionAssumption
USE ExecutionAssumption

\* One element more or one less changes the size of a finite set by at most one.
LEMMA SizeOfAdded ==
  ASSUME NEW S, NEW x, NEW T, IsFiniteSet(S), T = S \cup {x}, x \notin S
  PROVE  Cardinality(T) = Cardinality(S) + 1 /\ Cardinality(S) \in Nat
BY FS_AddElement, FS_CardinalityType

\* One element less changes it only if it was there.
LEMMA SizeOfRemoved ==
  ASSUME NEW S, NEW x, NEW T, IsFiniteSet(S), T = S \ {x}
  PROVE  /\ Cardinality(T) = IF x \in S THEN Cardinality(S) - 1 ELSE Cardinality(S)
         /\ Cardinality(S) \in Nat /\ Cardinality(T) \in Nat
BY FS_RemoveElement, FS_CardinalityType

\* The sets that are counted are finite.
LEMMA LanesAreFinite ==
  /\ IsFiniteSet(Calling) /\ IsFiniteSet(Recording) /\ IsFiniteSet(Running) /\ IsFiniteSet(HeldSlots)
  /\ IsFiniteSet(Executions)
  /\ Cardinality(Calling) \in Nat /\ Cardinality(Recording) \in Nat
  /\ Cardinality(Running) \in Nat /\ Cardinality(HeldSlots) \in Nat
  /\ Cardinality(HeldSlots) <= NSlots
  /\ Cardinality(Executions) \in Nat
<1>1. IsFiniteSet(SlotIds) /\ Cardinality(SlotIds) = NSlots
  <2>1. IsFiniteSet(1..NSlots) /\ Cardinality(1..NSlots) = IF 1 > NSlots THEN 0 ELSE NSlots - 1 + 1
    <3>1. NSlots \in Int /\ 1 \in Int OBVIOUS
    <3> QED BY <3>1, FS_Interval
  <2>2. (IF 1 > NSlots THEN 0 ELSE NSlots - 1 + 1) = NSlots OBVIOUS
  <2> QED BY <2>1, <2>2 DEF SlotIds
<1>2. HeldSlots \in SUBSET SlotIds BY DEF HeldSlots
<1>3. Calling \in SUBSET Executions /\ Recording \in SUBSET Executions /\ Running \in SUBSET Executions
  BY DEF Calling, Recording, Running
<1>4. IsFiniteSet(HeldSlots) /\ Cardinality(HeldSlots) <= Cardinality(SlotIds) BY <1>1, <1>2, FS_Subset
<1>5. IsFiniteSet(Calling) /\ IsFiniteSet(Recording) /\ IsFiniteSet(Running) BY <1>3, FS_Subset
<1> QED BY <1>1, <1>4, <1>5, FS_CardinalityType

\* At first no lane has begun.
LEMMA ExecutionStarts == ExecutionInit => WorkInv
<1> SUFFICES ASSUME ExecutionInit PROVE WorkInv
  OBVIOUS
<1>1. \A e \in Executions : exec[e] = FreshExec BY DEF ExecutionInit
<1>2. ExecutionKinds
  <2>1. ExecState(FreshExec)
    <3>1. <<>> \in Seq({"plain", "gated", "denied", "empty"}) OBVIOUS
    <3> QED BY <3>1 DEF ExecState, FreshExec, ExecutionSteps, NoRow, SlotRows
  <2>2. slotRow \in [SlotIds -> SlotRows] BY DEF ExecutionInit, NoRow, SlotRows
  <2> QED BY <1>1, <2>1, <2>2 DEF ExecutionInit, ExecutionKinds
<1>3. Calling = {} /\ Recording = {} /\ Running = {}
  BY <1>1 DEF FreshExec, Calling, Recording, Running
<1>4. CallsAreCounted
  <2>1. ledger = 0 /\ answered = 0 /\ unwritten = 0 BY DEF ExecutionInit
  <2> QED BY <1>3, <2>1, FS_EmptySet, LanesAreFinite DEF CallsAreCounted
<1>5. RunnersHoldSlots
  <2>1. lapses = 0 /\ overtaken = 0 BY DEF ExecutionInit
  <2> QED BY <1>3, <2>1, FS_EmptySet, LanesAreFinite DEF RunnersHoldSlots
<1>6. ApprovedIsGated /\ GatedWasApproved
  BY <1>1 DEF ApprovedIsGated, GatedWasApproved, ExecutionInit, FreshExec
<1> QED BY <1>2, <1>4, <1>5, <1>6 DEF WorkInv

\* When a set differs from another one in one element at most, so do their sizes.
LEMMA SizesDiffer ==
  ASSUME NEW S, NEW T, NEW e, IsFiniteSet(S), IsFiniteSet(T), \A x : x # e => (x \in S <=> x \in T)
  PROVE  /\ Cardinality(S) \in Nat /\ Cardinality(T) \in Nat
         /\ (e \in S <=> e \in T) => Cardinality(T) = Cardinality(S)
         /\ e \in T /\ e \notin S => Cardinality(T) = Cardinality(S) + 1
         /\ e \in S /\ e \notin T => Cardinality(T) = Cardinality(S) - 1
<1>1. CASE e \in S <=> e \in T
  <2>1. \A x : x \in S <=> x \in T
    <3> SUFFICES ASSUME NEW x PROVE x \in S <=> x \in T
      OBVIOUS
    <3>1. CASE x = e BY <1>1, <3>1
    <3>2. CASE x # e BY <3>2
    <3> QED BY <3>1, <3>2
  <2>2. S = T BY <2>1
  <2> QED BY <1>1, <2>2, FS_CardinalityType
<1>2. CASE e \in T /\ e \notin S
  <2>1. T = S \cup {e} BY <1>2
  <2> QED BY <1>2, <2>1, SizeOfAdded, FS_CardinalityType
<1>3. CASE e \in S /\ e \notin T
  <2>1. T = S \ {e} BY <1>3
  <2> QED BY <1>3, <2>1, SizeOfRemoved, FS_CardinalityType
<1> QED BY <1>1, <1>2, <1>3

\* One lane moves, the others stay where they are.
Lane(e) ==
  /\ DOMAIN exec' = Executions
  /\ \A o \in Executions \ {e} : exec'[o] = exec[o]
  /\ ExecState(exec'[e])

\* The sets that are counted change by the lane that moves.
LEMMA LaneCounts ==
  ASSUME NEW e \in Executions, ExecutionKinds, Lane(e)
  PROVE  /\ Cardinality(Calling) \in Nat /\ Cardinality(Calling') \in Nat
         /\ (e \in Calling <=> e \in Calling') => Cardinality(Calling') = Cardinality(Calling)
         /\ e \in Calling' /\ e \notin Calling => Cardinality(Calling') = Cardinality(Calling) + 1
         /\ e \in Calling /\ e \notin Calling' => Cardinality(Calling') = Cardinality(Calling) - 1
         /\ Cardinality(Recording) \in Nat /\ Cardinality(Recording') \in Nat
         /\ (e \in Recording <=> e \in Recording') => Cardinality(Recording') = Cardinality(Recording)
         /\ e \in Recording' /\ e \notin Recording => Cardinality(Recording') = Cardinality(Recording) + 1
         /\ e \in Recording /\ e \notin Recording' => Cardinality(Recording') = Cardinality(Recording) - 1
         /\ Cardinality(Running) \in Nat /\ Cardinality(Running') \in Nat
         /\ (e \in Running <=> e \in Running') => Cardinality(Running') = Cardinality(Running)
         /\ e \in Running' /\ e \notin Running => Cardinality(Running') = Cardinality(Running) + 1
         /\ e \in Running /\ e \notin Running' => Cardinality(Running') = Cardinality(Running) - 1
<1>1. /\ \A x : x # e => (x \in Calling <=> x \in Calling')
      /\ \A x : x # e => (x \in Recording <=> x \in Recording')
      /\ \A x : x # e => (x \in Running <=> x \in Running')
  BY DEF Calling, Recording, Running, Lane
<1>2. /\ IsFiniteSet(Calling) /\ IsFiniteSet(Calling') /\ IsFiniteSet(Recording) /\ IsFiniteSet(Recording')
      /\ IsFiniteSet(Running) /\ IsFiniteSet(Running')
  <2>1. /\ Calling \in SUBSET Executions /\ Calling' \in SUBSET Executions
        /\ Recording \in SUBSET Executions /\ Recording' \in SUBSET Executions
        /\ Running \in SUBSET Executions /\ Running' \in SUBSET Executions
    BY DEF Calling, Recording, Running
  <2> QED BY <2>1, FS_Subset
<1>3. /\ Cardinality(Calling) \in Nat /\ Cardinality(Calling') \in Nat
      /\ (e \in Calling <=> e \in Calling') => Cardinality(Calling') = Cardinality(Calling)
      /\ e \in Calling' /\ e \notin Calling => Cardinality(Calling') = Cardinality(Calling) + 1
      /\ e \in Calling /\ e \notin Calling' => Cardinality(Calling') = Cardinality(Calling) - 1
  BY <1>1, <1>2, SizesDiffer
<1>4. /\ Cardinality(Recording) \in Nat /\ Cardinality(Recording') \in Nat
      /\ (e \in Recording <=> e \in Recording') => Cardinality(Recording') = Cardinality(Recording)
      /\ e \in Recording' /\ e \notin Recording => Cardinality(Recording') = Cardinality(Recording) + 1
      /\ e \in Recording /\ e \notin Recording' => Cardinality(Recording') = Cardinality(Recording) - 1
  BY <1>1, <1>2, SizesDiffer
<1>5. /\ Cardinality(Running) \in Nat /\ Cardinality(Running') \in Nat
      /\ (e \in Running <=> e \in Running') => Cardinality(Running') = Cardinality(Running)
      /\ e \in Running' /\ e \notin Running => Cardinality(Running') = Cardinality(Running) + 1
      /\ e \in Running /\ e \notin Running' => Cardinality(Running') = Cardinality(Running) - 1
  BY <1>1, <1>2, SizesDiffer
<1> QED BY <1>3, <1>4, <1>5

\* A lane that goes on to another step, or ends, without touching its commands.
LEMMA LaneGoes ==
  ASSUME NEW e \in Executions, ExecutionKinds, NEW pc \in ExecutionSteps \ {"take"}, To(e, pc)
  PROVE  Lane(e) /\ exec'[e].pc = pc /\ exec'[e].approved = exec[e].approved
BY DEF ExecutionKinds, To, Lane, ExecState

\* A lane that ends with a failure leaves its commands and the other lanes alone.
LEMMA LaneFails ==
  ASSUME NEW e \in Executions, ExecutionKinds, NEW class, FailWith(e, class)
  PROVE  Lane(e) /\ exec'[e].pc = "ended" /\ exec'[e].approved = exec[e].approved
<1>1. ExecState(exec[e]) /\ DOMAIN exec = Executions BY DEF ExecutionKinds
<1>2. exec'[e] = [exec[e] EXCEPT !.pc = "ended", !.class = class] BY <1>1 DEF FailWith
<1>3. \A o \in Executions \ {e} : exec'[o] = exec[o] BY <1>1 DEF FailWith
<1>4. DOMAIN exec' = Executions BY <1>1 DEF FailWith
<1> QED BY <1>1, <1>2, <1>3, <1>4 DEF ExecutionKinds, Lane, ExecState, ExecutionSteps

\* An approval that is kept, or none at all, is still for a gated command.
ApprovalHolds(x) ==
  x.approved =>
    /\ x.pc \in {"command", "release"}
    /\ x.pc = "command" => x.at <= Len(x.payload) /\ x.payload[x.at] = "gated"

\* A lane at the model: its call is counted before, while and after it is made.
LEMMA CallsStep ==
  ASSUME WorkInv, NEW e \in Executions,
         \/ CheckBudget(e) \/ ModelAnswers(e) \/ ModelFails(e) \/ FallbackFails(e) \/ RecordInvocation(e)
  PROVE  /\ Lane(e) /\ CallsAreCounted'
         /\ ledger' \in Nat /\ answered' \in Nat /\ unwritten' \in Nat
         /\ UNCHANGED <<slotRow, lapses, overtaken, ran>>
         /\ e \notin Running /\ e \notin Running' /\ ApprovalHolds(exec'[e])
<1> USE DEF WorkInv
<1>0. ExecState(exec[e]) /\ ExecutionKinds /\ DOMAIN exec = Executions /\ ApprovalHolds(exec[e])
  BY DEF ExecutionKinds, ApprovedIsGated, ApprovalHolds, Command, Payload
<1>1. PICK l \in Nat, a \in Nat, u \in Nat, c \in Nat, r \in Nat, n \in Nat :
        /\ l = ledger /\ a = answered /\ u = unwritten
        /\ c = Cardinality(Calling) /\ r = Cardinality(Recording) /\ n = Cardinality(Executions)
  BY LanesAreFinite DEF ExecutionKinds
<1>2. a = l + u + r /\ l + c <= CallBudget + n - 1 BY <1>1 DEF CallsAreCounted
<1>3. CASE CheckBudget(e)
  <2>1. Lane(e) /\ exec[e].pc = "idle" /\ exec'[e].pc \in {"ended", "model"} /\ exec'[e].approved = exec[e].approved
        /\ UNCHANGED <<ledger, answered, unwritten, slotRow, lapses, overtaken, ran>>
    <3>1. exec[e].pc = "idle" /\ UNCHANGED <<ledger, answered, unwritten, slotRow, lapses, overtaken, ran>>
      BY <1>3 DEF CheckBudget, Is
    <3>2. CASE FailWith(e, "BUDGET_EXCEEDED") BY <1>0, <3>1, <3>2, LaneFails
    <3>3. CASE To(e, "model")
      <4>1. "model" \in ExecutionSteps \ {"take"} BY DEF ExecutionSteps
      <4> QED BY <1>0, <3>1, <3>3, <4>1, LaneGoes
    <3> QED BY <1>3, <3>2, <3>3 DEF CheckBudget
  <2>2. e \notin Calling /\ e \notin Recording /\ e \notin Recording' /\ e \notin Running /\ e \notin Running'
    BY <2>1 DEF Calling, Recording, Running
  <2>3. Cardinality(Calling) <= Cardinality(Executions) - 1
    <3>1. Calling \in SUBSET (Executions \ {e}) BY <2>2 DEF Calling
    <3>2. IsFiniteSet(Executions \ {e}) /\ Cardinality(Executions \ {e}) = Cardinality(Executions) - 1
      BY LanesAreFinite, FS_RemoveElement
    <3> QED BY <3>1, <3>2, FS_Subset
  <2>4. exec'[e].pc = "model" => ledger < CallBudget
    <3>1. Exhausted => exec'[e].pc = "ended" BY <1>0, <1>3, LaneFails DEF CheckBudget
    <3>2. ~ Exhausted => ledger < CallBudget BY <1>0 DEF Exhausted, ExecutionKinds
    <3> QED BY <3>1, <3>2
  <2>5. CASE exec'[e].pc = "model"
    <3>1. e \in Calling' BY <2>5 DEF Calling
    <3>2. Cardinality(Calling') = c + 1 /\ Cardinality(Recording') = r
      BY <1>0, <1>1, <2>1, <2>2, <3>1, LaneCounts
    <3>3. l < CallBudget /\ c <= n - 1 BY <1>1, <2>3, <2>4, <2>5
    <3>4. l + (c + 1) <= CallBudget + n - 1 BY <3>3
    <3> QED BY <1>0, <1>1, <1>2, <2>1, <2>2, <3>2, <3>4 DEF CallsAreCounted, ExecutionKinds, ApprovalHolds
  <2>6. CASE exec'[e].pc = "ended"
    <3>1. e \notin Calling' BY <2>6 DEF Calling
    <3>2. Cardinality(Calling') = c /\ Cardinality(Recording') = r
      BY <1>0, <1>1, <2>1, <2>2, <3>1, LaneCounts
    <3> QED BY <1>0, <1>1, <1>2, <2>1, <2>2, <3>2 DEF CallsAreCounted, ExecutionKinds, ApprovalHolds
  <2> QED BY <2>1, <2>5, <2>6
<1>4. CASE ModelAnswers(e)
  <2>1. Lane(e) /\ exec[e].pc \in {"model", "fallback"} /\ exec'[e].pc = "record" /\ exec'[e].approved = exec[e].approved
        /\ answered' = answered + 1 /\ UNCHANGED <<ledger, unwritten, slotRow, lapses, overtaken, ran>>
    <3>1. "record" \in ExecutionSteps \ {"take"} BY DEF ExecutionSteps
    <3> QED BY <1>0, <1>4, <3>1, LaneGoes DEF ModelAnswers
  <2>2. e \in Calling /\ e \in Calling' /\ e \notin Recording /\ e \in Recording' /\ e \notin Running /\ e \notin Running'
    BY <2>1 DEF Calling, Recording, Running
  <2>3. Cardinality(Calling') = c /\ Cardinality(Recording') = r + 1
    BY <1>0, <1>1, <2>1, <2>2, LaneCounts
  <2>4. ledger' = l /\ answered' = a + 1 /\ unwritten' = u BY <1>1, <2>1
  <2>5. a + 1 = l + u + (r + 1) BY <1>2
  <2>6. CallsAreCounted' BY <1>1, <1>2, <2>3, <2>4, <2>5 DEF CallsAreCounted
  <2>7. l \in Nat /\ a + 1 \in Nat /\ u \in Nat OBVIOUS
  <2> QED BY <1>0, <2>1, <2>2, <2>4, <2>6, <2>7 DEF ApprovalHolds, ExecState
<1>5. CASE ModelFails(e) \/ FallbackFails(e)
  <2>1. Lane(e) /\ exec[e].pc \in {"model", "fallback"} /\ exec'[e].pc \in {"model", "fallback", "ended"}
        /\ exec'[e].approved = exec[e].approved
        /\ UNCHANGED <<ledger, answered, unwritten, slotRow, lapses, overtaken, ran>>
    <3>1. exec[e].pc \in {"model", "fallback"} /\ UNCHANGED <<ledger, answered, unwritten, slotRow, lapses, overtaken, ran>>
      BY <1>5 DEF ModelFails, FallbackFails, Is
    <3>2. CASE FailWith(e, "exception") BY <1>0, <3>1, <3>2, LaneFails
    <3>3. CASE To(e, "fallback")
      <4>1. "fallback" \in ExecutionSteps \ {"take"} BY DEF ExecutionSteps
      <4> QED BY <1>0, <3>1, <3>3, <4>1, LaneGoes
    <3>4. CASE exec' = [exec EXCEPT ![e].tries = @ + 1]
      BY <1>0, <3>1, <3>4 DEF Lane, ExecState
    <3> QED BY <1>5, <3>2, <3>3, <3>4 DEF ModelFails, FallbackFails
  <2>2. e \in Calling /\ e \notin Recording /\ e \notin Recording' /\ e \notin Running /\ e \notin Running'
    BY <2>1 DEF Calling, Recording, Running
  <2>3. Cardinality(Calling') \in Nat /\ Cardinality(Calling') <= c /\ Cardinality(Recording') = r
    BY <1>0, <1>1, <2>1, <2>2, LaneCounts
  <2>4. ledger' = l /\ answered' = a /\ unwritten' = u BY <1>1, <2>1
  <2>5. PICK cx \in Nat : cx = Cardinality(Calling') /\ cx <= c BY <2>3
  <2>6. l + cx <= CallBudget + n - 1 BY <1>2, <2>5
  <2>7. CallsAreCounted' BY <1>1, <1>2, <2>3, <2>4, <2>5, <2>6 DEF CallsAreCounted
  <2> QED BY <1>1, <2>1, <2>2, <2>4, <2>7, <1>0 DEF ApprovalHolds, ExecState
<1>6. CASE RecordInvocation(e)
  <2>1. Lane(e) /\ exec[e].pc = "record" /\ exec'[e].pc = "slot" /\ exec'[e].approved = exec[e].approved
        /\ \/ ledger' = ledger + 1 /\ unwritten' = unwritten
           \/ ledger' = ledger /\ unwritten' = unwritten + 1
        /\ UNCHANGED <<answered, slotRow, lapses, overtaken, ran>>
    <3>1. "slot" \in ExecutionSteps \ {"take"} BY DEF ExecutionSteps
    <3>2. Lane(e) /\ exec'[e].pc = "slot" /\ exec'[e].approved = exec[e].approved
      BY <1>0, <1>6, <3>1, LaneGoes DEF RecordInvocation
    <3> QED BY <1>6, <3>2 DEF RecordInvocation, RowWritten, Upset, Is
  <2>2. e \in Calling /\ e \notin Calling' /\ e \in Recording /\ e \notin Recording' /\ e \notin Running /\ e \notin Running'
    BY <2>1 DEF Calling, Recording, Running
  <2>3. Cardinality(Calling') = c - 1 /\ Cardinality(Recording') = r - 1
    BY <1>0, <1>1, <2>1, <2>2, LaneCounts
  <2>4. answered' = a BY <1>1, <2>1
  <2>5. Lane(e) /\ UNCHANGED <<slotRow, lapses, overtaken, ran>> /\ ApprovalHolds(exec'[e])
    BY <1>0, <2>1 DEF ApprovalHolds, ExecState
  <2>6. CASE ledger' = ledger + 1 /\ unwritten' = unwritten
    <3>1. ledger' = l + 1 /\ unwritten' = u BY <1>1, <2>6
    <3>2. a = (l + 1) + u + (r - 1) /\ (l + 1) + (c - 1) <= CallBudget + n - 1 BY <1>2
    <3>3. CallsAreCounted' BY <1>1, <2>3, <2>4, <3>1, <3>2 DEF CallsAreCounted
    <3> QED BY <2>2, <2>4, <2>5, <3>1, <3>3
  <2>7. CASE ledger' = ledger /\ unwritten' = unwritten + 1
    <3>1. ledger' = l /\ unwritten' = u + 1 BY <1>1, <2>7
    <3>2. a = l + (u + 1) + (r - 1) /\ l + (c - 1) <= CallBudget + n - 1 BY <1>2
    <3>3. CallsAreCounted' BY <1>1, <2>3, <2>4, <3>1, <3>2 DEF CallsAreCounted
    <3> QED BY <2>2, <2>4, <2>5, <3>1, <3>3
  <2> QED BY <2>1, <2>6, <2>7
<1> QED BY <1>3, <1>4, <1>5, <1>6

\* A set of natural numbers that has a member has a least one.
LEMMA LeastNatural ==
  ASSUME NEW S \in SUBSET Nat, S # {}
  PROVE  \E x \in S : \A y \in S : x <= y
<1>1. \E R : IsWellFoundedOn(R, Nat) /\ \A x, y \in Nat : <<y, x>> \in R <=> y < x
  <2>1. \A x, y \in Nat : <<y, x>> \in {ss \in Nat \X Nat : ss[1] < ss[2]} <=> y < x OBVIOUS
  <2>2. IsWellFoundedOn({ss \in Nat \X Nat : ss[1] < ss[2]}, Nat) BY NatLessThanWellFounded DEF OpToRel
  <2> QED BY <2>1, <2>2
<1>2. PICK R : IsWellFoundedOn(R, Nat) /\ \A x, y \in Nat : <<y, x>> \in R <=> y < x BY <1>1
<1>3. PICK x \in S : \A y \in S : <<y, x>> \notin R
  <2>1. S \subseteq Nat /\ IsWellFoundedOn(R, Nat) BY <1>2
  <2> QED BY <2>1, WFMin
<1>4. \A y \in S : ~ (y < x) BY <1>2, <1>3
<1>5. \A y \in S : x <= y BY <1>4
<1> QED BY <1>5

\* A lane that changes the slots: it begins to run with a slot of its own, or with
\* one that is counted as overtaken, and takes at most one with it when it leaves.
LEMMA SlotsStep ==
  ASSUME WorkInv, NEW e \in Executions, ReadSlot(e) \/ TakeSlot(e) \/ Leave(e)
  PROVE  /\ Lane(e) /\ RunnersHoldSlots'
         /\ slotRow' \in [SlotIds -> SlotRows] /\ overtaken' \in Nat
         /\ UNCHANGED <<ledger, answered, unwritten, lapses, ran>>
         /\ e \notin Calling /\ e \notin Calling' /\ e \notin Recording /\ e \notin Recording'
         /\ ApprovalHolds(exec'[e])
<1> USE DEF WorkInv
<1>0. ExecState(exec[e]) /\ ExecutionKinds /\ DOMAIN exec = Executions /\ ApprovalHolds(exec[e])
      /\ slotRow \in [SlotIds -> SlotRows] /\ overtaken \in Nat
  BY DEF ExecutionKinds, ApprovedIsGated, ApprovalHolds, Command, Payload
<1>1. PICK g \in Nat, h \in Nat, p \in Nat, o \in Nat :
        g = Cardinality(Running) /\ h = Cardinality(HeldSlots) /\ p = lapses /\ o = overtaken
  BY LanesAreFinite DEF ExecutionKinds
<1>2. g <= h + (p + o) BY <1>1 DEF RunnersHoldSlots
<1>3. IsFiniteSet(HeldSlots) /\ IsFiniteSet(HeldSlots')
  <2>1. IsFiniteSet(SlotIds) BY FS_Interval DEF SlotIds
  <2>2. HeldSlots \in SUBSET SlotIds /\ HeldSlots' \in SUBSET SlotIds BY DEF HeldSlots
  <2> QED BY <2>1, <2>2, FS_Subset
<1>a. ASSUME Lane(e), exec[e].pc \in {"slot", "take"}, exec'[e].pc \in {"slot", "take", "ended"},
             exec'[e].approved = exec[e].approved,
             UNCHANGED <<ledger, answered, unwritten, slotRow, lapses, overtaken, ran>>
      PROVE  /\ Lane(e) /\ RunnersHoldSlots'
             /\ slotRow' \in [SlotIds -> SlotRows] /\ overtaken' \in Nat
             /\ UNCHANGED <<ledger, answered, unwritten, lapses, ran>>
             /\ e \notin Calling /\ e \notin Calling' /\ e \notin Recording /\ e \notin Recording'
             /\ ApprovalHolds(exec'[e])
  <2>1. /\ e \notin Calling /\ e \notin Calling' /\ e \notin Recording /\ e \notin Recording'
        /\ e \notin Running /\ e \notin Running'
    BY <1>a DEF Calling, Recording, Running
  <2>2. Cardinality(Running') = g BY <1>0, <1>1, <1>a, <2>1, LaneCounts
  <2>3. HeldSlots' = HeldSlots BY <1>a DEF HeldSlots
  <2>4. RunnersHoldSlots' BY <1>1, <1>2, <1>a, <2>2, <2>3 DEF RunnersHoldSlots
  <2> QED BY <1>0, <1>a, <2>1, <2>4 DEF ApprovalHolds
<1>4. CASE ReadSlot(e)
  <2>1. exec[e].pc = "slot" /\ UNCHANGED <<ledger, answered, unwritten, slotRow, lapses, overtaken, ran>>
    BY <1>4 DEF ReadSlot, Is
  <2>2. PICK s \in Nat : s = exec[e].slot + 1 /\ s # 0 BY <1>0 DEF ExecState
  <2>3. CASE FailWith(e, "QUOTA_EXCEEDED")
    <3>1. Lane(e) /\ exec'[e].pc = "ended" /\ exec'[e].approved = exec[e].approved BY <1>0, <2>3, LaneFails
    <3> QED BY <1>a, <2>1, <3>1
  <2>4. CASE exec' = [exec EXCEPT ![e].slot = s]
    <3>1. exec'[e] = [exec[e] EXCEPT !.slot = s] BY <1>0, <2>4
    <3>2. Lane(e) /\ exec'[e].pc = "slot" /\ exec'[e].approved = exec[e].approved
      BY <1>0, <2>1, <2>4, <3>1 DEF Lane, ExecState
    <3> QED BY <1>a, <2>1, <3>2
  <2>5. CASE /\ s <= NSlots /\ slotRow[s].holder = NoOne
             /\ exec' = [exec EXCEPT ![e].pc = "take", ![e].slot = s, ![e].read = slotRow[s]]
    <3>1. s \in SlotIds BY <2>2, <2>5 DEF SlotIds
    <3>2. PICK r \in SlotRows : r = slotRow[s] /\ r.holder = NoOne BY <1>0, <2>5, <3>1
    <3>3. exec'[e] = [exec[e] EXCEPT !.pc = "take", !.slot = s, !.read = r] BY <1>0, <2>5, <3>2
    <3>4. Lane(e) /\ exec'[e].pc = "take" /\ exec'[e].approved = exec[e].approved
      BY <1>0, <2>5, <3>1, <3>2, <3>3 DEF Lane, ExecState, ExecutionSteps
    <3> QED BY <1>a, <2>1, <3>4
  <2> QED BY <1>4, <2>2, <2>3, <2>4, <2>5 DEF ReadSlot
<1>5. CASE TakeSlot(e)
  <2>1. exec[e].pc = "take" /\ UNCHANGED <<ledger, answered, unwritten, lapses, ran>>
    BY <1>5 DEF TakeSlot, Is
  <2>2. PICK s \in SlotIds, r \in SlotRows, w \in SlotRows :
          s = exec[e].slot /\ r = exec[e].read /\ w = slotRow[s] /\ r.holder = NoOne
    BY <1>0, <2>1 DEF ExecState
  <2>3. s \in Nat /\ s - 1 \in Nat BY DEF SlotIds
  <2>4. CASE exec' = [exec EXCEPT ![e].pc = "slot", ![e].slot = s - 1] /\ UNCHANGED <<slotRow, overtaken>>
    <3>1. exec'[e] = [exec[e] EXCEPT !.pc = "slot", !.slot = s - 1] BY <1>0, <2>4
    <3>2. Lane(e) /\ exec'[e].pc = "slot" /\ exec'[e].approved = exec[e].approved
      BY <1>0, <2>3, <2>4, <3>1 DEF Lane, ExecState, ExecutionSteps
    <3> QED BY <1>a, <2>1, <2>4, <3>2
  <2>5. CASE /\ slotRow' = [slotRow EXCEPT ![s] = RowTaken(e, r, w)]
             /\ overtaken' = (IF w = r THEN overtaken ELSE overtaken + 1)
             /\ \E q \in Payloads : exec' = [exec EXCEPT ![e].pc = "command", ![e].payload = q]
    <3>1. PICK q \in Payloads : exec' = [exec EXCEPT ![e].pc = "command", ![e].payload = q] BY <2>5
    <3>2. q \in Seq({"plain", "gated", "denied", "empty"}) OBVIOUS
    <3>3. exec'[e] = [exec[e] EXCEPT !.pc = "command", !.payload = q] BY <1>0, <3>1
    <3>4. Lane(e) /\ exec'[e].pc = "command" /\ exec'[e].approved = exec[e].approved
      BY <1>0, <3>1, <3>2, <3>3 DEF Lane, ExecState, ExecutionSteps
    <3>5. /\ e \notin Calling /\ e \notin Calling' /\ e \notin Recording /\ e \notin Recording'
          /\ e \notin Running /\ e \in Running'
      BY <2>1, <3>4 DEF Calling, Recording, Running
    <3>6. Cardinality(Running') = g + 1 BY <1>0, <1>1, <3>4, <3>5, LaneCounts
    <3>7. PICK x \in SlotRows : x = RowTaken(e, r, w) /\ (w = r => x.holder # NoOne) /\ (w.holder # NoOne => x.holder # NoOne \/ x = w)
      <4>1. [state |-> "open", holder |-> e] \in SlotRows BY DEF SlotRows
      <4>2. e # NoOne BY DEF NoOne
      <4> QED BY <4>1, <4>2 DEF RowTaken
    <3>8. slotRow' = [slotRow EXCEPT ![s] = x] BY <2>5, <3>7
    <3>9. slotRow' \in [SlotIds -> SlotRows] BY <1>0, <3>8
    <3>10. \A y : y # s => (y \in HeldSlots <=> y \in HeldSlots') BY <1>0, <3>8 DEF HeldSlots
    <3>11. s \in HeldSlots => s \in HeldSlots' BY <1>0, <2>2, <3>7, <3>8 DEF HeldSlots
    <3>12. w = r => s \notin HeldSlots /\ s \in HeldSlots' BY <1>0, <2>2, <3>7, <3>8 DEF HeldSlots
    <3>13. CASE w = r
      <4>1. Cardinality(HeldSlots') = h + 1 BY <1>1, <1>3, <3>10, <3>12, <3>13, SizesDiffer
      <4>2. g + 1 <= (h + 1) + (p + o) BY <1>2
      <4>3. overtaken' = o BY <1>1, <2>5, <3>13
      <4>4. RunnersHoldSlots' BY <1>1, <2>1, <3>6, <4>1, <4>2, <4>3 DEF RunnersHoldSlots
      <4> QED BY <1>0, <2>1, <3>4, <3>5, <3>9, <4>3, <4>4 DEF ApprovalHolds
    <3>14. CASE w # r
      <4>1. Cardinality(HeldSlots') = h \/ Cardinality(HeldSlots') = h + 1 BY <1>1, <1>3, <3>10, <3>11, SizesDiffer
      <4>2. g + 1 <= h + (p + (o + 1)) /\ g + 1 <= (h + 1) + (p + (o + 1)) BY <1>2
      <4>3. overtaken' = o + 1 BY <1>1, <2>5, <3>14
      <4>4. RunnersHoldSlots' BY <1>1, <2>1, <3>6, <4>1, <4>2, <4>3 DEF RunnersHoldSlots
      <4>5. o + 1 \in Nat OBVIOUS
      <4> QED BY <1>0, <2>1, <3>4, <3>5, <3>9, <4>3, <4>4, <4>5 DEF ApprovalHolds
    <3> QED BY <3>13, <3>14
  <2> QED BY <1>5, <2>2, <2>4, <2>5 DEF TakeSlot
<1>6. CASE Leave(e)
  <2> DEFINE s == exec[e].slot
  <2>1. exec' = [exec EXCEPT ![e] = [FreshExec EXCEPT !.pc = "ended", !.class = exec[e].class]]
        /\ exec[e].pc = "release"
        /\ slotRow' = [slotRow EXCEPT ![s] = IF @.holder = NoOne THEN @ ELSE [state |-> "released", holder |-> NoOne]]
        /\ UNCHANGED <<ledger, answered, unwritten, lapses, overtaken, ran>>
    BY <1>6 DEF Leave, Is, ReleaseSlot
  <2> HIDE DEF s
  <2>2. exec'[e] = [FreshExec EXCEPT !.pc = "ended", !.class = exec[e].class] BY <1>0, <2>1
  <2>3. <<>> \in Seq({"plain", "gated", "denied", "empty"}) OBVIOUS
  <2>4. Lane(e) /\ exec'[e].pc = "ended" /\ exec'[e].approved = FALSE
    BY <1>0, <2>1, <2>2, <2>3 DEF Lane, ExecState, ExecutionSteps, FreshExec, NoRow, SlotRows
  <2>5. /\ e \notin Calling /\ e \notin Calling' /\ e \notin Recording /\ e \notin Recording'
        /\ e \in Running /\ e \notin Running'
    BY <2>1, <2>4 DEF Calling, Recording, Running
  <2>6. Cardinality(Running') = g - 1 BY <1>0, <1>1, <2>4, <2>5, LaneCounts
  <2>7. /\ s \notin HeldSlots' /\ \A x : x # s => (x \in HeldSlots <=> x \in HeldSlots')
        /\ slotRow' \in [SlotIds -> SlotRows] /\ overtaken' \in Nat
    <3>1. [state |-> "released", holder |-> NoOne] \in SlotRows BY DEF SlotRows
    <3> QED BY <1>0, <2>1, <3>1 DEF HeldSlots
  <2>8. Cardinality(HeldSlots') = h \/ Cardinality(HeldSlots') = h - 1 BY <1>1, <1>3, <2>7, SizesDiffer
  <2>9. g - 1 <= h + (p + o) /\ g - 1 <= (h - 1) + (p + o) BY <1>2
  <2>10. RunnersHoldSlots' BY <1>1, <2>1, <2>6, <2>8, <2>9 DEF RunnersHoldSlots
  <2> QED BY <2>1, <2>4, <2>5, <2>7, <2>10 DEF ApprovalHolds
<1> QED BY <1>4, <1>5, <1>6

\* A lane at its commands: what it runs it may run, and it keeps its slot.
LEMMA CommandsStep ==
  ASSUME WorkInv, NEW e \in Executions,
         Invoke(e) \/ InvokeEmpty(e) \/ Deny(e) \/ Gate(e) \/ AllDone(e)
  PROVE  /\ Lane(e) /\ ApprovalHolds(exec'[e])
         /\ UNCHANGED <<ledger, answered, unwritten, slotRow, lapses, overtaken>>
         /\ e \notin Calling /\ e \notin Calling' /\ e \notin Recording /\ e \notin Recording'
         /\ e \in Running /\ e \in Running'
         /\ GatedWasApproved'
<1> USE DEF WorkInv
<1>0. ExecState(exec[e]) /\ ExecutionKinds /\ DOMAIN exec = Executions /\ ApprovalHolds(exec[e])
  BY DEF ExecutionKinds, ApprovedIsGated, ApprovalHolds, Command, Payload
<1>1. exec[e].pc = "command" /\ UNCHANGED <<ledger, answered, unwritten, slotRow, lapses, overtaken>>
  BY DEF Invoke, InvokeEmpty, Deny, Gate, AllDone, Commands, Is
<1>2. GatedWasApproved'
  <2>1. CASE Invoke(e)
    <3>1. ran' = ran \cup {[command |-> Command(e), approved |-> exec[e].approved]}
          /\ (Command(e) = "gated" => exec[e].approved)
      BY <2>1 DEF Invoke, NeedsApproval
    <3>2. exec[e].approved => Command(e) = "gated" BY <1>0, <1>1 DEF ApprovalHolds, Command, Payload
    <3>3. exec[e].approved \in BOOLEAN BY <1>0 DEF ExecState
    <3> QED BY <3>1, <3>2, <3>3 DEF GatedWasApproved
  <2>2. CASE ~ Invoke(e)
    <3>1. ran' = ran BY <2>2 DEF InvokeEmpty, Deny, Gate, AllDone
    <3> QED BY <3>1 DEF GatedWasApproved
  <2> QED BY <2>1, <2>2
<1>3. \/ \E class : Stop(e, class)
      \/ GoToNext(e)
      \/ exec' = [exec EXCEPT ![e].approved = TRUE] /\ Command(e) = "gated" /\ exec[e].at <= Len(Payload(e))
  BY DEF Invoke, InvokeEmpty, Deny, Gate, AllDone, Commands, NeedsApproval
<1>4. Lane(e) /\ exec'[e].pc \in {"command", "release"} /\ ApprovalHolds(exec'[e])
  <2>1. ASSUME NEW class, Stop(e, class) PROVE Lane(e) /\ exec'[e].pc = "release" /\ ApprovalHolds(exec'[e])
    BY <1>0, <2>1 DEF Stop, Lane, ExecState, ExecutionSteps, ApprovalHolds
  <2>2. CASE GoToNext(e)
    <3>1. Lane(e) /\ exec'[e].pc = "command" /\ exec'[e].approved = FALSE
      BY <1>0, <1>1, <2>2 DEF GoToNext, Lane, ExecState, ExecutionSteps
    <3> QED BY <3>1 DEF ApprovalHolds
  <2>3. CASE exec' = [exec EXCEPT ![e].approved = TRUE] /\ Command(e) = "gated" /\ exec[e].at <= Len(Payload(e))
    <3>1. Lane(e) /\ exec'[e].pc = "command" /\ exec'[e].at = exec[e].at /\ exec'[e].payload = exec[e].payload
      BY <1>0, <1>1, <2>3 DEF Lane, ExecState, ExecutionSteps
    <3> QED BY <2>3, <3>1 DEF ApprovalHolds, Command, Payload
  <2> QED BY <1>3, <2>1, <2>2, <2>3
<1> QED BY <1>1, <1>2, <1>4 DEF Calling, Recording, Running

\* Every step of the executions keeps the invariant.
LEMMA WorkStep == WorkInv /\ [ExecutionNext]_executionVars => WorkInv'
<1> SUFFICES ASSUME WorkInv, [ExecutionNext]_executionVars PROVE WorkInv'
  OBVIOUS
<1>0. /\ ExecutionKinds /\ CallsAreCounted /\ RunnersHoldSlots /\ ApprovedIsGated /\ GatedWasApproved
      /\ DOMAIN exec = Executions /\ \A e \in Executions : ExecState(exec[e]) /\ ApprovalHolds(exec[e])
  BY DEF WorkInv, ExecutionKinds, ApprovedIsGated, ApprovalHolds, Command, Payload
<1>a. ASSUME NEW e \in Executions, Lane(e), ApprovalHolds(exec'[e]) PROVE ApprovedIsGated'
  <2>1. \A o \in Executions : ApprovalHolds(exec'[o]) BY <1>0, <1>a DEF Lane
  <2> QED BY <2>1 DEF ApprovedIsGated, ApprovalHolds, Command, Payload
<1>b. ASSUME NEW e \in Executions, Lane(e) PROVE DOMAIN exec' = Executions /\ \A o \in Executions : ExecState(exec'[o])
  BY <1>0, <1>b DEF Lane
<1>c. ASSUME NEW e \in Executions, Lane(e), UNCHANGED <<ledger, answered, unwritten>>,
             e \notin Calling /\ e \notin Calling' /\ e \notin Recording /\ e \notin Recording'
      PROVE  CallsAreCounted'
  <2>1. Cardinality(Calling') = Cardinality(Calling) /\ Cardinality(Recording') = Cardinality(Recording)
    BY <1>0, <1>c, LaneCounts
  <2> QED BY <1>0, <1>c, <2>1 DEF CallsAreCounted
<1>d. ASSUME NEW e \in Executions, Lane(e), UNCHANGED <<slotRow, lapses, overtaken>>, e \in Running' => e \in Running
      PROVE  RunnersHoldSlots'
  <2>1. PICK g \in Nat, h \in Nat, p \in Nat, x \in Nat :
          g = Cardinality(Running) /\ h = Cardinality(HeldSlots) /\ p = lapses + overtaken /\ x = Cardinality(Running')
    <3>1. lapses + overtaken \in Nat BY <1>0 DEF ExecutionKinds
    <3> QED BY <1>0, <1>d, <3>1, LanesAreFinite, LaneCounts
  <2>2. g <= h + p BY <1>0, <2>1 DEF RunnersHoldSlots
  <2>3. x = g \/ x = g - 1 BY <1>0, <1>d, <2>1, LaneCounts
  <2>4. x <= h + p BY <2>2, <2>3
  <2>5. HeldSlots' = HeldSlots BY <1>d DEF HeldSlots
  <2> QED BY <1>d, <2>1, <2>4, <2>5 DEF RunnersHoldSlots
<1>1. ASSUME NEW e \in Executions,
             CheckBudget(e) \/ ModelAnswers(e) \/ ModelFails(e) \/ FallbackFails(e) \/ RecordInvocation(e)
      PROVE  WorkInv'
  <2>1. /\ Lane(e) /\ CallsAreCounted'
        /\ ledger' \in Nat /\ answered' \in Nat /\ unwritten' \in Nat
        /\ UNCHANGED <<slotRow, lapses, overtaken, ran>>
        /\ e \notin Running /\ e \notin Running' /\ ApprovalHolds(exec'[e])
    BY <1>1, CallsStep
  <2>2. ExecutionKinds' BY <1>0, <1>b, <2>1 DEF ExecutionKinds
  <2>3. RunnersHoldSlots' BY <1>d, <2>1
  <2>4. ApprovedIsGated' /\ GatedWasApproved' BY <1>0, <1>a, <2>1 DEF GatedWasApproved
  <2> QED BY <2>1, <2>2, <2>3, <2>4 DEF WorkInv
<1>2. ASSUME NEW e \in Executions, ReadSlot(e) \/ TakeSlot(e) \/ Leave(e) PROVE WorkInv'
  <2>1. /\ Lane(e) /\ RunnersHoldSlots'
        /\ slotRow' \in [SlotIds -> SlotRows] /\ overtaken' \in Nat
        /\ UNCHANGED <<ledger, answered, unwritten, lapses, ran>>
        /\ e \notin Calling /\ e \notin Calling' /\ e \notin Recording /\ e \notin Recording'
        /\ ApprovalHolds(exec'[e])
    BY <1>2, SlotsStep
  <2>2. ExecutionKinds' BY <1>0, <1>b, <2>1 DEF ExecutionKinds
  <2>3. CallsAreCounted' BY <1>c, <2>1
  <2>4. ApprovedIsGated' /\ GatedWasApproved' BY <1>0, <1>a, <2>1 DEF GatedWasApproved
  <2> QED BY <2>1, <2>2, <2>3, <2>4 DEF WorkInv
<1>3. ASSUME NEW e \in Executions, Invoke(e) \/ InvokeEmpty(e) \/ Deny(e) \/ Gate(e) \/ AllDone(e)
      PROVE  WorkInv'
  <2>1. /\ Lane(e) /\ ApprovalHolds(exec'[e])
        /\ UNCHANGED <<ledger, answered, unwritten, slotRow, lapses, overtaken>>
        /\ e \notin Calling /\ e \notin Calling' /\ e \notin Recording /\ e \notin Recording'
        /\ e \in Running /\ e \in Running'
        /\ GatedWasApproved'
    BY <1>3, CommandsStep
  <2>2. ExecutionKinds' BY <1>0, <1>b, <2>1 DEF ExecutionKinds
  <2>3. CallsAreCounted' BY <1>c, <2>1
  <2>4. RunnersHoldSlots' BY <1>d, <2>1
  <2>5. ApprovedIsGated' BY <1>a, <2>1
  <2> QED BY <2>1, <2>2, <2>3, <2>4, <2>5 DEF WorkInv
<1>4. ASSUME NEW e \in Executions, AgainExecution(e) PROVE WorkInv'
  <2>1. exec' = [exec EXCEPT ![e] = FreshExec] /\ exec[e].pc \in {"ended", "dead"}
        /\ UNCHANGED <<ledger, answered, unwritten, slotRow, lapses, overtaken, ran>>
    BY <1>4 DEF AgainExecution
  <2>2. Lane(e) /\ exec'[e].pc = "idle" /\ ApprovalHolds(exec'[e])
    <3>1. <<>> \in Seq({"plain", "gated", "denied", "empty"}) OBVIOUS
    <3>2. exec'[e] = FreshExec BY <1>0, <2>1
    <3> QED BY <1>0, <2>1, <3>1, <3>2 DEF Lane, ExecState, ExecutionSteps, FreshExec, NoRow, SlotRows, ApprovalHolds
  <2>3. /\ e \notin Calling /\ e \notin Calling' /\ e \notin Recording /\ e \notin Recording'
        /\ e \notin Running'
    BY <2>1, <2>2 DEF Calling, Recording, Running
  <2>4. ExecutionKinds' BY <1>0, <1>b, <2>1, <2>2 DEF ExecutionKinds
  <2>5. CallsAreCounted' BY <1>c, <2>1, <2>2, <2>3
  <2>6. RunnersHoldSlots' BY <1>d, <2>1, <2>2, <2>3
  <2>7. ApprovedIsGated' /\ GatedWasApproved' BY <1>0, <1>a, <2>1, <2>2 DEF GatedWasApproved
  <2> QED BY <2>4, <2>5, <2>6, <2>7 DEF WorkInv
<1>5. ASSUME NEW e \in Executions, DieExecution(e) PROVE WorkInv'
  <2>1. exec' = [exec EXCEPT ![e] = [FreshExec EXCEPT !.pc = "dead"]]
        /\ unwritten' = (IF exec[e].pc = "record" THEN unwritten + 1 ELSE unwritten)
        /\ UNCHANGED <<ledger, answered, slotRow, lapses, overtaken, ran>>
    BY <1>5 DEF DieExecution, Is
  <2>2. Lane(e) /\ exec'[e].pc = "dead" /\ ApprovalHolds(exec'[e])
    <3>1. <<>> \in Seq({"plain", "gated", "denied", "empty"}) OBVIOUS
    <3>2. exec'[e] = [FreshExec EXCEPT !.pc = "dead"] BY <1>0, <2>1
    <3> QED BY <1>0, <2>1, <3>1, <3>2 DEF Lane, ExecState, ExecutionSteps, FreshExec, NoRow, SlotRows, ApprovalHolds
  <2>3. /\ e \notin Calling' /\ e \notin Recording' /\ e \notin Running'
        /\ (e \in Recording <=> exec[e].pc = "record")
    BY <2>2 DEF Calling, Recording, Running
  <2>4. PICK l \in Nat, a \in Nat, u \in Nat, c \in Nat, r \in Nat, n \in Nat :
          /\ l = ledger /\ a = answered /\ u = unwritten
          /\ c = Cardinality(Calling) /\ r = Cardinality(Recording) /\ n = Cardinality(Executions)
    BY <1>0, LanesAreFinite DEF ExecutionKinds
  <2>5. a = l + u + r /\ l + c <= CallBudget + n - 1 BY <1>0, <2>4 DEF CallsAreCounted
  <2>6. PICK cx \in Nat : cx = Cardinality(Calling') /\ (cx = c \/ cx = c - 1)
    BY <1>0, <2>2, <2>3, <2>4, LaneCounts
  <2>7. l + cx <= CallBudget + n - 1 BY <2>5, <2>6
  <2>8. unwritten' \in Nat /\ CallsAreCounted'
    <3>1. CASE exec[e].pc = "record"
      <4>1. Cardinality(Recording') = r - 1 BY <1>0, <2>2, <2>3, <2>4, <3>1, LaneCounts
      <4>2. unwritten' = u + 1 /\ ledger' = l /\ answered' = a BY <2>1, <2>4, <3>1
      <4>3. a = l + (u + 1) + (r - 1) BY <2>5
      <4> QED BY <2>4, <2>6, <2>7, <4>1, <4>2, <4>3 DEF CallsAreCounted
    <3>2. CASE exec[e].pc # "record"
      <4>1. Cardinality(Recording') = r BY <1>0, <2>2, <2>3, <2>4, <3>2, LaneCounts
      <4>2. unwritten' = u /\ ledger' = l /\ answered' = a BY <2>1, <2>4, <3>2
      <4> QED BY <2>4, <2>5, <2>6, <2>7, <4>1, <4>2 DEF CallsAreCounted
    <3> QED BY <3>1, <3>2
  <2>9. ExecutionKinds' BY <1>0, <1>b, <2>1, <2>2, <2>8 DEF ExecutionKinds
  <2>10. RunnersHoldSlots' BY <1>d, <2>1, <2>2, <2>3
  <2>11. ApprovedIsGated' /\ GatedWasApproved' BY <1>0, <1>a, <2>1, <2>2 DEF GatedWasApproved
  <2> QED BY <2>8, <2>9, <2>10, <2>11 DEF WorkInv
<1>6. ASSUME NEW s \in SlotIds, LapseSlot(s) \/ SweepSlot(s) PROVE WorkInv'
  <2>1. PICK g \in Nat, h \in Nat, p \in Nat, o \in Nat :
          g = Cardinality(Running) /\ h = Cardinality(HeldSlots) /\ p = lapses /\ o = overtaken
    BY <1>0, LanesAreFinite DEF ExecutionKinds
  <2>2. g <= h + (p + o) BY <1>0, <2>1 DEF RunnersHoldSlots
  <2>3. UNCHANGED <<exec, ledger, answered, unwritten, overtaken, ran>> BY <1>6 DEF LapseSlot, SweepSlot
  <2>4. Running' = Running BY <2>3 DEF Running
  <2>5. slotRow' \in [SlotIds -> SlotRows] /\ lapses' \in Nat /\ RunnersHoldSlots'
    <3>1. CASE LapseSlot(s)
      <4>1. PICK x \in SlotRows : x.holder = NoOne /\ slotRow' = [slotRow EXCEPT ![s] = x]
        <5>1. \A state \in {"open", "released"} : [state |-> state, holder |-> NoOne] \in SlotRows BY DEF SlotRows
        <5> QED BY <3>1, <5>1 DEF LapseSlot
      <4>2. HeldSlots' = HeldSlots \ {s} /\ s \in HeldSlots /\ slotRow' \in [SlotIds -> SlotRows]
        BY <1>0, <3>1, <4>1 DEF HeldSlots, ExecutionKinds, LapseSlot
      <4>3. Cardinality(HeldSlots') = h - 1 BY <2>1, <4>2, LanesAreFinite, SizeOfRemoved
      <4>4. g <= (h - 1) + ((p + 1) + o) BY <2>2
      <4>5. lapses' = p + 1 /\ p + 1 \in Nat BY <2>1, <3>1 DEF LapseSlot
      <4> QED BY <2>1, <2>3, <2>4, <4>2, <4>3, <4>4, <4>5 DEF RunnersHoldSlots
    <3>2. CASE SweepSlot(s)
      <4>1. slotRow[s] = [state |-> "open", holder |-> NoOne] /\ lapses' = lapses
            /\ slotRow' = [slotRow EXCEPT ![s].state = "released"]
        BY <3>2 DEF SweepSlot
      <4>2. [slotRow[s] EXCEPT !.state = "released"] = [state |-> "released", holder |-> NoOne] BY <4>1
      <4>3. [state |-> "released", holder |-> NoOne] \in SlotRows BY DEF SlotRows
      <4>4. slotRow' = [slotRow EXCEPT ![s] = [state |-> "released", holder |-> NoOne]] BY <4>1, <4>2
      <4>5. slotRow' \in [SlotIds -> SlotRows] BY <1>0, <4>3, <4>4 DEF ExecutionKinds
      <4>6. HeldSlots' = HeldSlots BY <1>0, <4>1, <4>4 DEF HeldSlots, ExecutionKinds
      <4> QED BY <1>0, <2>3, <2>4, <4>1, <4>5, <4>6 DEF RunnersHoldSlots, ExecutionKinds
    <3> QED BY <1>6, <3>1, <3>2
  <2>6. ExecutionKinds' BY <1>0, <2>3, <2>5 DEF ExecutionKinds
  <2>7. CallsAreCounted' BY <1>0, <2>3 DEF CallsAreCounted, Calling, Recording
  <2>8. ApprovedIsGated' /\ GatedWasApproved'
    BY <1>0, <2>3 DEF ApprovedIsGated, GatedWasApproved, Command, Payload
  <2> QED BY <2>5, <2>6, <2>7, <2>8 DEF WorkInv
<1>7. CASE UNCHANGED executionVars
  BY <1>7 DEF executionVars, WorkInv, ExecutionKinds, CallsAreCounted, RunnersHoldSlots, ApprovedIsGated,
     GatedWasApproved, Calling, Recording, Running, HeldSlots, Command, Payload
<1> QED BY <1>1, <1>2, <1>3, <1>4, <1>5, <1>6, <1>7 DEF ExecutionNext, Execute

\* The counts say what the bounds claim.
LEMMA WorkIsBounded == WorkInv => WorkBounded
<1> SUFFICES ASSUME WorkInv PROVE WorkBounded
  OBVIOUS
<1>1. PICK l \in Nat, a \in Nat, u \in Nat, c \in Nat, r \in Nat, n \in Nat, g \in Nat, h \in Nat, p \in Nat, o \in Nat :
        /\ l = ledger /\ a = answered /\ u = unwritten /\ p = lapses /\ o = overtaken
        /\ c = Cardinality(Calling) /\ r = Cardinality(Recording) /\ n = Cardinality(Executions)
        /\ g = Cardinality(Running) /\ h = Cardinality(HeldSlots)
  BY LanesAreFinite DEF WorkInv, ExecutionKinds
<1>2. r <= c
  <2>1. Recording \in SUBSET Calling BY DEF Recording, Calling
  <2> QED BY <1>1, <2>1, LanesAreFinite, FS_Subset
<1>3. a = l + u + r /\ l + c <= CallBudget + n - 1 /\ g <= h + (p + o)
  BY <1>1 DEF WorkInv, CallsAreCounted, RunnersHoldSlots
<1>4. h <= NSlots BY <1>1, LanesAreFinite
<1>5. a <= CallBudget + n - 1 + u BY <1>2, <1>3
<1>6. g <= NSlots + p + o BY <1>3, <1>4
<1> QED BY <1>1, <1>5, <1>6 DEF WorkBounded, SpendBounded, QuotaHolds, WorkInv

\* However many attempts run at once, die and are tried again, the model is asked
\* no more often than the budget and the lanes allow, no more of them run than
\* there are slots, but for leases that were lost and rows that two took which both had
\* read free, and what policy gates ran with an
\* approval, for any budgets, slots, command lists and numbers of failures.
THEOREM WorkIsWithinBounds == ExecutionInit /\ [][ExecutionNext]_executionVars => []WorkBounded
BY ExecutionStarts, WorkStep, WorkIsBounded, PTL

-----------------------------------------------------------------------------
(* Planning: plans and imports are whole, and nothing waits for itself.    *)

\* The tables a plan and an import are made of, and what a bundle has read of them.
PlanningKinds ==
  /\ nextId \in Nat \ {0}
  /\ \A p \in projects : p.id \in Nat
  /\ requirements \cup bundle.requirements \subseteq [id : Nat, project : Nat]
  /\ tasks \cup bundle.tasks \subseteq [id : Nat, project : Nat, plan : Nat, requirement : Nat]

\* Ids come from one counter, and none comes twice.
IdsAreSpent ==
  /\ \A t \in tasks \cup bundle.tasks : t.id < nextId
  /\ \A a \in asked : \A i \in a.tasks : i \in Nat /\ i < nextId

\* The tasks of a plan, or of an import, are of one project and there or gone
\* together, and so are the edges between them.
AskedIsWhole ==
  \A a \in asked :
    /\ a.tasks \cap Ids(tasks) = {} \/ (a.tasks \subseteq Ids(tasks) /\ a.edges \subseteq deps)
    /\ a.edges \subseteq a.tasks \X a.tasks
    /\ \A s, t \in tasks : s.id \in a.tasks /\ t.id \in a.tasks => s.project = t.project

\* A task waits for tasks of its project that were there before it.
WaitsForEarlier ==
  \A d \in deps :
    /\ d \in Nat \X Nat /\ d[2] < d[1]
    /\ \E s, t \in tasks : s.id = d[1] /\ t.id = d[2] /\ s.project = t.project

PlanningInv == PlanningKinds /\ IdsAreSpent /\ AskedIsWhole /\ WaitsForEarlier

HIDE ExecutionAssumption
USE PlanningAssumption

\* The tables are empty at the start.
LEMMA PlanningStarts == PlanningInit => PlanningInv
BY DEF PlanningInit, PlanningInv, PlanningKinds, IdsAreSpent, AskedIsWhole, WaitsForEarlier, NoBundle, Ids

\* Where every edge goes to a smaller number, there is no cycle.
LEMMA DescendingIsAcyclic ==
  ASSUME NEW E, \A e \in E : e \in Nat \X Nat /\ e[2] < e[1] PROVE Acyclic(E)
<1> SUFFICES ASSUME NEW S \in SUBSET ({e[1] : e \in E} \cup {e[2] : e \in E}), S # {}
             PROVE  \E n \in S : \A m \in S : <<n, m>> \notin E
  BY DEF Acyclic
<1>1. S \subseteq Nat OBVIOUS
<1>2. PICK n \in S : \A m \in S : <<m, n>> \notin OpToRel(<, Nat)
  BY <1>1, NatLessThanWellFounded, WFMin
<1>3. \A m \in S : ~ (m < n) BY <1>1, <1>2 DEF OpToRel
<1>4. \A m \in S : <<n, m>> \notin E BY <1>3
<1> QED BY <1>4

\* The edges of a plan that is accepted go from a task of it to an earlier one.
LEMMA PlansDescend ==
  ASSUME NEW spec \in PlanSpecs, NEW first \in Nat, ~ Unknown(spec), ~ Cyclic(EdgesOf(spec, first))
  PROVE  \A e \in EdgesOf(spec, first) :
           \E i, j \in 1..Len(spec) : e = <<first + i, first + j>> /\ j < i
<1> SUFFICES ASSUME NEW e \in EdgesOf(spec, first)
             PROVE  \E i, j \in 1..Len(spec) : e = <<first + i, first + j>> /\ j < i
  OBVIOUS
<1>1. spec \in Seq(Seq(Nat \ {0})) OBVIOUS
<1>2. PICK i \in 1..Len(spec) : e \in {<<first + i, first + spec[i][j]>> : j \in 1..Len(spec[i])}
  BY DEF EdgesOf
<1>3. PICK j \in 1..Len(spec[i]) : e = <<first + i, first + spec[i][j]>> BY <1>2
<1>4. spec[i] \in Seq(Nat \ {0}) BY <1>1
<1>5. spec[i][j] \in Nat \ {0} BY <1>4
<1>6. ~ (spec[i][j] > i) BY DEF Unknown
<1>7. e[2] # e[1] BY DEF Cyclic, find_cycle
<1>8. spec[i][j] < i BY <1>3, <1>5, <1>6, <1>7
<1>9. spec[i][j] \in 1..Len(spec)
  <2>1. Len(spec) \in Nat BY <1>1
  <2> QED BY <1>5, <1>8, <2>1
<1> QED BY <1>3, <1>8, <1>9

\* Deleting a project takes its tasks and every edge at one of them.
LEMMA DeletionKeepsWhole ==
  ASSUME PlanningInv, NEW id \in Nat, DeleteProject(id) PROVE PlanningInv'
<1> DEFINE gone == {t \in tasks : t.project = id}
<1>1. /\ projects' \subseteq projects /\ requirements' \subseteq requirements
      /\ UNCHANGED <<nextId, bundle, asked>>
      /\ deps' = {d \in deps : {d[1], d[2]} \cap Ids(gone) = {}}
  BY DEF DeleteProject
<1> DEFINE reqs == {r \in requirements : r.project = id}
           gonePlans == {p \in plans : p.requirement \in Ids(reqs)}
           Kept(t) == [t EXCEPT !.plan = IF @ \in Ids(gonePlans) THEN 0 ELSE @,
                                !.requirement = IF @ \in Ids(reqs) THEN 0 ELSE @]
<1>a. tasks' = {Kept(t) : t \in tasks \ gone} BY DEF DeleteProject
<1> HIDE DEF reqs, gonePlans
<1>b. tasks \subseteq [id : Nat, project : Nat, plan : Nat, requirement : Nat]
  BY DEF PlanningInv, PlanningKinds
<1>c. \A t \in tasks : Kept(t).id = t.id /\ Kept(t).project = t.project BY <1>b
<1> HIDE DEF Kept
<1>2. \A t \in tasks' : \E u \in tasks \ gone : t.id = u.id /\ t.project = u.project
  BY <1>a, <1>c
<1>3. \A u \in tasks \ gone : \E t \in tasks' : t.id = u.id /\ t.project = u.project
  BY <1>a, <1>c
<1>4. tasks' \subseteq [id : Nat, project : Nat, plan : Nat, requirement : Nat]
  <2>1. tasks' = {[t EXCEPT !.plan = IF @ \in Ids(gonePlans) THEN 0 ELSE @,
                            !.requirement = IF @ \in Ids(reqs) THEN 0 ELSE @] : t \in tasks \ gone}
    BY <1>a DEF Kept
  <2>2. tasks \subseteq [id : Nat, project : Nat, plan : Nat, requirement : Nat]
    BY DEF PlanningInv, PlanningKinds
  <2>3. ASSUME NEW t \in tasks, NEW x \in Nat, NEW y \in Nat
        PROVE  [t EXCEPT !.plan = x, !.requirement = y] \in [id : Nat, project : Nat, plan : Nat, requirement : Nat]
    BY <2>2
  <2>4. \A t \in tasks : t.plan \in Nat /\ t.requirement \in Nat BY <2>2
  <2>5. ASSUME NEW t \in tasks
        PROVE  [t EXCEPT !.plan = IF @ \in Ids(gonePlans) THEN 0 ELSE @,
                         !.requirement = IF @ \in Ids(reqs) THEN 0 ELSE @]
               \in [id : Nat, project : Nat, plan : Nat, requirement : Nat]
    BY <2>3, <2>4
  <2> QED BY <2>1, <2>5
<1>5. Ids(tasks') = Ids(tasks \ gone) BY <1>2, <1>3 DEF Ids
<1> HIDE DEF gone
<1>6. PlanningKinds' BY <1>1, <1>4 DEF PlanningInv, PlanningKinds
<1>7. IdsAreSpent'
  <2>1. \A t \in tasks' : t.id < nextId BY <1>2 DEF PlanningInv, IdsAreSpent
  <2> QED BY <1>1, <2>1 DEF PlanningInv, IdsAreSpent
<1>8. AskedIsWhole'
  <2> SUFFICES ASSUME NEW a \in asked
               PROVE  /\ a.tasks \cap Ids(tasks') = {} \/ (a.tasks \subseteq Ids(tasks') /\ a.edges \subseteq deps')
                      /\ a.edges \subseteq a.tasks \X a.tasks
                      /\ \A s, t \in tasks' : s.id \in a.tasks /\ t.id \in a.tasks => s.project = t.project
    BY <1>1 DEF AskedIsWhole
  <2>1. /\ a.tasks \cap Ids(tasks) = {} \/ (a.tasks \subseteq Ids(tasks) /\ a.edges \subseteq deps)
        /\ a.edges \subseteq a.tasks \X a.tasks
        /\ \A s, t \in tasks : s.id \in a.tasks /\ t.id \in a.tasks => s.project = t.project
    BY DEF PlanningInv, AskedIsWhole
  <2>2. \A s, t \in tasks' : s.id \in a.tasks /\ t.id \in a.tasks => s.project = t.project
    BY <1>2, <2>1
  <2>3. ASSUME NEW i \in a.tasks, i \in Ids(tasks')
        PROVE  a.tasks \subseteq Ids(tasks') /\ a.edges \subseteq deps'
    <3>1. PICK u \in tasks \ gone : u.id = i BY <1>5, <2>3 DEF Ids
    <3>2. a.tasks \subseteq Ids(tasks) /\ a.edges \subseteq deps BY <2>1, <2>3, <3>1 DEF Ids
    <3>3. \A t \in tasks : t.id \in a.tasks => t \notin gone BY <2>1, <2>3, <3>1 DEF gone
    <3>4. a.tasks \subseteq Ids(tasks') BY <1>5, <3>2, <3>3 DEF Ids
    <3>5. a.tasks \cap Ids(gone) = {} BY <3>3 DEF Ids, gone
    <3>6. ASSUME NEW e \in a.edges PROVE e \in deps'
      <4>1. e[1] \in a.tasks /\ e[2] \in a.tasks BY <2>1
      <4> QED BY <1>1, <3>2, <3>5, <4>1
    <3> QED BY <3>4, <3>6
  <2> QED BY <2>1, <2>2, <2>3
<1>9. WaitsForEarlier'
  <2> SUFFICES ASSUME NEW d \in deps'
               PROVE  /\ d \in Nat \X Nat /\ d[2] < d[1]
                      /\ \E s, t \in tasks' : s.id = d[1] /\ t.id = d[2] /\ s.project = t.project
    BY DEF WaitsForEarlier
  <2>1. d \in deps /\ d[1] \notin Ids(gone) /\ d[2] \notin Ids(gone) BY <1>1
  <2>2. PICK s, t \in tasks : s.id = d[1] /\ t.id = d[2] /\ s.project = t.project
    BY <2>1 DEF PlanningInv, WaitsForEarlier
  <2>3. s \in tasks \ gone /\ t \in tasks \ gone BY <2>1, <2>2 DEF Ids
  <2> QED BY <1>3, <2>1, <2>2, <2>3 DEF PlanningInv, WaitsForEarlier
<1> QED BY <1>6, <1>7, <1>8, <1>9 DEF PlanningInv

\* New tasks with new ids, all of one project, with edges to earlier tasks of it
\* (those that are there, or those that come with them).
LEMMA AdditionKeepsWhole ==
  ASSUME PlanningInv, NEW made, NEW edges, NEW project \in Nat,
         made \subseteq [id : Nat, project : {project}, plan : Nat, requirement : Nat],
         \A t \in made : nextId <= t.id /\ t.id < nextId',
         \A e \in edges :
           /\ e \in Nat \X Nat /\ e[2] < e[1] /\ e[1] \in Ids(made)
           /\ e[2] \in Ids(made) \/ \E t \in tasks : t.id = e[2] /\ t.project = project,
         tasks' = tasks \cup made, deps' = deps \cup edges, nextId' \in Nat \ {0}, nextId <= nextId',
         bundle'.tasks \subseteq bundle.tasks, bundle'.requirements \subseteq bundle.requirements,
         \A p \in projects' : p.id \in Nat, requirements' \subseteq [id : Nat, project : Nat],
         asked' = asked \/ (edges \subseteq Ids(made) \X Ids(made)
                            /\ asked' = asked \cup {[tasks |-> Ids(made), edges |-> edges]})
  PROVE  PlanningInv'
<1>1. PlanningKinds' BY DEF PlanningInv, PlanningKinds
<1>2. \A i \in Ids(made) : i \in Nat /\ nextId <= i /\ i < nextId' BY DEF Ids
<1>3. IdsAreSpent'
  <2>1. nextId \in Nat /\ nextId' \in Nat BY DEF PlanningInv, PlanningKinds
  <2>2. \A t \in tasks' \cup bundle'.tasks : t.id < nextId'
    BY <2>1 DEF PlanningInv, PlanningKinds, IdsAreSpent
  <2>3. \A a \in asked : \A i \in a.tasks : i \in Nat /\ i < nextId'
    BY <2>1 DEF PlanningInv, IdsAreSpent
  <2> QED BY <1>2, <2>2, <2>3 DEF IdsAreSpent
<1>4. Ids(tasks') = Ids(tasks) \cup Ids(made) BY DEF Ids
<1>5. ASSUME NEW a \in asked PROVE a.tasks \cap Ids(made) = {}
  <2>1. nextId \in Nat BY DEF PlanningInv, PlanningKinds
  <2> QED BY <1>2, <2>1 DEF PlanningInv, IdsAreSpent
<1>6. Ids(tasks) \cap Ids(made) = {}
  <2>1. nextId \in Nat BY DEF PlanningInv, PlanningKinds
  <2>2. \A i \in Ids(tasks) : i \in Nat /\ i < nextId BY DEF PlanningInv, PlanningKinds, IdsAreSpent, Ids
  <2> QED BY <1>2, <2>1, <2>2
<1>7. AskedIsWhole'
  <2>1. ASSUME NEW a \in asked
        PROVE  /\ a.tasks \cap Ids(tasks') = {} \/ (a.tasks \subseteq Ids(tasks') /\ a.edges \subseteq deps')
               /\ a.edges \subseteq a.tasks \X a.tasks
               /\ \A s, t \in tasks' : s.id \in a.tasks /\ t.id \in a.tasks => s.project = t.project
    <3>1. \A t \in tasks' : t.id \in a.tasks => t \in tasks BY <1>5 DEF Ids
    <3>2. /\ a.tasks \cap Ids(tasks) = {} \/ (a.tasks \subseteq Ids(tasks) /\ a.edges \subseteq deps)
          /\ a.edges \subseteq a.tasks \X a.tasks
          /\ \A s, t \in tasks : s.id \in a.tasks /\ t.id \in a.tasks => s.project = t.project
      BY DEF PlanningInv, AskedIsWhole
    <3>3. deps \subseteq deps' OBVIOUS
    <3> QED BY <1>4, <1>5, <3>1, <3>2, <3>3
  <2>2. CASE asked' = asked BY <2>1, <2>2 DEF AskedIsWhole
  <2>3. CASE /\ edges \subseteq Ids(made) \X Ids(made)
             /\ asked' = asked \cup {[tasks |-> Ids(made), edges |-> edges]}
    <3> DEFINE new == [tasks |-> Ids(made), edges |-> edges]
    <3>1. new.tasks = Ids(made) /\ new.edges = edges OBVIOUS
    <3>2. \A t \in tasks' : t.id \in Ids(made) => t \in made BY <1>6 DEF Ids
    <3>3. \A s, t \in tasks' : s.id \in Ids(made) /\ t.id \in Ids(made) => s.project = t.project
      BY <3>2
    <3>4. Ids(made) \subseteq Ids(tasks') /\ edges \subseteq deps' BY <1>4
    <3>5. asked' = asked \cup {new} BY <2>3
    <3> HIDE DEF new
    <3>6. edges \subseteq Ids(made) \X Ids(made) BY <2>3
    <3>7. new.edges \subseteq new.tasks \X new.tasks BY <3>1, <3>6
    <3>8. \A s, t \in tasks' : s.id \in new.tasks /\ t.id \in new.tasks => s.project = t.project
      BY <3>1, <3>3
    <3>9. new.tasks \subseteq Ids(tasks') /\ new.edges \subseteq deps' BY <3>1, <3>4
    <3> SUFFICES ASSUME NEW a \in asked'
                 PROVE  /\ a.tasks \cap Ids(tasks') = {} \/ (a.tasks \subseteq Ids(tasks') /\ a.edges \subseteq deps')
                        /\ a.edges \subseteq a.tasks \X a.tasks
                        /\ \A s, t \in tasks' : s.id \in a.tasks /\ t.id \in a.tasks => s.project = t.project
      BY DEF AskedIsWhole
    <3> QED BY <2>1, <3>5, <3>7, <3>8, <3>9
  <2> QED BY <2>2, <2>3
<1>8. WaitsForEarlier'
  <2> SUFFICES ASSUME NEW d \in deps'
               PROVE  /\ d \in Nat \X Nat /\ d[2] < d[1]
                      /\ \E s, t \in tasks' : s.id = d[1] /\ t.id = d[2] /\ s.project = t.project
    BY DEF WaitsForEarlier
  <2>1. CASE d \in deps BY <2>1 DEF PlanningInv, WaitsForEarlier
  <2>2. CASE d \in edges
    <3>1. PICK s \in made : s.id = d[1] BY <2>2 DEF Ids
    <3>2. PICK t \in tasks' : t.id = d[2] /\ t.project = project BY <2>2 DEF Ids
    <3>3. s \in tasks' /\ s.project = project OBVIOUS
    <3> QED BY <2>2, <3>1, <3>2, <3>3
  <2> QED BY <2>1, <2>2
<1> QED BY <1>1, <1>3, <1>7, <1>8 DEF PlanningInv

\* A plan is added whole, or not at all.
LEMMA PlanKeepsWhole ==
  ASSUME PlanningInv, NEW r \in requirements, NEW spec \in PlanSpecs, CreatePlan(r, spec)
  PROVE  PlanningInv'
<1> DEFINE edges == EdgesOf(spec, nextId)
           made == {[id |-> nextId + i, project |-> r.project, plan |-> nextId, requirement |-> r.id] :
                      i \in 1..Len(spec)}
<1>1. /\ nextId \in Nat \ {0} /\ r.project \in Nat /\ r.id \in Nat /\ Len(spec) \in Nat
      /\ UNCHANGED <<requirements, projects, bundle>>
  BY DEF PlanningInv, PlanningKinds, CreatePlan
<1>2. CASE UNCHANGED <<plans, tasks, deps, asked, nextId>>
  BY <1>1, <1>2 DEF PlanningInv, PlanningKinds, IdsAreSpent, AskedIsWhole, WaitsForEarlier, Ids
<1>3. CASE /\ ~ Unknown(spec) /\ ~ Cyclic(edges)
           /\ tasks' = tasks \cup made /\ deps' = deps \cup edges
           /\ asked' = asked \cup {[tasks |-> Ids(made), edges |-> edges]}
           /\ nextId' = nextId + 1 + Len(spec)
  <2>1. \A e \in edges : \E i, j \in 1..Len(spec) : e = <<nextId + i, nextId + j>> /\ j < i
    BY <1>1, <1>3, PlansDescend
  <2>2. Ids(made) = {nextId + i : i \in 1..Len(spec)}
    <3>1. ASSUME NEW i \in 1..Len(spec) PROVE nextId + i \in Ids(made)
      <4>1. [id |-> nextId + i, project |-> r.project, plan |-> nextId, requirement |-> r.id] \in made OBVIOUS
      <4>2. [id |-> nextId + i, project |-> r.project, plan |-> nextId, requirement |-> r.id].id = nextId + i OBVIOUS
      <4> HIDE DEF made
      <4> QED BY <4>1, <4>2 DEF Ids
    <3>2. ASSUME NEW t \in made PROVE \E i \in 1..Len(spec) : t.id = nextId + i OBVIOUS
    <3> HIDE DEF made
    <3> QED BY <3>1, <3>2 DEF Ids
  <2>3. made \subseteq [id : Nat, project : {r.project}, plan : Nat, requirement : Nat] BY <1>1
  <2>4. \A t \in made : nextId <= t.id /\ t.id < nextId' BY <1>1, <1>3
  <2>5. nextId' \in Nat \ {0} /\ nextId <= nextId' BY <1>1, <1>3
  <2> HIDE DEF edges, made
  <2>6. \A e \in edges : e \in Nat \X Nat /\ e[2] < e[1] /\ e[1] \in Ids(made) /\ e[2] \in Ids(made)
    <3> SUFFICES ASSUME NEW e \in edges
                 PROVE  e \in Nat \X Nat /\ e[2] < e[1] /\ e[1] \in Ids(made) /\ e[2] \in Ids(made)
      OBVIOUS
    <3>1. PICK i, j \in 1..Len(spec) : e = <<nextId + i, nextId + j>> /\ j < i BY <2>1
    <3>2. nextId + i \in Ids(made) /\ nextId + j \in Ids(made) BY <2>2
    <3>3. nextId + i \in Nat /\ nextId + j \in Nat /\ nextId + j < nextId + i BY <1>1, <3>1
    <3> QED BY <3>1, <3>2, <3>3
  <2>7. edges \subseteq Ids(made) \X Ids(made)
    <3> SUFFICES ASSUME NEW e \in edges PROVE e \in Ids(made) \X Ids(made)
      OBVIOUS
    <3>1. PICK i, j \in 1..Len(spec) : e = <<nextId + i, nextId + j>> BY <2>1
    <3>2. nextId + i \in Ids(made) /\ nextId + j \in Ids(made) BY <2>2
    <3> QED BY <3>1, <3>2
  <2>8. (\A p \in projects' : p.id \in Nat) /\ requirements' \subseteq [id : Nat, project : Nat]
    BY <1>1 DEF PlanningInv, PlanningKinds
  <2>9. \A e \in edges :
           /\ e \in Nat \X Nat /\ e[2] < e[1] /\ e[1] \in Ids(made)
           /\ e[2] \in Ids(made) \/ \E t \in tasks : t.id = e[2] /\ t.project = r.project
    BY <2>6
  <2>10. bundle'.tasks \subseteq bundle.tasks /\ bundle'.requirements \subseteq bundle.requirements BY <1>1
  <2> QED BY <1>1, <1>3, <2>3, <2>4, <2>5, <2>7, <2>8, <2>9, <2>10, AdditionKeepsWhole
<1> QED BY <1>2, <1>3 DEF CreatePlan

\* A task by hand waits for tasks that are there.
LEMMA TaskKeepsWhole ==
  ASSUME PlanningInv, NEW p \in projects, NEW needed \in SUBSET tasks, CreateTask(p.id, needed)
  PROVE  PlanningInv'
<1> DEFINE one == [id |-> nextId, project |-> p.id, plan |-> 0, requirement |-> 0]
           made == {one}
           edges == {<<nextId, t.id>> : t \in needed}
<1>1. /\ nextId \in Nat \ {0} /\ p.id \in Nat
      /\ UNCHANGED <<requirements, projects, bundle, asked>>
      /\ tasks' = tasks \cup made /\ deps' = deps \cup edges /\ nextId' = nextId + 1
      /\ \A t \in needed : t.project = p.id
  BY DEF PlanningInv, PlanningKinds, CreateTask
<1>2. \A t \in needed : t \in tasks /\ t.id \in Nat /\ t.id < nextId
  BY DEF PlanningInv, PlanningKinds, IdsAreSpent
<1>3. Ids(made) = {nextId} BY DEF Ids
<1>4. made \subseteq [id : Nat, project : {p.id}, plan : Nat, requirement : Nat] BY <1>1
<1>5. \A t \in made : nextId <= t.id /\ t.id < nextId' BY <1>1
<1>6. ASSUME NEW e \in edges
      PROVE  /\ e \in Nat \X Nat /\ e[2] < e[1] /\ e[1] \in Ids(made)
             /\ e[2] \in Ids(made) \/ \E t \in tasks : t.id = e[2] /\ t.project = p.id
  <2>1. PICK t \in needed : e = <<nextId, t.id>> OBVIOUS
  <2>2. t \in tasks /\ t.id \in Nat /\ t.id < nextId /\ t.project = p.id BY <1>1, <1>2
  <2>3. e[1] = nextId /\ e[2] = t.id BY <2>1
  <2>4. e[1] \in Ids(made) BY <1>3, <2>3
  <2> HIDE DEF made
  <2> QED BY <1>1, <2>1, <2>2, <2>3, <2>4
<1> HIDE DEF one, made, edges
<1>7. nextId' \in Nat \ {0} /\ nextId <= nextId' BY <1>1
<1>8. (\A q \in projects' : q.id \in Nat) /\ requirements' \subseteq [id : Nat, project : Nat]
  BY <1>1 DEF PlanningInv, PlanningKinds
<1>9. bundle'.tasks \subseteq bundle.tasks /\ bundle'.requirements \subseteq bundle.requirements BY <1>1
<1> QED BY <1>1, <1>4, <1>5, <1>6, <1>7, <1>8, <1>9, AdditionKeepsWhole

\* A task of a bundle, as the import renumbers it.
Renumbered(r, n) == [[r EXCEPT !.id = @ + n] EXCEPT !.project = n]

LEMMA RenumberedIsTask ==
  ASSUME NEW r, r \in [id : Nat, project : Nat, plan : Nat, requirement : Nat], NEW n, n \in Nat
  PROVE  Renumbered(r, n) \in [id : Nat, project : {n}, plan : Nat, requirement : Nat]
<1>1. r.id \in Nat /\ r.project \in Nat /\ r.plan \in Nat /\ r.requirement \in Nat OBVIOUS
<1>2. r.id + n \in Nat BY <1>1
<1>3. PICK m \in Nat : m = r.id + n BY <1>2
<1>4. Renumbered(r, n) = [id |-> m, project |-> n, plan |-> r.plan, requirement |-> r.requirement]
  <2>1. r = [id |-> r.id, project |-> r.project, plan |-> r.plan, requirement |-> r.requirement] OBVIOUS
  <2>2. PICK a \in Nat, b \in Nat, c \in Nat, d \in Nat : r = [id |-> a, project |-> b, plan |-> c, requirement |-> d]
    BY <1>1, <2>1
  <2>3. Renumbered(r, n) = [[r EXCEPT !.id = m] EXCEPT !.project = n] BY <1>3 DEF Renumbered
  <2>4. [r EXCEPT !.id = m] = [id |-> m, project |-> b, plan |-> c, requirement |-> d] BY <2>2
  <2> QED BY <2>2, <2>3, <2>4
<1> QED BY <1>1, <1>4

\* An import takes ids above all there are, for tasks of a project of its own.
LEMMA ImportKeepsWhole == ASSUME PlanningInv, Import PROVE PlanningInv'
<1> DEFINE into(rs) == {[r EXCEPT !.project = nextId] : r \in {[r EXCEPT !.id = @ + nextId] : r \in rs}}
           made == into(bundle.tasks)
<1>1. /\ nextId \in Nat \ {0} /\ nextId' = 2 * nextId /\ bundle' = NoBundle
      /\ projects' = projects \cup {[id |-> nextId, name |-> "imported"]}
      /\ requirements' = requirements \cup into(bundle.requirements)
      /\ tasks' = tasks \cup made /\ deps' = deps
      /\ asked' = asked \cup {[tasks |-> Ids(made), edges |-> {}]}
  BY DEF PlanningInv, PlanningKinds, Import
<1>2. bundle.tasks \subseteq [id : Nat, project : Nat, plan : Nat, requirement : Nat]
      /\ bundle.requirements \subseteq [id : Nat, project : Nat]
      /\ \A t \in bundle.tasks : t.id < nextId
  BY DEF PlanningInv, PlanningKinds, IdsAreSpent
<1>3. made \subseteq [id : Nat, project : {nextId}, plan : Nat, requirement : Nat]
  <2> SUFFICES ASSUME NEW q \in made
               PROVE  q \in [id : Nat, project : {nextId}, plan : Nat, requirement : Nat]
    OBVIOUS
  <2>1. PICK r \in bundle.tasks : q = Renumbered(r, nextId) BY DEF Renumbered
  <2>2. r \in [id : Nat, project : Nat, plan : Nat, requirement : Nat] BY <1>2
  <2> HIDE DEF made, into
  <2> QED BY <1>1, <2>1, <2>2, RenumberedIsTask
<1>4. \A t \in made : nextId <= t.id /\ t.id < nextId'
  <2> SUFFICES ASSUME NEW r \in bundle.tasks
               PROVE  LET q == [[r EXCEPT !.id = @ + nextId] EXCEPT !.project = nextId]
                      IN nextId <= q.id /\ q.id < 2 * nextId
    BY <1>1
  <2> QED BY <1>1, <1>2
<1>5. into(bundle.requirements) \subseteq [id : Nat, project : Nat] BY <1>1, <1>2
<1> HIDE DEF made, into
<1>6. nextId' \in Nat \ {0} /\ nextId <= nextId' BY <1>1
<1>7. (\A q \in projects' : q.id \in Nat) /\ requirements' \subseteq [id : Nat, project : Nat]
  BY <1>1, <1>5 DEF PlanningInv, PlanningKinds
<1>8. bundle'.tasks \subseteq bundle.tasks /\ bundle'.requirements \subseteq bundle.requirements
  BY <1>1 DEF NoBundle
<1> DEFINE none == {}
<1>9. \A e \in none : e \in Nat \X Nat /\ e[2] < e[1] /\ e[1] \in Ids(made)
                    /\ (e[2] \in Ids(made) \/ \E t \in tasks : t.id = e[2] /\ t.project = nextId)
  OBVIOUS
<1>10. none \subseteq Ids(made) \X Ids(made) /\ deps' = deps \cup none /\ nextId \in Nat BY <1>1
<1>11. asked' = asked \cup {[tasks |-> Ids(made), edges |-> none]} BY <1>1
<1> HIDE DEF none
<1> QED BY <1>1, <1>3, <1>4, <1>6, <1>7, <1>8, <1>9, <1>10, <1>11, AdditionKeepsWhole

\* Every step keeps it.
LEMMA PlanningStep == PlanningInv /\ [PlanningNext]_planningVars => PlanningInv'
<1> SUFFICES ASSUME PlanningInv, [PlanningNext]_planningVars PROVE PlanningInv'
  OBVIOUS
<1> USE DEF PlanningInv
<1>1. ASSUME NEW o \in ProjectCalls, LookForRoot(o) \/ InsertProject(o) PROVE PlanningInv'
  <2>1. UNCHANGED <<requirements, tasks, deps, bundle, asked>> BY <1>1 DEF LookForRoot, InsertProject
  <2>2. nextId' \in {nextId, nextId + 1} BY <1>1 DEF LookForRoot, InsertProject
  <2>3. \A p \in projects' : p.id \in Nat BY <1>1 DEF LookForRoot, InsertProject, PlanningKinds
  <2> QED BY <2>1, <2>2, <2>3 DEF PlanningKinds, IdsAreSpent, AskedIsWhole, WaitsForEarlier, Ids
<1>2. ASSUME NEW p \in projects, DeleteProject(p.id) PROVE PlanningInv'
  BY <1>2, DeletionKeepsWhole DEF PlanningKinds
<1>3. ASSUME NEW p \in projects, ExportOwned(p.id) PROVE PlanningInv'
  <2>1. UNCHANGED <<projects, requirements, tasks, deps, nextId, asked>>
        /\ bundle'.tasks \subseteq tasks /\ bundle'.requirements \subseteq requirements
    BY <1>3 DEF ExportOwned, NoBundle
  <2> QED BY <2>1 DEF PlanningKinds, IdsAreSpent, AskedIsWhole, WaitsForEarlier, Ids
<1>4. CASE ExportChildren
  <2>1. UNCHANGED <<projects, requirements, tasks, deps, nextId, asked>> BY <1>4 DEF ExportChildren
  <2>2. bundle'.tasks \subseteq bundle.tasks /\ bundle'.requirements \subseteq bundle.requirements
    BY <1>4 DEF ExportChildren, NoBundle
  <2> QED BY <2>1, <2>2 DEF PlanningKinds, IdsAreSpent, AskedIsWhole, WaitsForEarlier, Ids
<1>5. CASE Import BY <1>5, ImportKeepsWhole
<1>6. ASSUME NEW t \in tasks, Attempt(t.id) PROVE PlanningInv'
  BY <1>6 DEF Attempt, PlanningKinds, IdsAreSpent, AskedIsWhole, WaitsForEarlier, Ids
<1>7. ASSUME NEW p \in projects, CreateRequirement(p.id) PROVE PlanningInv'
  <2>1. UNCHANGED <<projects, tasks, deps, bundle, asked>> /\ nextId' = nextId + 2
        /\ requirements' = requirements \cup {[id |-> nextId, project |-> p.id]}
    BY <1>7 DEF CreateRequirement
  <2> QED BY <2>1 DEF PlanningKinds, IdsAreSpent, AskedIsWhole, WaitsForEarlier, Ids
<1>8. ASSUME NEW p \in projects, NEW needed \in SUBSET tasks, CreateTask(p.id, needed) PROVE PlanningInv'
  BY <1>8, TaskKeepsWhole
<1>9. ASSUME NEW r \in requirements, NEW spec \in PlanSpecs, CreatePlan(r, spec) PROVE PlanningInv'
  BY <1>9, PlanKeepsWhole
<1>10. CASE UNCHANGED planningVars
  BY <1>10 DEF planningVars, PlanningKinds, IdsAreSpent, AskedIsWhole, WaitsForEarlier, Ids
<1> QED BY <1>1, <1>2, <1>3, <1>4, <1>5, <1>6, <1>7, <1>8, <1>9, <1>10 DEF PlanningNext

\* Whatever is deleted, exported and imported: plans and imports are there whole or not
\* at all, dependencies stay within a project, and none of them closes a cycle.
THEOREM PlansStayWhole == PlanningInit /\ [][PlanningNext]_planningVars => []PlansWhole
<1>1. ASSUME PlanningInv PROVE PlansWhole
  <2>1. Acyclic(deps) BY <1>1, DescendingIsAcyclic DEF PlanningInv, WaitsForEarlier
  <2> QED BY <1>1, <2>1 DEF PlanningInv, AskedIsWhole, WaitsForEarlier, PlansWhole
<1> QED BY <1>1, PlanningStarts, PlanningStep, PTL

-----------------------------------------------------------------------------
(* Workspace: the index settles on the tree.                               *)

\* A row is of the path its id was made for.
RowOK(r) == r \in [id : Nat \X PathSet, path : PathSet, hash : {r.hash}] /\ r.id[2] = r.path

\* The fields of a pass; what it has hashed and what it deletes may be anything.
PassKind(q) ==
  q \in [pc : {"idle", "read", "delete", "commit", "ended"}, full : BOOLEAN, todo : SUBSET PathSet,
         seen : SUBSET PathSet, existing : {q.existing}, hash : {q.hash}, old : {q.old}, alone : BOOLEAN]

OneRowPerPath(rs) == (\A r \in rs : RowOK(r)) /\ \A r, s \in rs : r.path = s.path => r = s

WorkspaceKinds ==
  /\ pass = [n \in Passes |-> pass[n]]
  /\ \A n \in Passes : PassKind(pass[n]) /\ OneRowPerPath(pass[n].existing)
  /\ overlapped \in BOOLEAN
  /\ OneRowPerPath(rows)
  /\ \A s \in symbols : \E r \in rows : r.id = s.row

SymbolsOf(id) == {s \in symbols : s.row = id}

\* A row with the one symbol of its content.
Indexed(r) == \E s : SymbolsOf(r.id) = {s} /\ s.of = r.hash

\* What the index should say of a file.
RowRight(p) == \E r \in RowsOf(p) : r.hash = files[p] /\ Indexed(r)

\* A pass that nothing of the index can happen behind.
Sole(n) == ~ overlapped \/ pass[n].alone

\* Such a pass knows the rows of the files it has not come to, and the symbols it deletes;
PassKnows(n) ==
  /\ \A m \in Passes \ {n} : ~ Active(m)
  /\ \A p \in PathSet \ pass[n].seen : RowsOf(p) = Existing(n, p)
  /\ pass[n].pc = "commit" =>
       \A r \in Existing(n, Candidate(n)) : pass[n].old = SymbolsOf(r.id)

\* and one during which the tree does not change leaves right rows behind.
PassSettles(n) ==
  /\ pass[n].todo \cup pass[n].seen = collect_files
  /\ pass[n].pc \in {"delete", "commit"} => pass[n].hash = files[Candidate(n)]
  /\ pass[n].full \/ ~ overlapped => \A p \in pass[n].seen : files[p] # "big" => RowRight(p)

PassOK(n) ==
  Active(n) =>
    /\ pass[n].todo \cap pass[n].seen = {}
    /\ pass[n].pc \in {"delete", "commit"} => pass[n].todo # {}
    /\ pass[n].pc = "delete" => Existing(n, Candidate(n)) # {}
    /\ Sole(n) => PassKnows(n)
    /\ pass[n].alone => PassSettles(n)

WorkspaceInv ==
  /\ WorkspaceKinds
  /\ \A n \in Passes : PassOK(n)
  /\ ~ overlapped => \A r \in rows : Indexed(r)
  /\ indexed # "no" => \A n \in Passes : ~ Active(n)
  /\ IndexSettles

HIDE PlanningAssumption
USE WorkspaceAssumption

\* The candidate is one of what is left to do.
LEMMA CandidateIsLeft ==
  ASSUME NEW n, pass[n].todo \subseteq PathSet, pass[n].todo # {}
  PROVE  Candidate(n) \in pass[n].todo
<1> DEFINE S == {i \in DOMAIN Paths : Paths[i] \in pass[n].todo}
<1>1. DOMAIN Paths \subseteq Nat OBVIOUS
<1>2. S # {} BY DEF PathSet, Range
<1>3. S \subseteq Nat BY <1>1
<1> HIDE DEF S
<1>4. PICK x \in S : \A y \in S : <<y, x>> \notin OpToRel(<, Nat)
  BY <1>2, <1>3, NatLessThanWellFounded, WFMin
<1>5. \A y \in S : ~ (y < x) BY <1>3, <1>4 DEF OpToRel
<1>6. \A y \in S : x <= y BY <1>3, <1>5
<1>7. Min(S) \in S BY <1>6 DEF Min
<1> QED BY <1>7 DEF S, Candidate

\* What is collected are paths of files.
LEMMA CollectedExist == \A p \in collect_files : p \in PathSet /\ files[p] # "none"
BY DEF collect_files, PathSet, Range

\* Right rows for what is collected, and none beside.
RowsSettled ==
  /\ OneRowPerPath(rows) /\ {r.path : r \in rows} \subseteq collect_files
  /\ \A p \in collect_files : files[p] # "big" => RowRight(p)

\* With them the index says what the tree says.
LEMMA RightSettles == RowsSettled => IndexSettles
<1> SUFFICES ASSUME RowsSettled PROVE IndexSettles
  OBVIOUS
<1> USE DEF RowsSettled
<1>1. ASSUME NEW p \in collect_files PROVE Cardinality(RowsOf(p)) <= 1
  <2>1. \A r, s \in RowsOf(p) : r = s BY DEF OneRowPerPath, RowsOf
  <2>2. CASE RowsOf(p) = {} BY <2>2, FS_EmptySet
  <2>3. CASE RowsOf(p) # {}
    <3>1. PICK r : r \in RowsOf(p) BY <2>3
    <3>2. RowsOf(p) = {r} BY <2>1, <3>1
    <3>3. Cardinality({r}) = 1 BY FS_Singleton
    <3>4. Cardinality(RowsOf(p)) = 1 BY <3>2, <3>3
    <3> QED BY <3>4
  <2> QED BY <2>2, <2>3
<1>2. ASSUME NEW p \in collect_files, files[p] # "big"
      PROVE  \E r \in RowsOf(p) :
               r.hash = files[p] /\ {s.of : s \in {x \in symbols : x.row = r.id}} = {files[p]}
               /\ Cardinality({s \in symbols : s.row = r.id}) = 1
  <2>1. PICK r \in RowsOf(p) : r.hash = files[p] /\ Indexed(r) BY <1>2 DEF RowRight
  <2>2. PICK s : SymbolsOf(r.id) = {s} /\ s.of = r.hash BY <2>1 DEF Indexed
  <2>3. {x \in symbols : x.row = r.id} = {s} BY <2>2 DEF SymbolsOf
  <2>4. Cardinality({x \in symbols : x.row = r.id}) = 1 BY <2>3, FS_Singleton
  <2>5. {x.of : x \in {x \in symbols : x.row = r.id}} = {files[p]} BY <2>1, <2>2, <2>3
  <2> QED BY <2>1, <2>4, <2>5
<1> QED BY <1>1, <1>2 DEF IndexSettles

\* The first index is that of a full pass.
LEMMA WorkspaceStarts == WorkspaceInit => WorkspaceInv
<1> SUFFICES ASSUME WorkspaceInit PROVE WorkspaceInv
  OBVIOUS
<1>1. files = Tree /\ pass = [n \in Passes |-> Idle] /\ indexed = "full" /\ overlapped = FALSE
      /\ rows = {[id |-> <<0, p>>, path |-> p, hash |-> Tree[p]] : p \in {q \in collect_files : Tree[q] # "big"}}
      /\ symbols = {[row |-> r.id, of |-> r.hash, by |-> 0] : r \in rows}
  BY DEF WorkspaceInit
<1>2. collect_files \subseteq PathSet BY CollectedExist
<1> DEFINE R(p) == [id |-> <<0, p>>, path |-> p, hash |-> Tree[p]]
           S(r) == [row |-> r.id, of |-> r.hash, by |-> 0]
<1>3. \A p \in PathSet : RowOK(R(p)) /\ R(p).path = p /\ R(p).id = <<0, p>> /\ R(p).hash = Tree[p] BY DEF RowOK
<1>4. \A r : S(r).row = r.id /\ S(r).of = r.hash OBVIOUS
<1>5. rows = {R(p) : p \in {q \in collect_files : Tree[q] # "big"}} /\ symbols = {S(r) : r \in rows} BY <1>1
<1> HIDE DEF R, S
<1>6. OneRowPerPath(rows) BY <1>2, <1>3, <1>5 DEF OneRowPerPath
<1>7. \A r, q \in rows : r.id = q.id => r = q BY <1>2, <1>3, <1>5
<1>8. \A r \in rows : SymbolsOf(r.id) = {S(r)} BY <1>4, <1>5, <1>7 DEF SymbolsOf
<1>9. \A r \in rows : Indexed(r) BY <1>4, <1>8 DEF Indexed
<1>10. PassKind(Idle) /\ Idle.pc = "idle" /\ Idle.existing = {} BY DEF PassKind, Idle
<1>11. WorkspaceKinds
  <2>1. \A s \in symbols : \E r \in rows : r.id = s.row BY <1>4, <1>5
  <2> QED BY <1>1, <1>6, <1>10, <2>1 DEF WorkspaceKinds, OneRowPerPath
<1>12. \A n \in Passes : ~ Active(n) BY <1>1, <1>10 DEF Active
<1>13. \A p \in collect_files : files[p] # "big" => RowRight(p)
  BY <1>1, <1>2, <1>3, <1>5, <1>9 DEF RowRight, RowsOf
<1>14. {r.path : r \in rows} \subseteq collect_files BY <1>2, <1>3, <1>5
<1>15. IndexSettles BY <1>6, <1>13, <1>14, RightSettles DEF RowsSettled
<1> QED BY <1>1, <1>9, <1>11, <1>12, <1>15 DEF WorkspaceInv, PassOK

-----------------------------------------------------------------------------
\* What a change of the tree leaves: nobody is alone any more, the index is outdated.
LEMMA ChangeKeepsIndex ==
  ASSUME WorkspaceInv, NEW f, Change(f), UNCHANGED <<rows, symbols, overlapped>>
  PROVE  WorkspaceInv'
<1>1. CASE f = files
  <2>1. UNCHANGED <<files, indexed, pass>> BY <1>1 DEF Change
  <2>2. \A n \in Passes : PassOK(n)' = PassOK(n)
    BY <2>1 DEF PassOK, Sole, PassKnows, PassSettles, RowRight, Indexed, SymbolsOf, Active, Existing, RowsOf,
                Candidate, collect_files
  <2>3. WorkspaceKinds' BY <2>1 DEF WorkspaceInv, WorkspaceKinds
  <2>4. IndexSettles' = IndexSettles BY <2>1 DEF IndexSettles, collect_files, RowsOf
  <2>5. (\A n \in Passes : Active(n)' = Active(n)) /\ \A r \in rows : Indexed(r)' = Indexed(r)
    BY <2>1 DEF Active, Indexed, SymbolsOf
  <2> QED BY <2>1, <2>2, <2>3, <2>4, <2>5 DEF WorkspaceInv
<1>2. CASE f # files
  <2>1. indexed' = "no" /\ pass' = [n \in Passes |-> [pass[n] EXCEPT !.alone = FALSE]]
    BY <1>2 DEF Change
  <2>2. ASSUME NEW n \in Passes
        PROVE  /\ PassKind(pass'[n]) /\ pass'[n].alone = FALSE
               /\ pass'[n].pc = pass[n].pc /\ pass'[n].todo = pass[n].todo /\ pass'[n].seen = pass[n].seen
               /\ pass'[n].existing = pass[n].existing /\ pass'[n].old = pass[n].old
    BY <2>1 DEF WorkspaceInv, WorkspaceKinds, PassKind
  <2>3. \A n \in Passes : /\ Active(n)' = Active(n) /\ Candidate(n)' = Candidate(n)
                          /\ \A p : Existing(n, p)' = Existing(n, p)
    BY <2>2 DEF Active, Candidate, Existing
  <2>4. WorkspaceKinds' BY <2>1, <2>2 DEF WorkspaceInv, WorkspaceKinds
  <2>5. ASSUME NEW n \in Passes PROVE PassOK(n)'
    <3>a. overlapped' = overlapped OBVIOUS
    <3>b. ~ pass'[n].alone BY <2>2
    <3>1. ASSUME Sole(n)' PROVE Sole(n)
      <4>1. ~ overlapped' BY <3>1, <3>b DEF Sole
      <4>2. ~ overlapped BY <3>a, <4>1
      <4> QED BY <4>2 DEF Sole
    <3>2. ASSUME PassKnows(n) PROVE PassKnows(n)'
      <4>1. \A m \in Passes \ {n} : ~ Active(m)' BY <2>3, <3>2 DEF PassKnows
      <4>2. (\A p : RowsOf(p)' = RowsOf(p)) /\ \A i : SymbolsOf(i)' = SymbolsOf(i) BY DEF RowsOf, SymbolsOf
      <4>3. \A p \in PathSet \ pass'[n].seen : RowsOf(p)' = Existing(n, p)'
        BY <2>2, <2>3, <3>2, <4>2 DEF PassKnows
      <4>4. pass'[n].pc = "commit" =>
              \A r \in Existing(n, Candidate(n))' : pass'[n].old = SymbolsOf(r.id)'
        <5>1. Existing(n, Candidate(n))' = Existing(n, Candidate(n)) BY <2>2, <2>3 DEF Existing
        <5> QED BY <2>2, <3>2, <4>2, <5>1 DEF PassKnows
      <4> QED BY <4>1, <4>3, <4>4 DEF PassKnows
    <3>3. PassOK(n) BY DEF WorkspaceInv
    <3> QED BY <2>2, <2>3, <3>1, <3>2, <3>3 DEF PassOK
  <2> QED BY <2>1, <2>3, <2>4, <2>5 DEF WorkspaceInv, Indexed, SymbolsOf, IndexSettles
<1> QED BY <1>1, <1>2

\* Every step of an editor is such a change.
LEMMA EditorChanges == ASSUME EditorStep PROVE \E f : Change(f) /\ UNCHANGED <<rows, symbols, overlapped>>
<1>1. PICK e \in Editors :
       \/ \E p \in PathSet : (\E t \in Texts : OpenTemp(e, p, t)) \/ Touch(e, p) \/ Unlink(e, p)
       \/ \E p, q \in PathSet : AskRename(e, p, q)
       \/ Fill(e) \/ PublishSave(e) \/ Rename(e)
  BY DEF EditorStep
<1>2. UNCHANGED <<rows, symbols, overlapped>> BY DEF EditorStep
<1>3. \E f : Change(f)
  <2>1. ASSUME NEW p \in PathSet, NEW t \in Texts, OpenTemp(e, p, t) PROVE \E f : Change(f)
    BY <2>1 DEF OpenTemp
  <2>2. ASSUME NEW p \in PathSet, Touch(e, p) PROVE \E f : Change(f) BY <2>2 DEF Touch
  <2>3. ASSUME NEW p \in PathSet, Unlink(e, p) PROVE \E f : Change(f) BY <2>3 DEF Unlink
  <2>4. ASSUME NEW p \in PathSet, NEW q \in PathSet, AskRename(e, p, q) PROVE \E f : Change(f)
    BY <2>4 DEF AskRename
  <2>5. CASE Fill(e) BY <2>5 DEF Fill
  <2>6. CASE PublishSave(e) BY <2>6 DEF PublishSave
  <2>7. CASE Rename(e) BY <2>7 DEF Rename
  <2> QED BY <1>1, <2>1, <2>2, <2>3, <2>4, <2>5, <2>6, <2>7
<1> QED BY <1>2, <1>3

\* The other passes when one moves: nobody else is alone, or the first to overlap.
LEMMA OtherPasses ==
  ASSUME WorkspaceInv, NEW n \in Passes, NEW m \in Passes \ {n}, Active(n),
         pass'[m] = pass[m], overlapped' = overlapped
  PROVE  PassOK(m)'
<1>1. ASSUME Active(m) PROVE ~ Sole(m) /\ pass[m].alone = FALSE
  <2>1. PassOK(m) /\ pass[m].alone \in BOOLEAN BY DEF WorkspaceInv, WorkspaceKinds, PassKind
  <2>2. ~ PassKnows(m) BY DEF PassKnows
  <2> QED BY <1>1, <2>1, <2>2 DEF PassOK, Sole
<1>2. Active(m)' = Active(m) /\ Candidate(m)' = Candidate(m) /\ Sole(m)' = Sole(m)
      /\ \A p : Existing(m, p)' = Existing(m, p)
  BY DEF Active, Candidate, Existing, Sole
<1>3. PassOK(m) BY DEF WorkspaceInv
<1> QED BY <1>1, <1>2, <1>3 DEF PassOK

\* A pass begins with the rows as they are, and disturbs those under way.
LEMMA BeginKeepsIndex ==
  ASSUME WorkspaceInv, NEW n \in Passes, NEW full \in BOOLEAN, BeginPass(n, full) PROVE WorkspaceInv'
<1> DEFINE others == {m \in Passes : Active(m)}
           mine == [Idle EXCEPT !.pc = "read", !.full = full, !.todo = collect_files,
                                !.existing = rows, !.alone = others = {}]
<1>1. /\ pass[n].pc = "idle" /\ indexed' = "no" /\ UNCHANGED <<files, rows, symbols>>
      /\ overlapped' = (overlapped \/ others # {})
      /\ pass' = [m \in Passes |-> IF m = n THEN mine ELSE [pass[m] EXCEPT !.alone = FALSE]]
  BY DEF BeginPass, fileVars
<1>2. /\ mine.pc = "read" /\ mine.full = full /\ mine.todo = collect_files /\ mine.seen = {}
      /\ mine.existing = rows /\ mine.alone = (others = {})
  BY DEF Idle
<1>3. collect_files \subseteq PathSet /\ collect_files' = collect_files
  BY <1>1, CollectedExist DEF collect_files
<1>4. PassKind(mine) BY <1>3 DEF PassKind, Idle
<1>5. ~ Active(n) BY <1>1 DEF Active
<1> HIDE DEF mine
<1>6. ASSUME NEW m \in Passes \ {n}
      PROVE  /\ PassKind(pass'[m]) /\ pass'[m].alone = FALSE
             /\ pass'[m].pc = pass[m].pc /\ pass'[m].todo = pass[m].todo /\ pass'[m].seen = pass[m].seen
             /\ pass'[m].existing = pass[m].existing /\ pass'[m].old = pass[m].old
  BY <1>1 DEF WorkspaceInv, WorkspaceKinds, PassKind
<1>7. pass'[n] = mine BY <1>1
<1>8. WorkspaceKinds'
  <2>1. pass' = [m \in Passes |-> pass'[m]] BY <1>1
  <2>2. \A m \in Passes : PassKind(pass'[m]) /\ OneRowPerPath(pass'[m].existing)
    BY <1>2, <1>4, <1>6, <1>7 DEF WorkspaceInv, WorkspaceKinds
  <2>3. overlapped' \in BOOLEAN BY <1>1 DEF WorkspaceInv, WorkspaceKinds
  <2> QED BY <1>1, <2>1, <2>2, <2>3 DEF WorkspaceInv, WorkspaceKinds
<1>9. PassOK(n)'
  <2>1. \A p : Existing(n, p)' = RowsOf(p)' BY <1>1, <1>2, <1>7 DEF Existing, RowsOf
  <2>2. Sole(n)' => others = {} BY <1>1, <1>2, <1>7 DEF Sole
  <2>3. others = {} => \A m \in Passes \ {n} : ~ Active(m)' BY <1>6 DEF Active
  <2>4. Sole(n)' => PassKnows(n)' BY <1>2, <1>7, <2>1, <2>2, <2>3 DEF PassKnows
  <2>5. PassSettles(n)' BY <1>2, <1>3, <1>7 DEF PassSettles
  <2> QED BY <1>2, <1>7, <2>4, <2>5 DEF PassOK
<1>10. ASSUME NEW m \in Passes \ {n} PROVE PassOK(m)'
  <2>1. Active(m)' = Active(m) /\ Candidate(m)' = Candidate(m) /\ \A p : Existing(m, p)' = Existing(m, p)
    BY <1>6 DEF Active, Candidate, Existing
  <2>2. Active(m) => ~ Sole(m)' BY <1>1, <1>6 DEF Sole
  <2>3. PassOK(m) BY DEF WorkspaceInv
  <2> QED BY <1>6, <2>1, <2>2, <2>3 DEF PassOK
<1>11. ~ overlapped' => \A r \in rows' : Indexed(r)'
  BY <1>1 DEF WorkspaceInv, Indexed, SymbolsOf
<1> QED BY <1>1, <1>8, <1>9, <1>10, <1>11 DEF WorkspaceInv, IndexSettles

\* A step of a pass that leaves the rows alone.
LEMMA QuietKeepsIndex ==
  ASSUME WorkspaceInv, NEW n \in Passes, Active(n), NEW q, PassKind(q), OneRowPerPath(q.existing),
         pass' = [pass EXCEPT ![n] = q], UNCHANGED <<files, rows, symbols, indexed, overlapped>>, PassOK(n)'
  PROVE  WorkspaceInv'
<1>1. pass'[n] = q /\ \A m \in Passes \ {n} : pass'[m] = pass[m] BY DEF WorkspaceInv, WorkspaceKinds
<1>2. WorkspaceKinds' BY <1>1 DEF WorkspaceInv, WorkspaceKinds
<1>3. \A m \in Passes \ {n} : PassOK(m)' BY <1>1, OtherPasses
<1>4. indexed = "no" BY DEF WorkspaceInv
<1> QED BY <1>2, <1>3, <1>4 DEF WorkspaceInv, Indexed, SymbolsOf, IndexSettles

\* What a pass that ends, dies or fails leaves.
LEMMA OverIsKind == PassKind(Over) /\ OneRowPerPath(Over.existing) /\ Over.pc = "ended" /\ Over.alone = FALSE
BY DEF PassKind, Over, Idle, OneRowPerPath

LEMMA DeathKeepsIndex ==
  ASSUME WorkspaceInv, NEW n \in Passes, Active(n), pass' = [pass EXCEPT ![n] = Over],
         UNCHANGED <<files, rows, symbols, indexed, overlapped>>
  PROVE  WorkspaceInv'
<1>1. pass'[n] = Over BY DEF WorkspaceInv, WorkspaceKinds
<1>2. PassOK(n)' BY <1>1, OverIsKind DEF PassOK, Active
<1> QED BY <1>2, OverIsKind, QuietKeepsIndex

\* The fields of a pass that goes on to the next file.
LEMMA PastFields ==
  ASSUME WorkspaceInv, NEW n \in Passes, pass[n].todo # {}
  PROVE  /\ Candidate(n) \in pass[n].todo /\ Candidate(n) \in PathSet
         /\ PassKind(Past(n)) /\ Past(n).pc = "read" /\ Past(n).todo = pass[n].todo \ {Candidate(n)}
         /\ Past(n).seen = pass[n].seen \cup {Candidate(n)} /\ Past(n).existing = pass[n].existing
         /\ Past(n).full = pass[n].full /\ Past(n).alone = pass[n].alone
         /\ OneRowPerPath(Past(n).existing)
<1>1. PassKind(pass[n]) /\ OneRowPerPath(pass[n].existing) BY DEF WorkspaceInv, WorkspaceKinds
<1>2. pass[n].todo \subseteq PathSet BY <1>1 DEF PassKind
<1>3. Candidate(n) \in pass[n].todo BY <1>2, CandidateIsLeft
<1> QED BY <1>1, <1>2, <1>3 DEF Past, PassKind

\* A pass that is done with its candidate is as it should be, if the candidate's rows
\* are, the others' are untouched, and nothing else has happened.
LEMMA PastIsOK ==
  ASSUME WorkspaceInv, NEW n \in Passes, Active(n), pass[n].todo # {}, NEW c, c = Candidate(n),
         pass' = [pass EXCEPT ![n] = Past(n)], UNCHANGED <<files, overlapped>>,
         Sole(n) => \A p \in PathSet \ {c} : RowsOf(p)' = RowsOf(p)
                      /\ \A r \in RowsOf(p) : Indexed(r) => Indexed(r)',
         pass[n].alone /\ (pass[n].full \/ ~ overlapped) /\ files[c] # "big" => RowRight(c)'
  PROVE  PassOK(n)'
<1>1. pass'[n] = Past(n) /\ \A m \in Passes \ {n} : pass'[m] = pass[m] BY DEF WorkspaceInv, WorkspaceKinds
<1>2. /\ c \in pass[n].todo /\ c \in PathSet
      /\ Past(n).pc = "read" /\ Past(n).todo = pass[n].todo \ {c}
      /\ Past(n).seen = pass[n].seen \cup {c} /\ Past(n).existing = pass[n].existing
      /\ Past(n).full = pass[n].full /\ Past(n).alone = pass[n].alone
  BY PastFields
<1>3. PassOK(n) BY DEF WorkspaceInv
<1>4. pass'[n].todo \cap pass'[n].seen = {} BY <1>1, <1>2, <1>3 DEF PassOK
<1>5. Sole(n)' = Sole(n) BY <1>1, <1>2 DEF Sole
<1>6. Sole(n)' => PassKnows(n)'
  <2> SUFFICES ASSUME Sole(n) PROVE PassKnows(n)'
    BY <1>5
  <2>1. PassKnows(n) BY <1>3 DEF PassOK
  <2>2. \A m \in Passes \ {n} : ~ Active(m)' BY <1>1, <2>1 DEF PassKnows, Active
  <2>3. \A p \in PathSet \ pass'[n].seen : RowsOf(p)' = Existing(n, p)'
    <3>1. \A p : Existing(n, p)' = Existing(n, p) BY <1>1, <1>2 DEF Existing
    <3>2. \A p \in PathSet \ pass'[n].seen : p \in PathSet \ pass[n].seen /\ p # c BY <1>1, <1>2
    <3> QED BY <2>1, <3>1, <3>2 DEF PassKnows
  <2> QED BY <1>1, <1>2, <2>2, <2>3 DEF PassKnows
<1>7. pass'[n].alone => PassSettles(n)'
  <2> SUFFICES ASSUME pass[n].alone PROVE PassSettles(n)'
    BY <1>1, <1>2
  <2>1. PassSettles(n) /\ Sole(n) BY <1>3 DEF PassOK, Sole
  <2>2. collect_files' = collect_files BY DEF collect_files
  <2>3. pass'[n].todo \cup pass'[n].seen = collect_files' BY <1>1, <1>2, <2>1, <2>2 DEF PassSettles
  <2>4. ASSUME pass[n].full \/ ~ overlapped, NEW p \in pass'[n].seen, files[p] # "big" PROVE RowRight(p)'
    <3>1. CASE p = c BY <2>4, <3>1
    <3>2. CASE p # c
      <4>1. p \in pass[n].seen BY <1>1, <1>2, <3>2
      <4>2. RowRight(p) BY <2>1, <2>4, <4>1 DEF PassSettles
      <4>3. p \in PathSet BY <4>1 DEF WorkspaceInv, WorkspaceKinds, PassKind
      <4>4. PICK r \in RowsOf(p) : r.hash = files[p] /\ Indexed(r) BY <4>2 DEF RowRight
      <4>5. r \in RowsOf(p)' /\ Indexed(r)' BY <2>1, <3>2, <4>3, <4>4
      <4> QED BY <4>4, <4>5 DEF RowRight
    <3> QED BY <3>1, <3>2
  <2> QED BY <1>1, <1>2, <2>3, <2>4 DEF PassSettles
<1> QED BY <1>1, <1>2, <1>4, <1>6, <1>7 DEF PassOK

\* Reading a candidate.
LEMMA ReadKeepsIndex == ASSUME WorkspaceInv, NEW n \in Passes, ReadFile(n) PROVE WorkspaceInv'
<1>a. PICK c : c = Candidate(n) OBVIOUS
<1> DEFINE content == files[c]
           same == \E r \in Existing(n, c) : r.hash = content
           on == [pass[n] EXCEPT !.pc = IF Existing(n, c) = {} THEN "commit" ELSE "delete", !.hash = content]
<1>1. pass[n].pc = "read" /\ pass[n].todo # {} /\ UNCHANGED <<files, rows, symbols, indexed, overlapped>>
  BY DEF ReadFile, fileVars
<1>2. Active(n) /\ PassOK(n) /\ PassKind(pass[n]) /\ OneRowPerPath(pass[n].existing)
  BY <1>1 DEF Active, WorkspaceInv, WorkspaceKinds
<1>3. c \in pass[n].todo /\ c \in PathSet BY <1>a, <1>1, PastFields
<1>4. CASE (content \in {"none", "big"} \/ (same /\ ~ pass[n].full)) /\ pass' = [pass EXCEPT ![n] = Past(n)]
  <2>1. ASSUME pass[n].alone, pass[n].full \/ ~ overlapped, content # "big" PROVE RowRight(c)'
    <3>1. PassSettles(n) /\ PassKnows(n) /\ pass[n].todo \cap pass[n].seen = {}
      BY <1>2, <2>1 DEF PassOK, Sole
    <3>2. content # "none" BY <1>3, <3>1, CollectedExist DEF PassSettles
    <3>3. same /\ ~ overlapped BY <1>4, <2>1, <3>2
    <3>4. RowsOf(c) = Existing(n, c) BY <1>3, <3>1 DEF PassKnows
    <3>5. PICK r \in RowsOf(c) : r.hash = content BY <3>3, <3>4
    <3>6. Indexed(r) BY <3>3, <3>5 DEF WorkspaceInv, RowsOf
    <3>7. RowRight(c) BY <3>5, <3>6 DEF RowRight
    <3> QED BY <1>1, <3>7 DEF RowRight, Indexed, SymbolsOf, RowsOf
  <2>2. \A p \in PathSet \ {c} : RowsOf(p)' = RowsOf(p) /\ \A r \in RowsOf(p) : Indexed(r) => Indexed(r)'
    BY <1>1 DEF RowsOf, Indexed, SymbolsOf
  <2>3. PassOK(n)' BY <1>a, <1>1, <1>2, <1>4, <2>1, <2>2, PastIsOK
  <2> QED BY <1>1, <1>2, <1>4, <2>3, PastFields, QuietKeepsIndex
<1>5. CASE ~ (content \in {"none", "big"}) /\ pass' = [pass EXCEPT ![n] = on]
  <2>1. /\ PassKind(on) /\ on.existing = pass[n].existing /\ on.todo = pass[n].todo /\ on.seen = pass[n].seen
        /\ on.full = pass[n].full /\ on.alone = pass[n].alone /\ on.hash = content
        /\ on.pc = IF Existing(n, c) = {} THEN "commit" ELSE "delete"
    BY <1>2 DEF PassKind
  <2> HIDE DEF on
  <2>2. pass'[n] = on /\ \A m \in Passes \ {n} : pass'[m] = pass[m] BY <1>5 DEF WorkspaceInv, WorkspaceKinds
  <2>3. /\ Candidate(n)' = c /\ (\A p : Existing(n, p)' = Existing(n, p)) /\ Sole(n)' = Sole(n)
        /\ collect_files' = collect_files /\ (\A p : RowsOf(p)' = RowsOf(p))
        /\ \A m \in Passes \ {n} : Active(m)' = Active(m)
        /\ \A p : RowRight(p)' = RowRight(p)
    BY <1>a, <1>1, <2>1, <2>2 DEF Candidate, Existing, Sole, collect_files, RowsOf, Active, RowRight, Indexed, SymbolsOf
  <2>4. Sole(n) => PassKnows(n)'
    BY <1>a, <1>2, <2>1, <2>2, <2>3 DEF PassOK, PassKnows
  <2>5. pass[n].alone => PassSettles(n)'
    BY <1>a, <1>1, <1>2, <2>1, <2>2, <2>3 DEF PassOK, PassSettles
  <2>6. PassOK(n)' BY <1>a, <1>1, <1>2, <2>1, <2>2, <2>3, <2>4, <2>5 DEF PassOK
  <2> QED BY <1>1, <1>2, <1>5, <2>1, <2>6, QuietKeepsIndex
<1> QED BY <1>a, <1>4, <1>5 DEF ReadFile

\* The symbols of the one row of a path are what is deleted.
LEMMA DeleteKeepsIndex == ASSUME WorkspaceInv, NEW n \in Passes, DeleteSymbols(n) PROVE WorkspaceInv'
<1>a. PICK c : c = Candidate(n) OBVIOUS
<1> DEFINE r == CHOOSE x \in Existing(n, c) : TRUE
           on == [pass[n] EXCEPT !.pc = "commit", !.old = {s \in symbols : s.row = r.id}]
<1>1. pass[n].pc = "delete" /\ UNCHANGED <<files, rows, symbols, indexed, overlapped>>
      /\ pass' = [pass EXCEPT ![n] = on]
  BY <1>a DEF DeleteSymbols, fileVars
<1>2. Active(n) /\ PassOK(n) /\ PassKind(pass[n]) /\ OneRowPerPath(pass[n].existing)
  BY <1>1 DEF Active, WorkspaceInv, WorkspaceKinds
<1>3. /\ PassKind(on) /\ on.existing = pass[n].existing /\ on.todo = pass[n].todo /\ on.seen = pass[n].seen
      /\ on.full = pass[n].full /\ on.alone = pass[n].alone /\ on.hash = pass[n].hash
      /\ on.pc = "commit" /\ on.old = SymbolsOf(r.id)
  BY <1>2 DEF PassKind, SymbolsOf
<1>4. \A x \in Existing(n, c) : x = r
  BY <1>2 DEF OneRowPerPath, Existing
<1> HIDE DEF on, r
<1>5. pass'[n] = on /\ \A m \in Passes \ {n} : pass'[m] = pass[m] BY <1>1 DEF WorkspaceInv, WorkspaceKinds
<1>6. /\ Candidate(n)' = c /\ (\A p : Existing(n, p)' = Existing(n, p)) /\ Sole(n)' = Sole(n)
      /\ collect_files' = collect_files /\ (\A p : RowsOf(p)' = RowsOf(p))
      /\ (\A m \in Passes \ {n} : Active(m)' = Active(m))
      /\ (\A p : RowRight(p)' = RowRight(p)) /\ \A i : SymbolsOf(i)' = SymbolsOf(i)
  BY <1>a, <1>1, <1>3, <1>5 DEF Candidate, Existing, Sole, collect_files, RowsOf, Active, RowRight, Indexed, SymbolsOf
<1>7. Sole(n) => PassKnows(n)' BY <1>a, <1>2, <1>3, <1>4, <1>5, <1>6 DEF PassOK, PassKnows
<1>8. pass[n].alone => PassSettles(n)' BY <1>a, <1>1, <1>2, <1>3, <1>5, <1>6 DEF PassOK, PassSettles
<1>9. PassOK(n)' BY <1>a, <1>1, <1>2, <1>3, <1>5, <1>6, <1>7, <1>8 DEF PassOK
<1> QED BY <1>1, <1>2, <1>3, <1>9, QuietKeepsIndex

\* A file is committed: its row and symbols are new, those of other paths stay.
LEMMA InsertKeepsRows ==
  ASSUME WorkspaceInv, NEW c \in PathSet, NEW k \in Nat, NEW h, NEW by, RowsOf(c) = {},
         rows' = rows \cup {[id |-> <<k, c>>, path |-> c, hash |-> h]},
         symbols' = symbols \cup {[row |-> <<k, c>>, of |-> h, by |-> by]}
  PROVE  /\ OneRowPerPath(rows') /\ \A s \in symbols' : \E r \in rows' : r.id = s.row
         /\ \A p \in PathSet \ {c} : RowsOf(p)' = RowsOf(p)
         /\ \A r \in rows : r.path # c /\ (Indexed(r) => Indexed(r)')
         /\ \E r \in RowsOf(c)' : r.hash = h /\ Indexed(r)'
         /\ \A r \in rows' : r \in rows \/ Indexed(r)'
<1> DEFINE r1 == [id |-> <<k, c>>, path |-> c, hash |-> h]
           s1 == [row |-> <<k, c>>, of |-> h, by |-> by]
<1>1. r1.id = <<k, c>> /\ r1.path = c /\ r1.hash = h /\ s1.row = <<k, c>> /\ s1.of = h OBVIOUS
<1>2. RowOK(r1) BY DEF RowOK
<1>3. rows' = rows \cup {r1} /\ symbols' = symbols \cup {s1} OBVIOUS
<1> HIDE DEF r1, s1
<1>4. /\ OneRowPerPath(rows) /\ (\A s \in symbols : \E r \in rows : r.id = s.row)
      /\ \A r \in rows : r.path # c
  BY DEF WorkspaceInv, WorkspaceKinds, RowsOf
<1>5. \A r \in rows : r.id # <<k, c>> BY <1>4 DEF OneRowPerPath, RowOK
<1>6. OneRowPerPath(rows') BY <1>1, <1>2, <1>3, <1>4 DEF OneRowPerPath
<1>7. \A s \in symbols' : \E r \in rows' : r.id = s.row BY <1>1, <1>3, <1>4
<1>8. \A p \in PathSet \ {c} : RowsOf(p)' = RowsOf(p) BY <1>1, <1>3 DEF RowsOf
<1>9. \A r \in rows : SymbolsOf(r.id)' = SymbolsOf(r.id) BY <1>1, <1>3, <1>5 DEF SymbolsOf
<1>10. \A r \in rows : Indexed(r) => Indexed(r)' BY <1>9 DEF Indexed
<1>11. Indexed(r1)'
  <2>1. \A s \in symbols : s.row # <<k, c>> BY <1>4, <1>5
  <2>2. {s \in symbols' : s.row = r1.id} = {s1} BY <1>1, <1>3, <2>1
  <2>3. SymbolsOf(<<k, c>>)' = {s1} BY <1>1, <2>2 DEF SymbolsOf
  <2> QED BY <1>1, <2>3 DEF Indexed
<1>12. r1 \in RowsOf(c)' BY <1>1, <1>3 DEF RowsOf
<1> QED BY <1>1, <1>3, <1>4, <1>6, <1>7, <1>8, <1>10, <1>11, <1>12

\* The rows when the one like r has a new hash.
Rehashed(r, h) == {IF x.id = r.id /\ r.hash # h THEN [x EXCEPT !.hash = h] ELSE x : x \in rows}

\* The row of a path gets its content's hash, unless it had that one, and loses the
\* symbols `gone` for a new one.
LEMMA UpdateKeepsRows ==
  ASSUME WorkspaceInv, NEW r, RowOK(r), NEW h, NEW by, NEW gone, \E x \in rows : x.id = r.id,
         rows' = Rehashed(r, h),
         symbols' = (symbols \ gone) \cup {[row |-> r.id, of |-> h, by |-> by]}
  PROVE  /\ OneRowPerPath(rows') /\ \A s \in symbols' : \E x \in rows' : x.id = s.row
         /\ r \in rows /\ gone = SymbolsOf(r.id) =>
              /\ \A p \in PathSet \ {r.path} : RowsOf(p)' = RowsOf(p)
              /\ \A x \in rows : x.path # r.path /\ Indexed(x) => Indexed(x)'
              /\ \E x \in RowsOf(r.path)' : x.hash = h /\ Indexed(x)'
              /\ \A x \in rows' : (x \in rows /\ x.path # r.path) \/ Indexed(x)'
<1> DEFINE New(x) == IF x.id = r.id /\ r.hash # h THEN [x EXCEPT !.hash = h] ELSE x
           s1 == [row |-> r.id, of |-> h, by |-> by]
<1>1. OneRowPerPath(rows) /\ \A s \in symbols : \E x \in rows : x.id = s.row
  BY DEF WorkspaceInv, WorkspaceKinds
<1>2. \A x \in rows : RowOK(x) BY <1>1 DEF OneRowPerPath
<1>3. \A x \in rows : /\ RowOK(New(x)) /\ New(x).id = x.id /\ New(x).path = x.path
                      /\ x.id = r.id /\ r.hash # h => New(x).hash = h
                      /\ x.id # r.id \/ r.hash = h => New(x) = x
  BY <1>2 DEF RowOK
<1>4. s1.row = r.id /\ s1.of = h OBVIOUS
<1>5. rows' = {New(x) : x \in rows} /\ symbols' = (symbols \ gone) \cup {s1} BY DEF Rehashed
<1> HIDE DEF New, s1
<1>6. OneRowPerPath(rows')
  <2>1. \A x \in rows' : RowOK(x) BY <1>3, <1>5
  <2>2. ASSUME NEW x \in rows, NEW y \in rows, New(x).path = New(y).path PROVE New(x) = New(y)
    <3>1. x = y BY <1>1, <1>3, <2>2 DEF OneRowPerPath
    <3> QED BY <3>1
  <2> QED BY <1>5, <2>1, <2>2 DEF OneRowPerPath
<1>7. \A s \in symbols' : \E x \in rows' : x.id = s.row
  <2>1. \A s \in symbols : \E x \in rows : x.id = s.row BY <1>1
  <2>2. \A x \in rows : \E y \in rows' : y.id = x.id BY <1>3, <1>5
  <2> QED BY <1>4, <1>5, <2>1, <2>2
<1>8. ASSUME r \in rows, gone = SymbolsOf(r.id)
      PROVE  /\ \A p \in PathSet \ {r.path} : RowsOf(p)' = RowsOf(p)
             /\ \A x \in rows : x.path # r.path /\ Indexed(x) => Indexed(x)'
             /\ \E x \in RowsOf(r.path)' : x.hash = h /\ Indexed(x)'
             /\ \A x \in rows' : (x \in rows /\ x.path # r.path) \/ Indexed(x)'
  <2>1. \A x \in rows : x.path # r.path => x.id # r.id BY <1>2 DEF RowOK
  <2>2. \A x \in rows : x.path = r.path => x = r BY <1>1, <1>8 DEF OneRowPerPath
  <2>3. \A p \in PathSet \ {r.path} : RowsOf(p)' = RowsOf(p) BY <1>3, <1>5, <2>1 DEF RowsOf
  <2>4. \A x \in rows : x.path # r.path => SymbolsOf(x.id)' = SymbolsOf(x.id)
    BY <1>4, <1>5, <1>8, <2>1 DEF SymbolsOf
  <2>5. \A x \in rows : x.path # r.path /\ Indexed(x) => Indexed(x)' BY <2>4 DEF Indexed
  <2>6. PICK y : y = New(r) OBVIOUS
  <2>7. y.hash = h /\ y.id = r.id /\ y.path = r.path /\ y \in rows' BY <1>3, <1>5, <1>8, <2>6
  <2>8. Indexed(y)'
    <3>1. {s \in symbols' : s.row = r.id} = {s1} BY <1>4, <1>5, <1>8 DEF SymbolsOf
    <3>2. SymbolsOf(y.id)' = {s1} BY <2>7, <3>1 DEF SymbolsOf
    <3> QED BY <1>4, <2>7, <3>2 DEF Indexed
  <2>9. \A x \in rows' : (x \in rows /\ x.path # r.path) \/ x = y BY <1>3, <1>5, <2>1, <2>2, <2>6
  <2> QED BY <2>3, <2>5, <2>7, <2>8, <2>9 DEF RowsOf
<1> QED BY <1>6, <1>7, <1>8

\* A step of a pass that is done with its candidate, whose rows it has put in.
LEMMA CommitKeepsIndex == ASSUME WorkspaceInv, NEW n \in Passes, CommitFile(n) PROVE WorkspaceInv'
<1>a. PICK c : c = Candidate(n) OBVIOUS
<1>b. PICK h : h = pass[n].hash OBVIOUS
<1>1. pass[n].pc = "commit" /\ UNCHANGED <<files, indexed, overlapped>> BY DEF CommitFile, fileVars
<1>2. Active(n) /\ PassOK(n) /\ OneRowPerPath(pass[n].existing) /\ OneRowPerPath(rows)
  BY <1>1 DEF Active, WorkspaceInv, WorkspaceKinds
<1>3. pass[n].todo # {} BY <1>1, <1>2 DEF PassOK
<1>4. c \in pass[n].todo /\ c \in PathSet BY <1>a, <1>3, PastFields
<1>5. Sole(n) => RowsOf(c) = Existing(n, c)
  BY <1>2, <1>4 DEF PassOK, PassKnows
<1>6. indexed' = "no" BY <1>1, <1>2 DEF WorkspaceInv
<1>7. CASE pass' = [pass EXCEPT ![n] = Over] /\ UNCHANGED <<rows, symbols>>
  BY <1>1, <1>2, <1>7, DeathKeepsIndex
<1>8. ASSUME pass' = [pass EXCEPT ![n] = Past(n)],
             OneRowPerPath(rows'), \A s \in symbols' : \E x \in rows' : x.id = s.row,
             Sole(n) => /\ \A p \in PathSet \ {c} : RowsOf(p)' = RowsOf(p)
                        /\ \A x \in rows : x.path # c /\ Indexed(x) => Indexed(x)'
                        /\ \E x \in RowsOf(c)' : x.hash = h /\ Indexed(x)'
                        /\ \A x \in rows' : (x \in rows /\ x.path # c) \/ Indexed(x)'
      PROVE  WorkspaceInv'
  <2>1. ASSUME Sole(n) PROVE \A p \in PathSet \ {c} : RowsOf(p)' = RowsOf(p)
                               /\ \A r \in RowsOf(p) : Indexed(r) => Indexed(r)'
    BY <1>8, <2>1 DEF RowsOf
  <2>2. ASSUME pass[n].alone PROVE RowRight(c)'
    <3>1. h = files[c] /\ Sole(n) BY <1>a, <1>b, <1>1, <1>2, <2>2 DEF PassOK, PassSettles, Sole
    <3> QED BY <1>1, <1>8, <3>1 DEF RowRight
  <2>3. PassOK(n)' BY <1>a, <1>1, <1>2, <1>3, <1>8, <2>1, <2>2, PastIsOK
  <2>4. pass'[n] = Past(n) /\ \A m \in Passes \ {n} : pass'[m] = pass[m]
    BY <1>8 DEF WorkspaceInv, WorkspaceKinds
  <2>5. \A m \in Passes \ {n} : PassOK(m)' BY <1>1, <1>2, <2>4, OtherPasses
  <2>6. WorkspaceKinds'
    <3>1. PassKind(Past(n)) /\ OneRowPerPath(Past(n).existing) BY <1>3, PastFields
    <3> QED BY <1>1, <1>8, <2>4, <3>1 DEF WorkspaceInv, WorkspaceKinds
  <2>7. ~ overlapped' => \A x \in rows' : Indexed(x)'
    BY <1>1, <1>8 DEF WorkspaceInv, Sole
  <2> QED BY <1>6, <2>3, <2>5, <2>6, <2>7 DEF WorkspaceInv, IndexSettles
<1>9. CASE /\ Existing(n, c) = {} /\ RowsOf(c) = {}
           /\ rows' = rows \cup {[id |-> <<n, c>>, path |-> c, hash |-> h]}
           /\ symbols' = symbols \cup {[row |-> <<n, c>>, of |-> h, by |-> n]}
           /\ pass' = [pass EXCEPT ![n] = Past(n)]
  <2>1. n \in Nat OBVIOUS
  <2>2. /\ OneRowPerPath(rows') /\ \A s \in symbols' : \E r \in rows' : r.id = s.row
        /\ \A p \in PathSet \ {c} : RowsOf(p)' = RowsOf(p)
        /\ \A r \in rows : r.path # c /\ (Indexed(r) => Indexed(r)')
        /\ \E r \in RowsOf(c)' : r.hash = h /\ Indexed(r)'
        /\ \A r \in rows' : r \in rows \/ Indexed(r)'
    BY <1>4, <1>9, <2>1, InsertKeepsRows
  <2> QED BY <1>8, <1>9, <2>2
<1>10. ASSUME Existing(n, c) # {},
              NEW r \in Existing(n, c), \E x \in rows : x.id = r.id,
              rows' = {IF x.id = r.id /\ r.hash # h THEN [x EXCEPT !.hash = h] ELSE x : x \in rows},
              symbols' = (symbols \ pass[n].old) \cup {[row |-> r.id, of |-> h, by |-> n]},
              pass' = [pass EXCEPT ![n] = Past(n)]
       PROVE  WorkspaceInv'
  <2>1. PICK gone : gone = pass[n].old OBVIOUS
  <2>2. RowOK(r) /\ r.path = c BY <1>2, <1>10 DEF OneRowPerPath, Existing
  <2>3. /\ OneRowPerPath(rows') /\ \A s \in symbols' : \E x \in rows' : x.id = s.row
        /\ r \in rows /\ gone = SymbolsOf(r.id) =>
              /\ \A p \in PathSet \ {r.path} : RowsOf(p)' = RowsOf(p)
              /\ \A x \in rows : x.path # r.path /\ Indexed(x) => Indexed(x)'
              /\ \E x \in RowsOf(r.path)' : x.hash = h /\ Indexed(x)'
              /\ \A x \in rows' : (x \in rows /\ x.path # r.path) \/ Indexed(x)'
    <3>1. symbols' = (symbols \ gone) \cup {[row |-> r.id, of |-> h, by |-> n]} BY <1>10, <2>1
    <3>2. rows' = Rehashed(r, h) BY <1>10 DEF Rehashed
    <3>3. \E x \in rows : x.id = r.id BY <1>10
    <3>4. RowOK(r) BY <2>2
    <3> QED BY <3>1, <3>2, <3>3, <3>4, UpdateKeepsRows
  <2>4. ASSUME Sole(n) PROVE r \in rows /\ gone = SymbolsOf(r.id)
    <3>1. r \in rows BY <1>5, <1>10, <2>4 DEF RowsOf
    <3>2. PassKnows(n) BY <1>2, <2>4 DEF PassOK
    <3> QED BY <1>a, <1>1, <1>10, <2>1, <3>1, <3>2 DEF PassKnows
  <2> QED BY <1>8, <1>10, <2>2, <2>3, <2>4
<1> QED
  <2>1. CASE Existing(n, c) = {} BY <1>a, <1>b, <1>7, <1>9, <2>1 DEF CommitFile
  <2>2. CASE Existing(n, c) # {}
    <3>1. PICK r : r = CHOOSE x \in Existing(n, c) : TRUE OBVIOUS
    <3>2. r \in Existing(n, c) BY <2>2, <3>1
    <3>0. LET e == CHOOSE x \in Existing(n, Candidate(n)) : TRUE
          IN \/ pass' = [pass EXCEPT ![n] = Over] /\ UNCHANGED <<rows, symbols>>
             \/ /\ \E x \in rows : x.id = e.id
                /\ rows' = {IF x.id = e.id /\ e.hash # pass[n].hash THEN [x EXCEPT !.hash = pass[n].hash] ELSE x : x \in rows}
                /\ symbols' = (symbols \ pass[n].old) \cup {[row |-> e.id, of |-> pass[n].hash, by |-> n]}
                /\ pass' = [pass EXCEPT ![n] = Past(n)]
      BY <1>a, <2>2 DEF CommitFile
    <3>3. \/ pass' = [pass EXCEPT ![n] = Over] /\ UNCHANGED <<rows, symbols>>
          \/ /\ \E x \in rows : x.id = r.id
             /\ rows' = {IF x.id = r.id /\ r.hash # h THEN [x EXCEPT !.hash = h] ELSE x : x \in rows}
             /\ symbols' = (symbols \ pass[n].old) \cup {[row |-> r.id, of |-> h, by |-> n]}
             /\ pass' = [pass EXCEPT ![n] = Past(n)]
      BY <1>a, <1>b, <3>0, <3>1
    <3> QED BY <1>7, <1>10, <2>2, <3>2, <3>3
  <2> QED BY <2>1, <2>2

\* The rows of paths a pass has not met go at its end.
LEMMA PruneKeepsIndex == ASSUME WorkspaceInv, NEW n \in Passes, Prune(n) PROVE WorkspaceInv'
<1> DEFINE gone == {r.id : r \in {x \in pass[n].existing : x.path \notin pass[n].seen}}
<1>1. /\ pass[n].pc = "read" /\ pass[n].todo = {} /\ UNCHANGED <<files, overlapped>>
      /\ rows' = {r \in rows : r.id \notin gone} /\ symbols' = {s \in symbols : s.row \notin gone}
      /\ pass' = [pass EXCEPT ![n] = Over]
      /\ indexed' = IF pass[n].alone THEN IF pass[n].full THEN "full" ELSE "incremental" ELSE indexed
  BY DEF Prune, fileVars
<1>2. Active(n) /\ PassOK(n) /\ OneRowPerPath(pass[n].existing) /\ OneRowPerPath(rows) /\ PassKind(pass[n])
      /\ indexed = "no" /\ \A s \in symbols : \E r \in rows : r.id = s.row
  BY <1>1 DEF Active, WorkspaceInv, WorkspaceKinds
<1>3. \A r \in rows : r.path \in pass[n].seen => r.id \notin gone
  BY <1>2 DEF OneRowPerPath, RowOK
<1>4. ASSUME Sole(n) PROVE \A r \in rows : r.path \notin pass[n].seen => r.id \in gone
  <2>1. PassKnows(n) BY <1>2, <1>4 DEF PassOK
  <2>2. ASSUME NEW r \in rows, r.path \notin pass[n].seen PROVE r.id \in gone
    <3>1. r.path \in PathSet BY <1>2 DEF OneRowPerPath, RowOK
    <3>2. r \in Existing(n, r.path) BY <2>1, <2>2, <3>1 DEF PassKnows, RowsOf
    <3> QED BY <2>2, <3>2 DEF Existing
  <2> QED BY <2>2
<1> HIDE DEF gone
<1>5. OneRowPerPath(rows') /\ \A s \in symbols' : \E r \in rows' : r.id = s.row
  BY <1>1, <1>2 DEF OneRowPerPath
<1>6. \A r \in rows' : SymbolsOf(r.id)' = SymbolsOf(r.id) BY <1>1 DEF SymbolsOf
<1>7. \A r \in rows' : r \in rows /\ (Indexed(r) => Indexed(r)') BY <1>1, <1>6 DEF Indexed
<1>8. pass'[n] = Over /\ \A m \in Passes \ {n} : pass'[m] = pass[m] BY <1>1 DEF WorkspaceInv, WorkspaceKinds
<1>9. WorkspaceKinds' BY <1>1, <1>5, <1>8, OverIsKind DEF WorkspaceInv, WorkspaceKinds
<1>10. PassOK(n)' BY <1>8, OverIsKind DEF PassOK, Active
<1>11. \A m \in Passes \ {n} : PassOK(m)' BY <1>1, <1>2, <1>8, OtherPasses
<1>12. ~ overlapped' => \A r \in rows' : Indexed(r)' BY <1>1, <1>7 DEF WorkspaceInv
<1>13. indexed' # "no" => pass[n].alone BY <1>1, <1>2
<1>14. ASSUME pass[n].alone PROVE \A m \in Passes : ~ Active(m)'
  <2>1. PassKnows(n) BY <1>2, <1>14 DEF PassOK, Sole
  <2> QED BY <1>8, <2>1, OverIsKind DEF PassKnows, Active
<1>15. ASSUME pass[n].alone, pass[n].full \/ ~ overlapped PROVE IndexSettles'
  <2>1. PassSettles(n) /\ Sole(n) BY <1>2, <1>15 DEF PassOK, Sole
  <2>2. collect_files' = collect_files /\ collect_files = pass[n].seen
    BY <1>1, <2>1 DEF collect_files, PassSettles
  <2>3. {r.path : r \in rows'} \subseteq collect_files' BY <1>1, <1>4, <2>1, <2>2
  <2>4. ASSUME NEW p \in collect_files', files'[p] # "big" PROVE RowRight(p)'
    <3>1. p \in pass[n].seen /\ files[p] # "big" BY <1>1, <2>2, <2>4
    <3>2. PICK r \in RowsOf(p) : r.hash = files[p] /\ Indexed(r)
      BY <1>15, <2>1, <3>1 DEF PassSettles, RowRight
    <3>3. r \in rows' /\ r.path = p BY <1>1, <1>3, <3>1, <3>2 DEF RowsOf
    <3>4. Indexed(r)' BY <1>7, <3>2, <3>3
    <3> QED BY <1>1, <3>2, <3>3, <3>4 DEF RowRight, RowsOf
  <2>5. RowsSettled' BY <1>5, <2>3, <2>4 DEF RowsSettled
  <2>6. RowsSettled' => IndexSettles' BY RightSettles, PTL
  <2> QED BY <2>5, <2>6
<1>16. IndexSettles'
  <2>1. CASE indexed' = "full" \/ (indexed' = "incremental" /\ ~ overlapped')
    <3>1. pass[n].alone BY <1>13, <2>1
    <3>2. pass[n].full \/ ~ overlapped BY <1>1, <2>1, <3>1
    <3> QED BY <1>15, <3>1, <3>2
  <2>2. CASE ~ (indexed' = "full" \/ (indexed' = "incremental" /\ ~ overlapped'))
    BY <2>2 DEF IndexSettles
  <2> QED BY <2>1, <2>2
<1> QED BY <1>9, <1>10, <1>11, <1>12, <1>13, <1>14, <1>16 DEF WorkspaceInv

\* Every step keeps it.
LEMMA WorkspaceStep == WorkspaceInv /\ [WorkspaceNext]_workspaceVars => WorkspaceInv'
<1> SUFFICES ASSUME WorkspaceInv, [WorkspaceNext]_workspaceVars PROVE WorkspaceInv'
  OBVIOUS
<1>1. CASE EditorStep BY <1>1, EditorChanges, ChangeKeepsIndex
<1>2. ASSUME NEW n \in Passes,
             (\E full \in BOOLEAN : BeginPass(n, full)) \/ ReadFile(n) \/ DeleteSymbols(n) \/ CommitFile(n)
               \/ Prune(n) \/ PassDies(n)
      PROVE  WorkspaceInv'
  <2>1. CASE PassDies(n) BY <2>1, DeathKeepsIndex DEF PassDies, fileVars
  <2> QED BY <1>2, <2>1, BeginKeepsIndex, ReadKeepsIndex, DeleteKeepsIndex, CommitKeepsIndex, PruneKeepsIndex
<1>3. CASE UNCHANGED workspaceVars
  <2>1. Change(files) /\ UNCHANGED <<rows, symbols, overlapped>> BY <1>3 DEF workspaceVars, Change
  <2> QED BY <2>1, ChangeKeepsIndex
<1> QED BY <1>1, <1>2, <1>3 DEF WorkspaceNext, PassStep

\* After a pass that was alone with an unchanged tree, the index says what the tree
\* says, whatever died, failed or overlapped before it.
THEOREM IndexIsSettled == WorkspaceInit /\ [][WorkspaceNext]_workspaceVars => []IndexSettles
<1>1. WorkspaceInv => IndexSettles BY DEF WorkspaceInv
<1> QED BY <1>1, WorkspaceStarts, WorkspaceStep, PTL

-----------------------------------------------------------------------------
(* Sums of sequences of numbers.                                           *)

HIDE WorkspaceAssumption

\* What a function that sums up the first n numbers of s is.
SumsUp(f, s, n) == f = [k \in 0..n |-> IF k = 0 THEN 0 ELSE f[k - 1] + s[k]]

\* There is such a function up to every n.
LEMMA SumsExist ==
  ASSUME NEW s, NEW N \in Nat, NEW n \in 0..N
  PROVE  \E f : SumsUp(f, s, n)
<1> DEFINE bad == {k \in Nat : k <= N /\ \A f : ~ SumsUp(f, s, k)}
<1> SUFFICES ASSUME bad # {} PROVE FALSE
  <2>1. n \in Nat /\ n <= N BY Z3
  <2> QED BY <2>1
<1>1. PICK k \in bad : \A j \in bad : k <= j
  <2>1. bad \in SUBSET Nat OBVIOUS
  <2> HIDE DEF bad
  <2> QED BY <2>1, LeastNatural
<1>2. k # 0
  <2> DEFINE z == [j \in 0..0 |-> 0]
  <2>1. z = [j \in 0..0 |-> IF j = 0 THEN 0 ELSE z[j - 1] + s[j]]
    <3>1. \A j \in 0..0 : j = 0 OBVIOUS
    <3> QED BY <3>1
  <2>2. SumsUp(z, s, 0) BY <2>1 DEF SumsUp
  <2> QED BY <1>1, <2>2
<1>3. k - 1 \in Nat /\ k - 1 <= N /\ ~ (k <= k - 1) BY <1>1, <1>2
<1>4. PICK f : SumsUp(f, s, k - 1) BY <1>1, <1>3
<1> DEFINE g == [j \in 0..k |-> IF j = k THEN f[k - 1] + s[k] ELSE f[j]]
<1>5. SumsUp(g, s, k)
  <2>1. ASSUME NEW j \in 0..k PROVE g[j] = IF j = 0 THEN 0 ELSE g[j - 1] + s[j]
    <3>1. CASE j = k
      <4>1. k - 1 \in 0..k /\ k - 1 # k BY <1>1, <1>2
      <4>2. g[k - 1] = f[k - 1] BY <4>1
      <4> QED BY <3>1, <4>2, <1>1, <1>2
    <3>2. CASE j # k
      <4>1. j \in 0..(k - 1) BY <3>2, <1>1, <1>2
      <4>2. f[j] = IF j = 0 THEN 0 ELSE f[j - 1] + s[j] BY <1>4, <4>1 DEF SumsUp
      <4>3. j # 0 => j - 1 \in 0..k /\ j - 1 # k BY <4>1, <1>1
      <4> QED BY <3>2, <4>1, <4>2, <4>3
    <3> QED BY <3>1, <3>2
  <2>2. DOMAIN g = 0..k OBVIOUS
  <2> HIDE DEF g
  <2>3. g = [j \in 0..k |-> g[j]] BY <2>2 DEF g
  <2> QED BY <2>1, <2>3 DEF SumsUp
<1> QED BY <1>1, <1>5

\* The function of the definition is one.
LEMMA SumsToSumsUp ==
  ASSUME NEW s, Len(s) \in Nat
  PROVE  SumsUp(SumsTo(s), s, Len(s))
<1>1. Len(s) \in 0..Len(s) OBVIOUS
<1>2. \E f : SumsUp(f, s, Len(s)) BY <1>1, SumsExist
<1>3. PICK f : f = [n \in 0..Len(s) |-> IF n = 0 THEN 0 ELSE f[n - 1] + s[n]] BY <1>2 DEF SumsUp
<1> QED BY <1>3 DEF SumsTo, SumsUp

\* Sums of the same numbers are the same.
LEMMA SumsAgree ==
  ASSUME NEW f, NEW s, NEW n \in Nat, SumsUp(f, s, n),
         NEW g, NEW t, NEW m \in Nat, SumsUp(g, t, m),
         n <= m, \A i \in 1..n : s[i] = t[i]
  PROVE  \A k \in 0..n : f[k] = g[k]
<1> DEFINE bad == {k \in Nat : k <= n /\ f[k] # g[k]}
<1> SUFFICES ASSUME bad # {} PROVE FALSE
  OBVIOUS
<1>1. PICK k \in bad : \A j \in bad : k <= j
  <2>1. bad \in SUBSET Nat OBVIOUS
  <2> HIDE DEF bad
  <2> QED BY <2>1, LeastNatural
<1>2. k \in 0..n /\ k \in 0..m BY <1>1
<1>3. f[k] = IF k = 0 THEN 0 ELSE f[k - 1] + s[k] BY <1>2 DEF SumsUp
<1>4. g[k] = IF k = 0 THEN 0 ELSE g[k - 1] + t[k] BY <1>2 DEF SumsUp
<1>5. k # 0 BY <1>1, <1>3, <1>4
<1>6. k \in 1..n /\ k - 1 \in Nat /\ k - 1 <= n /\ ~ (k <= k - 1) BY <1>1, <1>5
<1>7. f[k - 1] = g[k - 1] BY <1>1, <1>6
<1> QED BY <1>1, <1>3, <1>4, <1>5, <1>6, <1>7

LEMMA TotalOfNone == Total(<<>>) = 0
<1>1. SumsUp(SumsTo(<<>>), <<>>, 0) BY SumsToSumsUp
<1>2. SumsTo(<<>>)[0] = 0 BY <1>1 DEF SumsUp
<1> QED BY <1>2 DEF Total

\* One more number adds itself.
LEMMA TotalOfAppend ==
  ASSUME NEW S, NEW s, s \in Seq(S), NEW x
  PROVE  Total(Append(s, x)) = Total(s) + x
<1> DEFINE t == Append(s, x)
           n == Len(s)
<1>1. n \in Nat /\ Len(t) = n + 1 /\ t[n + 1] = x /\ \A i \in 1..n : s[i] = t[i] OBVIOUS
<1> HIDE DEF t
<1>2. SumsUp(SumsTo(s), s, n) BY <1>1, SumsToSumsUp
<1>3. SumsUp(SumsTo(t), t, n + 1) BY <1>1, SumsToSumsUp
<1> HIDE DEF n
<1>4. SumsTo(t)[n + 1] = SumsTo(t)[n] + x
  <2>1. n + 1 \in 0..(n + 1) /\ n + 1 # 0 /\ (n + 1) - 1 = n BY <1>1
  <2> QED BY <1>1, <1>3, <2>1 DEF SumsUp
<1>5. SumsTo(s)[n] = SumsTo(t)[n]
  <2>1. n \in 0..n /\ n <= n + 1 /\ n + 1 \in Nat BY <1>1
  <2>2. \A k \in 0..n : SumsTo(s)[k] = SumsTo(t)[k] BY <1>1, <1>2, <1>3, <2>1, SumsAgree
  <2> QED BY <2>1, <2>2
<1> QED BY <1>1, <1>4, <1>5 DEF Total, n, t

\* The sum of natural numbers is one.
LEMMA TotalIsNatural ==
  ASSUME NEW s, s \in Seq(Nat)
  PROVE  Total(s) \in Nat
<1> DEFINE bad == {k \in Nat : k <= Len(s) /\ SumsTo(s)[k] \notin Nat}
<1> SUFFICES ASSUME bad # {} PROVE FALSE
  BY DEF Total
<1>1. PICK k \in bad : \A j \in bad : k <= j
  <2>1. bad \in SUBSET Nat OBVIOUS
  <2> HIDE DEF bad
  <2> QED BY <2>1, LeastNatural
<1>2. SumsUp(SumsTo(s), s, Len(s)) BY SumsToSumsUp
<1>3. k \in 0..Len(s) BY <1>1
<1>4. SumsTo(s)[k] = IF k = 0 THEN 0 ELSE SumsTo(s)[k - 1] + s[k] BY <1>2, <1>3 DEF SumsUp
<1>5. k # 0 BY <1>1, <1>4
<1>6. k \in 1..Len(s) /\ k - 1 \in Nat /\ k - 1 <= Len(s) /\ ~ (k <= k - 1) BY <1>1, <1>5
<1>7. SumsTo(s)[k - 1] \in Nat /\ s[k] \in Nat BY <1>1, <1>6
<1> QED BY <1>1, <1>4, <1>5, <1>7

\* Nothing, and one more number.
LEMMA SumOverNone == ASSUME NEW f, NEW a \in Int PROVE SumOver(f, a, a - 1) = 0
<1>1. (a - 1) - a + 1 = 0 OBVIOUS
<1>2. [i \in 1..0 |-> f[a + i - 1]] = <<>> OBVIOUS
<1> QED BY <1>1, <1>2, TotalOfNone DEF SumOver

LEMMA SumOverNext ==
  ASSUME NEW f, NEW a \in Int, NEW b \in Int, a <= b
  PROVE  SumOver(f, a, b) = SumOver(f, a, b - 1) + f[b]
<1> DEFINE n == b - a
           s == [i \in 1..n |-> f[a + i - 1]]
           t == [i \in 1..(n + 1) |-> f[a + i - 1]]
           S == {f[i] : i \in Int}
<1>1. n \in Nat /\ (b - 1) - a + 1 = n /\ b - a + 1 = n + 1 /\ a + (n + 1) - 1 = b OBVIOUS
<1>2. s \in Seq(S) /\ Len(s) = n
  <2>1. \A i \in 1..n : a + i - 1 \in Int BY <1>1
  <2>2. \A i \in 1..n : s[i] \in S BY <2>1
  <2> HIDE DEF S
  <2> QED BY <1>1, <2>2
<1>3. t = Append(s, f[b])
  <2>1. Append(s, f[b]) = [i \in 1..(Len(s) + 1) |-> IF i <= Len(s) THEN s[i] ELSE f[b]]
    <3> DEFINE u == Append(s, f[b])
    <3>1. /\ DOMAIN u = 1..(Len(s) + 1) /\ u[Len(s) + 1] = f[b]
          /\ \A i \in 1..Len(s) : u[i] = s[i]
      <4> HIDE DEF s
      <4> QED BY <1>1, <1>2
    <3>2. u = [i \in 1..(Len(s) + 1) |-> u[i]] BY <1>2, <3>1
    <3> HIDE DEF s, u, n
    <3>3. \A i \in 1..(Len(s) + 1) : i <= Len(s) \/ i = Len(s) + 1 BY <1>1, <1>2
    <3>4. \A i \in 1..(Len(s) + 1) : i <= Len(s) => i \in 1..Len(s) BY <1>1, <1>2
    <3>5. \A i \in 1..(Len(s) + 1) : u[i] = IF i <= Len(s) THEN s[i] ELSE f[b] BY <3>1, <3>3, <3>4
    <3> QED BY <3>2, <3>5 DEF u
  <2>2. \A i \in 1..(n + 1) : t[i] = IF i <= n THEN s[i] ELSE f[b]
    <3> SUFFICES ASSUME NEW i \in 1..(n + 1) PROVE t[i] = IF i <= n THEN s[i] ELSE f[b]
      OBVIOUS
    <3>1. CASE i <= n BY <1>1, <3>1
    <3>2. CASE ~ (i <= n)
      <4>1. i = n + 1 BY <1>1, <3>2
      <4>2. t[i] = f[a + i - 1] OBVIOUS
      <4>3. a + i - 1 = b BY <1>1, <4>1
      <4> QED BY <3>2, <4>2, <4>3
    <3> QED BY <3>1, <3>2
  <2>3. t = [i \in 1..(n + 1) |-> t[i]] OBVIOUS
  <2> HIDE DEF s, t, n
  <2>4. t = [i \in 1..(n + 1) |-> IF i <= n THEN s[i] ELSE f[b]] BY <2>2, <2>3
  <2> QED BY <1>2, <2>1, <2>4
<1>4. Total(t) = Total(s) + f[b]
  <2> HIDE DEF s, t, n, S
  <2> QED BY <1>2, <1>3, TotalOfAppend
<1>5. SumOver(f, a, b) = Total(t) BY <1>1 DEF SumOver
<1>6. SumOver(f, a, b - 1) = Total(s) BY <1>1 DEF SumOver
<1> HIDE DEF s, t
<1> QED BY <1>4, <1>5, <1>6

LEMMA SumOverAgrees ==
  ASSUME NEW f, NEW g, NEW a \in Int, NEW b \in Int, \A i \in a..b : f[i] = g[i]
  PROVE  SumOver(f, a, b) = SumOver(g, a, b)
<1>1. \A i \in 1..(b - a + 1) : a + i - 1 \in a..b OBVIOUS
<1>2. [i \in 1..(b - a + 1) |-> f[a + i - 1]] = [i \in 1..(b - a + 1) |-> g[a + i - 1]] BY <1>1
<1> QED BY <1>2 DEF SumOver

LEMMA SumOverIsNatural ==
  ASSUME NEW f, NEW a \in Int, NEW b \in Int, \A i \in a..b : f[i] \in Nat
  PROVE  SumOver(f, a, b) \in Nat
<1> DEFINE s == [i \in 1..(b - a + 1) |-> f[a + i - 1]]
<1>1. s \in Seq(Nat)
  <2>1. CASE b - a + 1 \in Nat
    <3>1. \A i \in 1..(b - a + 1) : a + i - 1 \in a..b OBVIOUS
    <3>2. \A i \in 1..(b - a + 1) : s[i] \in Nat BY <3>1
    <3> QED BY <2>1, <3>2
  <2>2. CASE b - a + 1 \notin Nat
    <3>1. 1..(b - a + 1) = 1..0 BY <2>2
    <3>2. s = <<>> BY <3>1
    <3> QED BY <3>2
  <2> QED BY <2>1, <2>2
<1> HIDE DEF s
<1>2. Total(s) \in Nat BY <1>1, TotalIsNatural
<1> QED BY <1>2 DEF SumOver, s

\* A sum is that of its parts.
LEMMA SumOverSplits ==
  ASSUME NEW f, NEW a \in Int, NEW m \in Int, NEW b \in Int, a - 1 <= m, m <= b,
         \A i \in a..b : f[i] \in Nat
  PROVE  SumOver(f, a, b) = SumOver(f, a, m) + SumOver(f, m + 1, b)
<1> DEFINE bad == {d \in Nat : m + d <= b /\ SumOver(f, a, m + d) # SumOver(f, a, m) + SumOver(f, m + 1, m + d)}
<1> SUFFICES ASSUME bad # {} PROVE FALSE
  <2>1. b - m \in Nat /\ m + (b - m) = b OBVIOUS
  <2>2. PICK d \in Nat : m + d = b BY <2>1
  <2>3. d \notin bad => SumOver(f, a, m + d) = SumOver(f, a, m) + SumOver(f, m + 1, m + d) BY <2>2
  <2> QED BY <2>2, <2>3
<1>1. PICK d \in bad : \A e \in bad : d <= e
  <2>1. bad \in SUBSET Nat OBVIOUS
  <2> HIDE DEF bad
  <2> QED BY <2>1, LeastNatural
<1>2. SumOver(f, a, m) \in Nat
  <2>1. \A i \in a..m : f[i] \in Nat OBVIOUS
  <2> QED BY <2>1, SumOverIsNatural
<1>3. d # 0
  <2> SUFFICES ASSUME d = 0 PROVE FALSE OBVIOUS
  <2>1. m + d = m /\ m + d = (m + 1) - 1 /\ m + 1 \in Int OBVIOUS
  <2>2. SumOver(f, m + 1, m + d) = 0 BY <2>1, SumOverNone
  <2> QED BY <1>1, <1>2, <2>1, <2>2
<1>4. d - 1 \in Nat /\ m + (d - 1) <= b /\ ~ (d <= d - 1) /\ m + (d - 1) = (m + d) - 1 BY <1>1, <1>3
<1>5. SumOver(f, a, (m + d) - 1) = SumOver(f, a, m) + SumOver(f, m + 1, (m + d) - 1) BY <1>1, <1>4
<1>6. m + d \in Int /\ m + 1 \in Int /\ a <= m + d /\ m + 1 <= m + d BY <1>1, <1>3
<1>7. SumOver(f, a, m + d) = SumOver(f, a, (m + d) - 1) + f[m + d] BY <1>6, SumOverNext
<1>8. SumOver(f, m + 1, m + d) = SumOver(f, m + 1, (m + d) - 1) + f[m + d] BY <1>6, SumOverNext
<1>9. f[m + d] \in Nat /\ SumOver(f, m + 1, (m + d) - 1) \in Nat
  <2>1. m + d \in a..b BY <1>1, <1>6
  <2>2. (m + d) - 1 \in Int /\ \A i \in (m + 1)..((m + d) - 1) : i \in a..b BY <1>1, <1>6
  <2> QED BY <1>6, <2>1, <2>2, SumOverIsNatural
<1> QED BY <1>1, <1>2, <1>5, <1>7, <1>8, <1>9

\* A part of a sum is at most the whole, and nothing adds up to nothing.
LEMMA SumOverPart ==
  ASSUME NEW f, NEW a \in Int, NEW b \in Int, NEW c \in Int, NEW d \in Int,
         a <= c, c - 1 <= d, d <= b, \A i \in a..b : f[i] \in Nat
  PROVE  SumOver(f, c, d) <= SumOver(f, a, b) /\ SumOver(f, c, d) \in Nat
<1>1. a - 1 <= c - 1 /\ c - 1 <= b /\ c - 1 \in Int /\ d + 1 \in Int /\ (c - 1) + 1 = c OBVIOUS
<1>2. /\ \A i \in c..b : i \in a..b
      /\ \A i \in c..d : i \in a..b
      /\ \A i \in a..(c - 1) : i \in a..b
      /\ \A i \in (d + 1)..b : i \in a..b
  OBVIOUS
<1>3. SumOver(f, a, b) = SumOver(f, a, c - 1) + SumOver(f, c, b) BY <1>1, SumOverSplits
<1>4. SumOver(f, c, b) = SumOver(f, c, d) + SumOver(f, d + 1, b) BY <1>1, <1>2, SumOverSplits
<1>5. SumOver(f, a, c - 1) \in Nat BY <1>1, <1>2, SumOverIsNatural
<1>6. SumOver(f, c, d) \in Nat BY <1>2, SumOverIsNatural
<1>7. SumOver(f, d + 1, b) \in Nat BY <1>1, <1>2, SumOverIsNatural
<1> QED BY <1>3, <1>4, <1>5, <1>6, <1>7

LEMMA SumOverZeros ==
  ASSUME NEW f, NEW a \in Int, NEW b \in Int, a - 1 <= b, \A i \in a..b : f[i] = 0
  PROVE  SumOver(f, a, b) = 0
<1> DEFINE bad == {d \in Nat : (a - 1) + d <= b /\ SumOver(f, a, (a - 1) + d) # 0}
<1> SUFFICES ASSUME bad # {} PROVE FALSE
  <2>1. PICK d \in Nat : (a - 1) + d = b
    <3>1. b - (a - 1) \in Nat /\ (a - 1) + (b - (a - 1)) = b OBVIOUS
    <3> QED BY <3>1
  <2>2. d \notin bad => SumOver(f, a, (a - 1) + d) = 0 BY <2>1
  <2> QED BY <2>1, <2>2
<1>1. PICK d \in bad : \A e \in bad : d <= e
  <2>1. bad \in SUBSET Nat OBVIOUS
  <2> HIDE DEF bad
  <2> QED BY <2>1, LeastNatural
<1>2. d # 0
  <2>1. (a - 1) + 0 = a - 1 OBVIOUS
  <2> QED BY <1>1, <2>1, SumOverNone
<1> DEFINE e == (a - 1) + d
<1>3. d - 1 \in Nat /\ (a - 1) + (d - 1) <= b /\ ~ (d <= d - 1) /\ (a - 1) + (d - 1) = e - 1 BY <1>1, <1>2
<1>4. e \in Int /\ a <= e /\ e \in a..b BY <1>1, <1>2
<1>5. SumOver(f, a, e - 1) = 0 BY <1>1, <1>3
<1>6. SumOver(f, a, e) = 0
  <2> HIDE DEF e
  <2> QED BY <1>4, <1>5, SumOverNext
<1> QED BY <1>1, <1>6

\* One more at one place is one more in the sum.
LEMMA SumOverMore ==
  ASSUME NEW f, NEW g, NEW a \in Int, NEW b \in Int, NEW p \in a..b,
         \A i \in a..b : f[i] \in Nat, \A i \in a..b : g[i] = IF i = p THEN f[i] + 1 ELSE f[i]
  PROVE  SumOver(g, a, b) = SumOver(f, a, b) + 1
<1>1. p \in Int /\ a - 1 <= p - 1 /\ p - 1 <= b /\ p - 1 \in Int /\ (p - 1) + 1 = p /\ a <= p /\ p <= b /\ p + 1 \in Int
      /\ a - 1 <= p
  OBVIOUS
<1>2. /\ \A i \in a..b : g[i] \in Nat
      /\ \A i \in a..(p - 1) : i \in a..b /\ i # p
      /\ \A i \in (p + 1)..b : i \in a..b /\ i # p
      /\ \A i \in a..p : i \in a..b
  OBVIOUS
<1>3. SumOver(f, a, b) = SumOver(f, a, p) + SumOver(f, p + 1, b) BY <1>1, SumOverSplits
<1>4. SumOver(g, a, b) = SumOver(g, a, p) + SumOver(g, p + 1, b) BY <1>1, <1>2, SumOverSplits
<1>5. SumOver(f, a, p) = SumOver(f, a, p - 1) + f[p] BY <1>1, SumOverNext
<1>6. SumOver(g, a, p) = SumOver(g, a, p - 1) + g[p] BY <1>1, SumOverNext
<1>7. SumOver(f, a, p - 1) = SumOver(g, a, p - 1)
  <2>1. \A i \in a..(p - 1) : f[i] = g[i] BY <1>2
  <2> QED BY <1>1, <2>1, SumOverAgrees
<1>8. SumOver(f, p + 1, b) = SumOver(g, p + 1, b)
  <2>1. \A i \in (p + 1)..b : f[i] = g[i] BY <1>2
  <2> QED BY <1>1, <2>1, SumOverAgrees
<1>9. SumOver(f, a, p - 1) \in Nat /\ SumOver(f, p + 1, b) \in Nat BY <1>1, <1>2, SumOverIsNatural
<1>10. g[p] = f[p] + 1 /\ f[p] \in Nat OBVIOUS
<1> QED BY <1>3, <1>4, <1>5, <1>6, <1>7, <1>8, <1>9, <1>10

-----------------------------------------------------------------------------
(* RateLimit: the limit is fair.                                           *)

\* The first moment of the window that ends with t, and the last of the one from t.
Since(t) == IF t - Window + 1 < 0 THEN 0 ELSE t - Window + 1
Until(t) == IF t + Window - 1 > MaxTime THEN MaxTime ELSE t + Window - 1

Live(c) == c \in DOMAIN buckets /\ now - buckets[c].start < Window

RateKinds ==
  /\ now \in 0..MaxTime
  /\ served \in [Callers -> [0..MaxTime -> Nat]]
  /\ DOMAIN buckets \subseteq Callers
  /\ \A c \in DOMAIN buckets : buckets[c] \in [start : 0..now, count : Nat]

Future == \A c \in Callers, t \in 0..MaxTime : t > now => served[c][t] = 0

\* A bucket that is live has counted what was served since its window began, up
\* to the limit, and just before that window no more than the limit was; without
\* one, nothing was served now and no more than the limit lately.
Counted(c) ==
  /\ Live(c) => LET start == buckets[c].start
                    count == buckets[c].count
                IN /\ Between(c, Since(start), start - 1) <= Allowed
                   /\ Between(c, start, now) = IF count <= Allowed THEN count ELSE Allowed
  /\ ~ Live(c) => served[c][now] = 0 /\ Between(c, Since(now), now) <= Allowed

SpansFit(c) == \A t \in 0..MaxTime : Between(c, t, Until(t)) <= 2 * Allowed

RefusedHadItsShare ==
  refused # NoRequest =>
    refused.who \in Callers /\ refused.when \in 0..now /\ Between(refused.who, Since(refused.when), refused.when) >= Allowed

RateInv ==
  /\ RateKinds /\ Future
  /\ \A c \in Callers : Counted(c) /\ SpansFit(c)
  /\ RefusedHadItsShare

LEMMA WindowBounds ==
  ASSUME NEW t \in 0..MaxTime
  PROVE  /\ Since(t) \in 0..t /\ t - Window + 1 <= Since(t)
         /\ Until(t) \in t..MaxTime /\ Until(t) <= t + Window - 1
BY RateAssumption DEF Since, Until

\* What a client was served at some times is natural, as its sums are.
LEMMA ServedIsNatural ==
  ASSUME RateKinds, NEW c \in Callers, NEW a \in Nat, NEW b \in Int, b <= MaxTime
  PROVE  /\ \A t \in a..b : served[c][t] \in Nat
         /\ Between(c, a, b) \in Nat
<1>1. MaxTime \in Nat BY RateAssumption
<1>2. \A t \in a..b : t \in 0..MaxTime BY <1>1
<1>3. \A t \in 0..MaxTime : served[c][t] \in Nat BY DEF RateKinds
<1>4. \A t \in a..b : served[c][t] \in Nat BY <1>2, <1>3
<1>5. SumOver(served[c], a, b) \in Nat BY <1>4, SumOverIsNatural
<1> QED BY <1>4, <1>5 DEF Between

LEMMA RateStarts == RateInit => RateInv
<1> SUFFICES ASSUME RateInit PROVE RateInv
  OBVIOUS
<1>1. now = 0 /\ MaxTime \in Nat /\ Allowed \in Nat /\ DOMAIN buckets = {} /\ refused = NoRequest
      /\ served = [c \in Callers |-> [t \in 0..MaxTime |-> 0]]
  BY RateAssumption DEF RateInit
<1>2. \A c \in Callers, t \in 0..MaxTime : served[c][t] = 0 BY <1>1
<1>3. RateKinds /\ Future BY <1>1, <1>2 DEF RateKinds, Future
<1>4. ASSUME NEW c \in Callers, NEW a \in Nat, NEW b \in Int, a - 1 <= b, b <= MaxTime PROVE Between(c, a, b) = 0
  <2>1. \A t \in a..b : t \in 0..MaxTime BY <1>1, <1>4
  <2>2. \A t \in a..b : served[c][t] = 0 BY <1>2, <2>1
  <2> QED BY <1>4, <2>2, SumOverZeros DEF Between
<1>5. ASSUME NEW c \in Callers PROVE Counted(c) /\ SpansFit(c)
  <2>1. ~ Live(c) BY <1>1 DEF Live
  <2>2. now \in 0..MaxTime /\ Since(now) \in 0..now BY <1>1, WindowBounds
  <2>3. Between(c, Since(now), now) = 0 BY <1>1, <1>4, <2>2
  <2>4. Counted(c) BY <1>1, <1>2, <2>1, <2>2, <2>3 DEF Counted
  <2>5. ASSUME NEW t \in 0..MaxTime PROVE Between(c, t, Until(t)) <= 2 * Allowed
    <3>1. Until(t) \in t..MaxTime BY WindowBounds
    <3>2. Between(c, t, Until(t)) = 0 BY <1>1, <1>4, <3>1
    <3> QED BY <1>1, <3>2
  <2> QED BY <2>4, <2>5 DEF SpansFit
<1> QED BY <1>1, <1>3, <1>5 DEF RateInv, RefusedHadItsShare

\* Time passes, and windows end with it.
LEMMA TimeKeepsRates == ASSUME RateInv, TimePasses PROVE RateInv'
<1>1. /\ now \in Nat /\ MaxTime \in Nat /\ Allowed \in Nat \ {0} /\ Window \in Nat \ {0}
      /\ now' = now + 1 /\ now' <= MaxTime /\ now' \in 0..MaxTime /\ now \in 0..MaxTime
      /\ buckets' = buckets /\ served' = served /\ refused' = refused
  BY RateAssumption DEF RateInv, RateKinds, TimePasses
<1>2. RateKinds' /\ Future' BY <1>1 DEF RateInv, RateKinds, Future
<1>3. \A c, a, b : Between(c, a, b)' = Between(c, a, b) BY <1>1 DEF Between
<1>4. ASSUME NEW c \in Callers PROVE Counted(c)'
  <2>1. served[c][now + 1] = 0 BY <1>1 DEF RateInv, Future
  <2>2. ASSUME NEW a \in Nat, a <= now + 1
        PROVE  Between(c, a, now + 1) = Between(c, a, now) /\ Between(c, a, now) \in Nat
    <3>1. Between(c, a, now) \in Nat BY <1>1, ServedIsNatural DEF RateInv
    <3>2. now + 1 \in Int /\ (now + 1) - 1 = now BY <1>1
    <3>3. Between(c, a, now + 1) = Between(c, a, now) + served[c][now + 1]
      BY <2>2, <3>2, SumOverNext DEF Between
    <3> QED BY <2>1, <3>1, <3>3
  <2>3. ASSUME NEW a \in Nat, NEW b \in Nat, a <= b, b <= now + 1
        PROVE  Between(c, b, now + 1) <= Between(c, a, now + 1)
    <3>1. \A t \in a..(now + 1) : served[c][t] \in Nat BY <1>1, ServedIsNatural DEF RateInv
    <3>2. now + 1 \in Int /\ b - 1 <= now + 1 /\ now + 1 <= now + 1 BY <1>1, <2>3
    <3> QED BY <2>3, <3>1, <3>2, SumOverPart DEF Between
  <2>4. Counted(c) BY DEF RateInv
  <2>5. Since(now + 1) \in 0..(now + 1) /\ (now + 1) - Window + 1 <= Since(now + 1)
    BY <1>1, WindowBounds
  <2>6. CASE Live(c)'
    <3>1. Live(c) /\ buckets[c].start \in 0..now /\ buckets[c].count \in Nat
      BY <1>1, <2>6 DEF Live, RateInv, RateKinds
    <3>2. Between(c, buckets[c].start, now + 1) = Between(c, buckets[c].start, now) BY <1>1, <2>2, <3>1
    <3> QED BY <1>1, <1>3, <2>4, <2>6, <3>1, <3>2 DEF Counted
  <2>7. CASE ~ Live(c)' /\ Live(c)
    <3>1. /\ c \in DOMAIN buckets /\ buckets[c].start \in 0..now /\ buckets[c].count \in Nat
          /\ now + 1 - buckets[c].start >= Window
      BY <1>1, <2>7 DEF Live, RateInv, RateKinds
    <3>2. PICK s \in Nat : s = buckets[c].start /\ s <= now BY <1>1, <3>1
    <3>3. s <= Since(now + 1)
      BY <1>1, <2>5, <3>1, <3>2
    <3>4. Between(c, s, now) <= Allowed BY <1>1, <2>4, <2>7, <3>1, <3>2 DEF Counted
    <3>5. Between(c, s, now + 1) = Between(c, s, now) BY <1>1, <2>2, <3>2
    <3>6. Since(now + 1) \in Nat /\ Since(now + 1) <= now + 1 BY <1>1, <2>5
    <3>7. Between(c, Since(now + 1), now + 1) <= Between(c, s, now + 1) BY <2>3, <3>2, <3>3, <3>6
    <3>8. Between(c, Since(now + 1), now + 1) \in Nat /\ Between(c, s, now) \in Nat
      BY <1>1, <3>2, <3>6, ServedIsNatural DEF RateInv
    <3>9. Between(c, Since(now + 1), now + 1) <= Allowed BY <1>1, <3>4, <3>5, <3>7, <3>8
    <3> QED BY <1>1, <1>3, <2>1, <2>7, <3>9 DEF Counted, Since
  <2>8. CASE ~ Live(c)' /\ ~ Live(c)
    <3>1. Between(c, Since(now), now) <= Allowed BY <2>4, <2>8 DEF Counted
    <3>2. Since(now) \in Nat /\ Since(now) <= Since(now + 1) /\ Since(now) <= now /\ Since(now + 1) \in Nat
          /\ Since(now + 1) <= now + 1
      BY <1>1, RateAssumption DEF Since
    <3>3. Between(c, Since(now), now + 1) = Between(c, Since(now), now) BY <1>1, <2>2, <3>2
    <3>4. Between(c, Since(now + 1), now + 1) <= Between(c, Since(now), now + 1) BY <2>3, <3>2
    <3>5. Between(c, Since(now + 1), now + 1) \in Nat /\ Between(c, Since(now), now) \in Nat
      BY <1>1, <3>2, ServedIsNatural DEF RateInv
    <3>6. Between(c, Since(now + 1), now + 1) <= Allowed BY <1>1, <3>1, <3>3, <3>4, <3>5
    <3> QED BY <1>1, <1>3, <2>1, <2>8, <3>6 DEF Counted, Since
  <2> QED BY <2>6, <2>7, <2>8
<1>5. ASSUME NEW c \in Callers PROVE SpansFit(c)'
  BY <1>1, <1>3 DEF RateInv, SpansFit, Until
<1>6. RefusedHadItsShare' BY <1>1, <1>3 DEF RateInv, RefusedHadItsShare, Since
<1> QED BY <1>2, <1>4, <1>5, <1>6 DEF RateInv

\* Whatever is served now, the spans of a client with a live bucket fit.
LiveSpansFit ==
  \A c \in Callers, t \in 0..MaxTime :
    Counted(c) /\ Live(c) /\ t <= now /\ now <= Until(t) => Between(c, t, Until(t)) <= 2 * Allowed

LEMMA SpansOfTheLive == RateKinds /\ Future => LiveSpansFit
<1> SUFFICES ASSUME RateKinds, Future, NEW c \in Callers, NEW t \in 0..MaxTime, Counted(c), Live(c),
                    t <= now, now <= Until(t)
             PROVE  Between(c, t, Until(t)) <= 2 * Allowed
  BY DEF LiveSpansFit
<1>1. /\ now \in Nat /\ now <= MaxTime /\ MaxTime \in Nat /\ Allowed \in Nat /\ Window \in Nat \ {0} /\ t \in Nat
  BY RateAssumption DEF RateKinds
<1>2. PICK s \in Nat : s = buckets[c].start /\ s <= now /\ now - s < Window BY <1>1 DEF Live, RateKinds
<1>3. PICK e \in Nat : e = Until(t) /\ now <= e /\ e <= MaxTime /\ e <= t + Window - 1 BY <1>1, WindowBounds
<1>4. Between(c, Since(s), s - 1) <= Allowed /\ Between(c, s, now) <= Allowed
  <2>1. buckets[c].count \in Nat BY DEF Live, RateKinds
  <2> QED BY <1>1, <1>2, <2>1 DEF Counted
<1>5. ASSUME NEW a \in Nat, a <= now + 1 PROVE Between(c, a, e) = Between(c, a, now)
  <2>1. \A i \in a..e : served[c][i] \in Nat BY <1>3, ServedIsNatural
  <2>2. \A i \in (now + 1)..e : i \in 0..MaxTime /\ i > now BY <1>1, <1>3
  <2>3. \A i \in (now + 1)..e : served[c][i] = 0 BY <2>2 DEF Future
  <2>4. now + 1 \in Int /\ (now + 1) - 1 <= e /\ a - 1 <= now /\ a \in Int /\ e \in Int BY <1>1, <1>3, <1>5
  <2>5. SumOver(served[c], now + 1, e) = 0 BY <2>3, <2>4, SumOverZeros
  <2>6. SumOver(served[c], a, e) = SumOver(served[c], a, now) + SumOver(served[c], now + 1, e)
    <3>1. now \in Int /\ now <= e BY <1>1, <1>3
    <3> QED BY <2>1, <2>4, <3>1, SumOverSplits
  <2>7. SumOver(served[c], a, now) \in Nat BY <1>1, ServedIsNatural DEF Between
  <2> QED BY <2>5, <2>6, <2>7 DEF Between
<1>6. CASE t <= s
  <2>1. \A i \in t..now : served[c][i] \in Nat BY <1>1, ServedIsNatural
  <2>2. t - 1 <= s - 1 /\ s - 1 <= now /\ s - 1 \in Int /\ (s - 1) + 1 = s BY <1>1, <1>2, <1>6
  <2>3. Between(c, t, now) = Between(c, t, s - 1) + Between(c, s, now) BY <1>1, <2>1, <2>2, SumOverSplits DEF Between
  <2>4. Since(s) \in Nat /\ Since(s) <= t /\ s - 1 <= MaxTime
    BY <1>1, <1>2, <1>3, <1>6 DEF Since
  <2>5. \A i \in Since(s)..(s - 1) : served[c][i] \in Nat BY <2>2, <2>4, ServedIsNatural
  <2>6. Between(c, t, s - 1) <= Between(c, Since(s), s - 1)
    BY <1>1, <2>2, <2>4, <2>5, SumOverPart DEF Between
  <2>7. Between(c, t, s - 1) \in Nat /\ Between(c, s, now) \in Nat /\ Between(c, Since(s), s - 1) \in Nat
    BY <1>1, <1>2, <2>2, <2>4, ServedIsNatural
  <2>8. Between(c, t, now) <= 2 * Allowed BY <1>1, <1>4, <2>3, <2>6, <2>7
  <2>9. Between(c, t, e) = Between(c, t, now) BY <1>1, <1>5
  <2> QED BY <1>3, <2>8, <2>9
<1>7. CASE s < t
  <2>1. \A i \in s..now : served[c][i] \in Nat BY <1>1, ServedIsNatural
  <2>2. Between(c, t, now) <= Between(c, s, now) BY <1>1, <1>7, <2>1, SumOverPart DEF Between
  <2>3. Between(c, t, now) \in Nat /\ Between(c, s, now) \in Nat BY <1>1, <1>2, ServedIsNatural
  <2>4. Between(c, t, e) = Between(c, t, now) BY <1>1, <1>5
  <2> QED BY <1>1, <1>3, <1>4, <2>2, <2>3, <2>4
<1> QED BY <1>1, <1>2, <1>6, <1>7

\* A call is counted in its bucket, and the others are as they were.
LEMMA CallKeepsRates == ASSUME RateInv, NEW c \in Callers, Call(c) PROVE RateInv'
<1> DEFINE bucket == [BucketOf(c) EXCEPT !.count = @ + 1]
<1>1. /\ now \in Nat /\ MaxTime \in Nat /\ Allowed \in Nat \ {0} /\ Window \in Nat \ {0}
      /\ now' = now /\ now <= MaxTime /\ now \in 0..MaxTime
  BY RateAssumption DEF RateInv, RateKinds, Call
<1>2. PICK left \in SUBSET DOMAIN buckets :
        /\ buckets' = [o \in left \cup {c} |-> IF o = c THEN bucket ELSE buckets[o]]
        /\ \A o \in DOMAIN buckets : o \notin left /\ o # c => WindowOver(buckets[o])
  <2> DEFINE l == DOMAIN buckets \ (IF Cardinality(DOMAIN buckets) > BucketCap THEN Evicted(c) ELSE {})
  <2>1. buckets' = [o \in l \cup {c} |-> IF o = c THEN bucket ELSE buckets[o]] BY DEF Call
  <2>2. \A o \in DOMAIN buckets : o \notin l /\ o # c => WindowOver(buckets[o]) BY DEF Evicted
  <2>3. l \in SUBSET DOMAIN buckets OBVIOUS
  <2> HIDE DEF l, bucket
  <2> QED BY <2>1, <2>2, <2>3
<1>3. /\ bucket.count > Allowed => refused' = [who |-> c, when |-> now] /\ served' = served
      /\ ~ (bucket.count > Allowed) => served' = [served EXCEPT ![c][now] = @ + 1] /\ refused' = refused
  BY DEF Call
<1>4. /\ Live(c) => BucketOf(c) = buckets[c] /\ BucketOf(c) \in [start : 0..now, count : Nat]
      /\ ~ Live(c) => BucketOf(c) = [start |-> now, count |-> 0]
  BY <1>1 DEF BucketOf, Live, WindowOver, RateInv, RateKinds
<1>5. PICK s \in Nat, k \in Nat :
        /\ bucket = [start |-> s, count |-> k + 1] /\ s <= now /\ now - s < Window
        /\ Live(c) => s = buckets[c].start /\ k = buckets[c].count
        /\ ~ Live(c) => s = now /\ k = 0
  <2>1. CASE Live(c)
    <3>1. PICK b \in [start : 0..now, count : Nat] : b = BucketOf(c) /\ b = buckets[c] BY <1>4, <2>1
    <3>2. bucket = [start |-> b.start, count |-> b.count + 1] BY <3>1
    <3>3. b.start \in Nat /\ b.count \in Nat /\ b.start <= now /\ now - b.start < Window BY <1>1, <2>1, <3>1 DEF Live
    <3> QED BY <2>1, <3>1, <3>2, <3>3
  <2>2. CASE ~ Live(c)
    <3>1. bucket = [start |-> now, count |-> 0 + 1] BY <1>4, <2>2
    <3> QED BY <1>1, <2>2, <3>1
  <2> QED BY <2>1, <2>2
<1> HIDE DEF bucket
<1>6. bucket \in [start : 0..now, count : Nat] /\ bucket.start = s /\ bucket.count = k + 1 BY <1>1, <1>5
<1>7. c \in DOMAIN buckets' /\ buckets'[c] = bucket BY <1>2
<1>8. Live(c)' BY <1>1, <1>5, <1>6, <1>7 DEF Live
<1>9. \A o \in Callers \ {c} : Live(o)' = Live(o) /\ (Live(o) => buckets'[o] = buckets[o])
  <2> SUFFICES ASSUME NEW o \in Callers \ {c}
               PROVE  (Live(o)' <=> Live(o)) /\ (Live(o) => buckets'[o] = buckets[o])
    BY DEF Live
  <2>1. o \in left => o \in DOMAIN buckets' /\ o \in DOMAIN buckets /\ buckets'[o] = buckets[o] BY <1>2
  <2>2. o \notin left => o \notin DOMAIN buckets' BY <1>2
  <2>3. o \notin left => ~ Live(o)
    <3>1. \A b \in [start : 0..now, count : Nat] : WindowOver(b) => ~ (now - b.start < Window) BY <1>1 DEF WindowOver
    <3> QED BY <1>2, <3>1 DEF Live, RateInv, RateKinds
  <2> QED BY <1>1, <2>1, <2>2, <2>3 DEF Live
<1>10. CASE bucket.count > Allowed
  <2>1. served' = served /\ refused' = [who |-> c, when |-> now] BY <1>3, <1>10
  <2>2. \A o, a, b : Between(o, a, b)' = Between(o, a, b) BY <2>1 DEF Between
  <2>3. RateKinds' /\ Future' BY <1>1, <1>2, <1>6, <2>1 DEF RateInv, RateKinds, Future
  <2>4. k >= Allowed /\ k > 0 /\ Live(c) BY <1>1, <1>5, <1>6, <1>10
  <2>5. Between(c, Since(s), s - 1) <= Allowed /\ Between(c, s, now) = Allowed
    BY <1>1, <1>5, <2>4 DEF RateInv, Counted
  <2>6. ASSUME NEW o \in Callers PROVE Counted(o)'
    <3>1. CASE o = c BY <1>1, <1>5, <1>6, <1>7, <1>8, <2>2, <2>4, <2>5, <3>1 DEF Counted, Since
    <3>2. CASE o # c
      <4>1. Counted(o) BY DEF RateInv
      <4>2. (Live(o)' <=> Live(o)) /\ (Live(o) => buckets'[o] = buckets[o]) BY <1>9, <3>2
      <4> QED BY <1>1, <2>1, <2>2, <4>1, <4>2 DEF Counted, Since
    <3> QED BY <3>1, <3>2
  <2>7. \A o \in Callers : SpansFit(o)' BY <2>2 DEF RateInv, SpansFit, Until
  <2>8. Between(c, Since(now), now) >= Allowed
    <3>1. Since(now) \in Nat /\ Since(now) <= s BY <1>1, <1>5 DEF Since
    <3>2. \A i \in Since(now)..now : served[c][i] \in Nat BY <1>1, <3>1, ServedIsNatural DEF RateInv
    <3>3. Between(c, s, now) <= Between(c, Since(now), now) BY <1>1, <1>5, <3>1, <3>2, SumOverPart DEF Between
    <3>4. Between(c, Since(now), now) \in Nat BY <1>1, <3>1, ServedIsNatural DEF RateInv
    <3> QED BY <1>1, <2>5, <3>3, <3>4
  <2>9. RefusedHadItsShare'
    <3>1. refused'.who = c /\ refused'.when = now BY <2>1
    <3> QED BY <1>1, <2>2, <2>8, <3>1 DEF RefusedHadItsShare, Since
  <2> QED BY <2>3, <2>6, <2>7, <2>9 DEF RateInv
<1>11. CASE ~ (bucket.count > Allowed)
  <2>1. served' = [served EXCEPT ![c][now] = @ + 1] /\ refused' = refused BY <1>3, <1>11
  <2>2. served \in [Callers -> [0..MaxTime -> Nat]] BY DEF RateInv, RateKinds
  <2>3. served' \in [Callers -> [0..MaxTime -> Nat]] BY <1>1, <2>1, <2>2
  <2>4. /\ \A o \in Callers \ {c} : served'[o] = served[o]
        /\ \A i \in 0..MaxTime : served'[c][i] = IF i = now THEN served[c][i] + 1 ELSE served[c][i]
    BY <1>1, <2>1, <2>2
  <2>5. RateKinds' BY <1>1, <1>2, <1>6, <2>3 DEF RateInv, RateKinds
  <2>6. Future' BY <1>1, <2>4 DEF RateInv, Future
  <2>7. ASSUME NEW a \in Nat, NEW b \in Int, b <= MaxTime
        PROVE  /\ a <= now /\ now <= b => Between(c, a, b)' = Between(c, a, b) + 1
               /\ ~ (a <= now /\ now <= b) => Between(c, a, b)' = Between(c, a, b)
    <3>1. \A i \in a..b : i \in 0..MaxTime BY <1>1, <2>7
    <3>2. \A i \in a..b : served[c][i] \in Nat BY <2>7, ServedIsNatural DEF RateInv
    <3>3. \A i \in a..b : served'[c][i] = IF i = now THEN served[c][i] + 1 ELSE served[c][i] BY <2>4, <3>1
    <3>4. a \in Int OBVIOUS
    <3>5. ASSUME a <= now, now <= b PROVE SumOver(served'[c], a, b) = SumOver(served[c], a, b) + 1
      <4>1. now \in a..b BY <1>1, <3>5
      <4>2. PICK f, g : f = served[c] /\ g = served'[c] OBVIOUS
      <4>3. /\ \A i \in a..b : f[i] \in Nat
            /\ \A i \in a..b : g[i] = IF i = now THEN f[i] + 1 ELSE f[i]
        BY <3>2, <3>3, <4>2
      <4>4. SumOver(g, a, b) = SumOver(f, a, b) + 1 BY <3>4, <4>1, <4>3, SumOverMore
      <4> QED BY <4>2, <4>4
    <3>6. ASSUME ~ (a <= now /\ now <= b) PROVE SumOver(served'[c], a, b) = SumOver(served[c], a, b)
      <4>1. \A i \in a..b : i # now BY <1>1, <3>6
      <4>2. \A i \in a..b : served'[c][i] = served[c][i] BY <3>3, <4>1
      <4> QED BY <3>4, <4>2, SumOverAgrees
    <3> QED BY <3>5, <3>6 DEF Between
  <2>8. \A o \in Callers \ {c} : \A a, b : Between(o, a, b)' = Between(o, a, b) BY <2>4 DEF Between
  <2>9. k + 1 <= Allowed BY <1>1, <1>6, <1>11
  <2>10. Counted(c)'
    <3>1. Between(c, Since(s), s - 1)' <= Allowed
      <4>1. Since(s) \in Nat /\ s - 1 \in Int /\ s - 1 <= MaxTime /\ ~ (now <= s - 1) BY <1>1, <1>5 DEF Since
      <4>2. Between(c, Since(s), s - 1)' = SumOver(served'[c], Since(s), s - 1) BY DEF Between, Since
      <4>3. SumOver(served'[c], Since(s), s - 1) = Between(c, Since(s), s - 1) BY <2>7, <4>1 DEF Between
      <4>4. CASE Live(c) BY <1>5, <4>2, <4>3, <4>4 DEF RateInv, Counted
      <4>5. CASE ~ Live(c)
        <5>1. s = now /\ Between(c, Since(now), now) <= Allowed BY <1>5, <4>5 DEF RateInv, Counted
        <5>2. \A i \in Since(s)..now : served[c][i] \in Nat BY <1>1, <4>1, ServedIsNatural DEF RateInv
        <5>3. Since(s) - 1 <= s - 1 /\ s - 1 <= now BY <1>1, <1>5 DEF Since
        <5>4. Between(c, Since(s), s - 1) <= Between(c, Since(s), now)
          <6>1. Since(s) \in Int /\ now \in Int /\ s - 1 \in Int /\ Since(s) <= Since(s) BY <1>1, <4>1
          <6>2. SumOver(served[c], Since(s), s - 1) <= SumOver(served[c], Since(s), now)
            BY <5>2, <5>3, <6>1, SumOverPart
          <6> QED BY <6>2 DEF Between
        <5>5. Between(c, Since(s), s - 1) \in Nat /\ Between(c, Since(s), now) \in Nat
          BY <1>1, <4>1, ServedIsNatural DEF RateInv
        <5> QED BY <1>1, <4>2, <4>3, <5>1, <5>4, <5>5
      <4> QED BY <4>4, <4>5
    <3>2. Between(c, s, now)' = k + 1
      <4>1. Between(c, s, now) = k
        <5>1. CASE Live(c) BY <1>1, <1>5, <2>9, <5>1 DEF RateInv, Counted
        <5>2. CASE ~ Live(c)
          <6>1. s = now /\ k = 0 /\ served[c][now] = 0 BY <1>5, <5>2 DEF RateInv, Counted
          <6>2. \A i \in now..now : served[c][i] = 0 BY <1>1, <6>1
          <6> QED BY <1>1, <6>1, <6>2, SumOverZeros DEF Between
        <5> QED BY <5>1, <5>2
      <4>2. SumOver(served'[c], s, now) = Between(c, s, now) + 1 BY <1>1, <1>5, <2>7 DEF Between
      <4> QED BY <1>1, <4>1, <4>2 DEF Between
    <3>3. Between(c, Since(s), s - 1)' <= Allowed /\ buckets'[c].start = s /\ buckets'[c].count = k + 1 BY <1>6, <1>7, <3>1
    <3> QED BY <1>1, <1>5, <1>8, <2>9, <3>2, <3>3 DEF Counted, Since
  <2>11. ASSUME NEW o \in Callers PROVE Counted(o)'
    <3>1. CASE o = c BY <2>10, <3>1
    <3>2. CASE o # c
      <4>1. Counted(o) BY DEF RateInv
      <4>2. (Live(o)' <=> Live(o)) /\ (Live(o) => buckets'[o] = buckets[o]) BY <1>9, <3>2
      <4> QED BY <1>1, <2>4, <2>8, <3>2, <4>1, <4>2 DEF Counted, Since
    <3> QED BY <3>1, <3>2
  <2>12. ASSUME NEW o \in Callers PROVE SpansFit(o)'
    <3>1. CASE o # c BY <2>8, <3>1 DEF RateInv, SpansFit, Until
    <3>2. CASE o = c
      <4> SUFFICES ASSUME NEW t \in 0..MaxTime PROVE (Between(c, t, Until(t)) <= 2 * Allowed)'
        BY <3>2 DEF SpansFit
      <4>1. Until(t) \in t..MaxTime /\ t \in Nat BY <1>1, WindowBounds
      <4>2. CASE t <= now /\ now <= Until(t)
        <5>1. RateKinds' /\ Future' => LiveSpansFit' BY SpansOfTheLive, PTL
        <5> QED BY <1>1, <1>8, <2>5, <2>6, <2>10, <4>2, <5>1 DEF LiveSpansFit, Until
      <4>3. CASE ~ (t <= now /\ now <= Until(t))
        <5>1. Between(c, t, Until(t))' = Between(c, t, Until(t))
          <6>1. SumOver(served'[c], t, Until(t)) = Between(c, t, Until(t)) BY <2>7, <4>1, <4>3 DEF Between
          <6> QED BY <6>1 DEF Between, Until
        <5> QED BY <5>1 DEF RateInv, SpansFit
      <4> QED BY <4>2, <4>3
    <3> QED BY <3>1, <3>2
  <2>13. RefusedHadItsShare'
    <3> SUFFICES ASSUME refused # NoRequest
                 PROVE  /\ refused.who \in Callers /\ refused.when \in 0..now
                        /\ (Between(refused.who, Since(refused.when), refused.when) >= Allowed)'
      BY <1>1, <2>1 DEF RefusedHadItsShare, Since
    <3>1. /\ refused.who \in Callers /\ refused.when \in 0..now
          /\ Between(refused.who, Since(refused.when), refused.when) >= Allowed
      BY DEF RateInv, RefusedHadItsShare
    <3>2. PICK w \in Callers, n \in 0..now : w = refused.who /\ n = refused.when BY <3>1
    <3>3. Between(w, Since(n), n)' \in {Between(w, Since(n), n), Between(w, Since(n), n) + 1}
      <4>1. CASE w # c BY <2>8, <4>1 DEF Since
      <4>2. CASE w = c
        <5>1. Since(n) \in Nat /\ n \in Int /\ n <= MaxTime BY <1>1 DEF Since
        <5>2. SumOver(served'[c], Since(n), n) \in {Between(c, Since(n), n), Between(c, Since(n), n) + 1}
          BY <2>7, <5>1 DEF Between
        <5> QED BY <4>2, <5>2 DEF Between, Since
      <4> QED BY <4>1, <4>2
    <3>4. Between(w, Since(n), n) \in Nat
      <4>1. Since(n) \in Nat /\ n \in Int /\ n <= MaxTime BY <1>1 DEF Since
      <4> QED BY <4>1, ServedIsNatural DEF RateInv
    <3>5. Between(w, Since(n), n)' >= Allowed BY <1>1, <3>1, <3>2, <3>3, <3>4
    <3>6. refused' = refused /\ w = refused.who /\ n = refused.when BY <2>1, <3>2
    <3> QED BY <3>1, <3>5, <3>6 DEF Between, Since
  <2> QED BY <2>5, <2>6, <2>11, <2>12, <2>13 DEF RateInv
<1> QED BY <1>10, <1>11

\* The limit is fair.
THEOREM LimitStaysFair == RateInit /\ [][RateNext]_rateVars => []LimitIsFair
<1>1. RateInv /\ [RateNext]_rateVars => RateInv'
  <2> SUFFICES ASSUME RateInv, [RateNext]_rateVars PROVE RateInv'
    OBVIOUS
  <2>1. CASE RateNext BY <2>1, TimeKeepsRates, CallKeepsRates DEF RateNext
  <2>2. CASE UNCHANGED rateVars
    <3>1. now' = now /\ buckets' = buckets /\ served' = served /\ refused' = refused BY <2>2 DEF rateVars
    <3> QED BY <3>1 DEF RateInv, RateKinds, Future, Counted, SpansFit, RefusedHadItsShare, Live, Between, Since, Until
  <2> QED BY <2>1, <2>2
<1>2. ASSUME RateInv PROVE LimitIsFair
  <2>1. MaxTime \in Nat /\ Window \in Nat \ {0} /\ now \in 0..MaxTime BY <1>2, RateAssumption DEF RateInv, RateKinds
  <2>2. \A t \in Nat : Min({MaxTime, t + Window - 1}) = Until(t)
    <3> SUFFICES ASSUME NEW t \in Nat PROVE Min({MaxTime, t + Window - 1}) = Until(t)
      OBVIOUS
    <3> DEFINE S == {MaxTime, t + Window - 1}
    <3>1. Until(t) \in S /\ \A x \in S : x \in Int /\ Until(t) <= x BY <2>1 DEF Until
    <3> HIDE DEF S
    <3>2. Min(S) \in S /\ \A x \in S : Min(S) <= x BY <3>1 DEF Min
    <3>3. Min(S) = Until(t) BY <3>1, <3>2
    <3> QED BY <3>3 DEF S
  <2>3. \A t \in Nat : Max({0, t - Window + 1}) = Since(t)
    <3> SUFFICES ASSUME NEW t \in Nat PROVE Max({0, t - Window + 1}) = Since(t)
      OBVIOUS
    <3> DEFINE S == {0, t - Window + 1}
    <3>1. Since(t) \in S /\ \A x \in S : x \in Int /\ x <= Since(t) BY <2>1 DEF Since
    <3> HIDE DEF S
    <3>2. Max(S) \in S /\ \A x \in S : x <= Max(S) BY <3>1 DEF Max
    <3>3. Max(S) = Since(t) BY <3>1, <3>2
    <3> QED BY <3>3 DEF S
  <2>4. \A c \in Callers, t \in 0..MaxTime : Between(c, t, Min({MaxTime, t + Window - 1})) <= 2 * Allowed
    BY <1>2, <2>1, <2>2 DEF RateInv, SpansFit
  <2>5. ASSUME refused # NoRequest
        PROVE  Between(refused.who, Max({0, refused.when - Window + 1}), refused.when) >= Allowed
    <3>1. refused.when \in Nat BY <1>2, <2>1, <2>5 DEF RateInv, RefusedHadItsShare
    <3>2. Max({0, refused.when - Window + 1}) = Since(refused.when) BY <2>3, <3>1
    <3> QED BY <1>2, <2>5, <3>2 DEF RateInv, RefusedHadItsShare
  <2> QED BY <2>4, <2>5 DEF LimitIsFair
<1> QED BY <1>1, <1>2, RateStarts, PTL

-----------------------------------------------------------------------------
(* ContextBroker: a prompt stays within its budget.                        *)

\* The greatest number of a set of numbers up to N.
LEMMA GreatestNatural ==
  ASSUME NEW N \in Nat, NEW S \in SUBSET (0..N), S # {}
  PROVE  Max(S) \in S /\ \A x \in S : x <= Max(S)
<1> DEFINE T == {N - x : x \in S}
<1>1. T \in SUBSET Nat /\ T # {}
  <2>1. \A x \in S : x \in 0..N OBVIOUS
  <2>2. \A x \in 0..N : N - x \in Nat OBVIOUS
  <2>3. \A y \in T : y \in Nat BY <2>1, <2>2
  <2> QED BY <2>3
<1>2. PICK y \in T : \A z \in T : y <= z
  <2> HIDE DEF T
  <2> QED BY <1>1, LeastNatural
<1>3. PICK x \in S : y = N - x BY <1>2
<1>4. ASSUME NEW w \in S PROVE w <= x
  <2>1. N - w \in T OBVIOUS
  <2>2. N - x <= N - w BY <1>2, <1>3, <2>1
  <2>3. w \in Nat /\ x \in Nat OBVIOUS
  <2> QED BY <2>2, <2>3
<1> QED BY <1>4 DEF Max

\* An estimate is a positive number, and grows with what is estimated.
LEMMA EstimateGrows ==
  /\ \A c \in Int : Estimate(c) \in Nat \ {0}
  /\ \A c, d \in Int : c <= d => Estimate(c) <= Estimate(d)
<1>1. ASSUME NEW c \in Int PROVE Estimate(c) = IF c \div 4 < 1 THEN 1 ELSE c \div 4
  <2> DEFINE S == {1, c \div 4}
             m == IF c \div 4 < 1 THEN 1 ELSE c \div 4
  <2>1. m \in S /\ \A x \in S : x \in Int /\ x <= m OBVIOUS
  <2> HIDE DEF S, m
  <2>2. Max(S) \in S /\ \A x \in S : x <= Max(S) BY <2>1 DEF Max
  <2>3. Max(S) = m BY <2>1, <2>2
  <2> QED BY <2>3 DEF S, m, Estimate
<1>2. \A c \in Int : c \div 4 \in Int OBVIOUS
<1>3. \A c, d \in Int : c <= d => c \div 4 <= d \div 4 OBVIOUS
<1> QED BY <1>1, <1>2, <1>3

LEMMA MarkersAreShort == \A n : Marker(n) \in Nat /\ Marker(n) <= 30 + MaxDigits
<1> SUFFICES ASSUME NEW n PROVE Marker(n) \in Nat /\ Marker(n) <= 30 + MaxDigits
  OBVIOUS
<1> DEFINE D == {d \in 1..(MaxDigits - 1) : 10 ^ d <= n}
<1>1. IsFiniteSet(1..8) /\ Cardinality(1..8) = 8
  <2>1. PICK a \in Int, b \in Int : a = 1 /\ b = 8 OBVIOUS
  <2>2. IsFiniteSet(a..b) /\ Cardinality(a..b) = IF a > b THEN 0 ELSE b - a + 1 BY FS_Interval
  <2> QED BY <2>1, <2>2
<1>2. MaxDigits = 9 /\ MaxDigits - 1 = 8 BY DEF MaxDigits
<1>3. D \subseteq 1..8 BY <1>2
<1> HIDE DEF D
<1>4. Cardinality(D) \in Nat /\ Cardinality(D) <= 8 BY <1>1, <1>3, FS_Subset, FS_CardinalityType
<1>5. Marker(n) = 30 + (1 + Cardinality(D)) BY DEF Marker, Digits, D
<1> QED BY <1>2, <1>4, <1>5

\* The tokens of a text, and of what is composed of a text and a marker.
LEMMA TokensAreNatural ==
  ASSUME NEW lines \in Seq(Nat)
  PROVE  Chars(lines) \in Nat /\ Tokens(lines) \in Nat
<1>1. Chars(lines) \in Nat
  <2>1. CASE lines = <<>> BY <2>1 DEF Chars
  <2>2. CASE lines # <<>>
    <3>1. Total(lines) \in Nat BY TotalIsNatural
    <3>2. Len(lines) \in Nat \ {0} BY <2>2
    <3>3. Chars(lines) = Total(lines) + Len(lines) - 1 BY <2>2 DEF Chars
    <3> QED BY <3>1, <3>2, <3>3
  <2> QED BY <2>1, <2>2
<1> QED BY <1>1, EstimateGrows DEF Tokens

LEMMA ComposedIsNatural ==
  ASSUME NEW kept \in Seq(Nat), NEW marker \in Nat
  PROVE  Composed(kept, marker) \in Nat
<1> DEFINE full == {i \in DOMAIN kept : kept[i] # 0}
<1>1. CASE full = {} BY <1>1 DEF Composed
<1>2. CASE full # {}
  <2>1. full \subseteq 1..Len(kept) /\ full \in SUBSET Nat OBVIOUS
  <2> HIDE DEF full
  <2>2. \E x \in full : \A y \in full : x <= y BY <1>2, <2>1, LeastNatural
  <2>3. Min(full) \in 1..Len(kept) BY <2>1, <2>2 DEF Min
  <2>4. PICK m \in 1..Len(kept) : m = Min(full) BY <2>3
  <2>5. SubSeq(kept, m, Len(kept)) \in Seq(Nat) OBVIOUS
  <2>6. Chars(SubSeq(kept, m, Len(kept))) \in Nat BY <2>5, TokensAreNatural
  <2>7. Composed(kept, marker) = Chars(SubSeq(kept, m, Len(kept))) + 1 + marker BY <1>2, <2>4 DEF Composed, full
  <2> QED BY <2>6, <2>7
<1> QED BY <1>1, <1>2

Section == [tier : 0..5, text : Seq(Nat), kept : Seq(Nat), tokens : Nat]

\* A prefix is one.
LEMMA PrefixIsPrefix ==
  ASSUME NEW s \in Seq(Nat), NEW n \in 0..Len(s)
  PROVE  Prefix(s, n) \in Seq(Nat) /\ IsPrefix(Prefix(s, n), s)
<1> DEFINE p == SubSeq(s, 1, n)
<1>1. p \in Seq(Nat) /\ Len(p) = n /\ \A i \in 1..n : p[i] = s[i] OBVIOUS
<1> HIDE DEF p
<1>2. Len(s) \in Nat /\ n \in Nat /\ n <= Len(s) OBVIOUS
<1>3. SubSeq(p, 1, n) = SubSeq(s, 1, n)
  <2>1. SubSeq(p, 1, n) \in Seq(Nat) /\ Len(SubSeq(p, 1, n)) = n /\ \A i \in 1..n : SubSeq(p, 1, n)[i] = p[i]
    BY <1>1, <1>2
  <2>2. SubSeq(s, 1, n) \in Seq(Nat) /\ Len(SubSeq(s, 1, n)) = n /\ \A i \in 1..n : SubSeq(s, 1, n)[i] = s[i]
    BY <1>2
  <2>3. \A i \in 1..n : SubSeq(p, 1, n)[i] = SubSeq(s, 1, n)[i] BY <1>1, <2>1, <2>2
  <2> QED BY <2>1, <2>2, <2>3, SeqEqual
<1>4. IsPrefix(p, s) BY <1>1, <1>2, <1>3 DEF IsPrefix
<1> QED BY <1>1, <1>4 DEF Prefix, p

\* What is cut fits where a marker fits, and shows one end.
LEMMA CutFits ==
  ASSUME NEW t \in 0..5, NEW text \in Seq(Nat), NEW max \in Nat
  PROVE  /\ Cut(t, text, max) \in Section
         /\ Cut(t, text, max).tier = t
         /\ OneEnd(Cut(t, text, max))
         /\ max >= Estimate(30 + MaxDigits) => Cut(t, text, max).tokens <= max
<1> DEFINE lines == IF KeepsTail(t) THEN Reverse(text) ELSE text
           shown == Shown(text, lines, max)
           marker == Marker(IF shown = 0 THEN Tokens(text) ELSE Omitted(text, lines, shown))
           kept == Prefix(lines, shown)
           cut == [tier |-> t, text |-> text, kept |-> kept, tokens |-> Estimate(Composed(kept, marker))]
<1>1. Cut(t, text, max) = cut BY DEF Cut
<1>2. lines \in Seq(Nat) /\ Len(lines) = Len(text) /\ Len(lines) \in Nat
  <2>1. Reverse(text) \in Seq(Nat) /\ Len(Reverse(text)) = Len(text)
    <3>1. \A i \in 1..Len(text) : (Len(text) - i) + 1 \in 1..Len(text) OBVIOUS
    <3>2. \A i \in 1..Len(text) : text[(Len(text) - i) + 1] \in Nat BY <3>1
    <3> QED BY <3>2 DEF Reverse
  <2> QED BY <2>1
<1>3. (KeepsTail(t) => lines = Reverse(text)) /\ (~ KeepsTail(t) => lines = text) OBVIOUS
<1> HIDE DEF lines
<1>4. Tried(text, lines, max) \in 0..Len(lines)
  <2> DEFINE S == {n \in 0..Len(lines) : \A i \in 1..n : Fits(lines, i, Marker(Tokens(text)), max)}
  <2>1. 0 \in S /\ S \in SUBSET (0..Len(lines)) BY <1>2
  <2> HIDE DEF S
  <2>2. Max(S) \in S BY <1>2, <2>1, GreatestNatural
  <2> QED BY <2>1, <2>2 DEF Tried, S
<1>5. shown \in 0..Len(lines) /\ (shown = 0 \/ Fits(lines, shown, Marker(Omitted(text, lines, shown)), max))
  <2> DEFINE S == {0} \cup {n \in 1..Tried(text, lines, max) : Fits(lines, n, Marker(Omitted(text, lines, n)), max)}
  <2>1. S \in SUBSET (0..Len(lines)) /\ S # {} BY <1>2, <1>4
  <2>2. \A n \in S : n = 0 \/ Fits(lines, n, Marker(Omitted(text, lines, n)), max) OBVIOUS
  <2> HIDE DEF S
  <2>3. Max(S) \in S BY <1>2, <2>1, GreatestNatural
  <2>4. shown = Max(S) BY DEF Shown, S
  <2> QED BY <2>1, <2>2, <2>3, <2>4
<1>6. kept \in Seq(Nat) /\ IsPrefix(kept, lines)
  <2> HIDE DEF shown
  <2> QED BY <1>2, <1>5, PrefixIsPrefix
<1>7. marker \in Nat /\ marker <= 30 + MaxDigits BY MarkersAreShort
<1>8. shown = 0 => kept = <<>>
  <2>1. SubSeq(lines, 1, 0) = <<>> BY <1>2
  <2> QED BY <2>1 DEF Prefix
<1>9. shown # 0 => marker = Marker(Omitted(text, lines, shown)) OBVIOUS
<1> HIDE DEF shown, marker
<1>10. shown # 0 => Estimate(Composed(kept, marker)) <= max BY <1>5, <1>9 DEF Fits
<1> HIDE DEF kept
<1>11. Composed(kept, marker) \in Nat BY <1>6, <1>7, ComposedIsNatural
<1>12. Estimate(Composed(kept, marker)) \in Nat BY <1>11, EstimateGrows
<1>13. ASSUME max >= Estimate(30 + MaxDigits) PROVE Estimate(Composed(kept, marker)) <= max
  <2>1. CASE shown = 0
    <3>1. Composed(kept, marker) = marker BY <1>8, <2>1 DEF Composed
    <3>2. 30 + MaxDigits \in Int BY DEF MaxDigits
    <3>3. Estimate(marker) <= Estimate(30 + MaxDigits) /\ Estimate(marker) \in Nat /\ Estimate(30 + MaxDigits) \in Nat
      BY <1>7, <3>2, EstimateGrows
    <3> QED BY <1>13, <3>1, <3>3
  <2>2. CASE shown # 0 BY <1>10, <2>2
  <2> QED BY <2>1, <2>2
<1>14. cut \in Section BY <1>6, <1>12 DEF Section
<1>15. OneEnd(cut)
  <2>1. IsPrefix(text, text) BY DEF IsPrefix
  <2>2. cut.tier = t /\ cut.text = text /\ cut.kept = kept OBVIOUS
  <2> HIDE DEF cut
  <2>3. IF KeepsTail(t) /\ kept # text THEN IsPrefix(kept, Reverse(text)) ELSE IsPrefix(kept, text)
    BY <1>3, <1>6, <2>1
  <2> QED BY <2>2, <2>3 DEF OneEnd
<1> QED BY <1>1, <1>13, <1>14, <1>15

\* A text that is shown whole.
LEMMA WholeIsSection ==
  ASSUME NEW t \in 0..5, NEW text \in Seq(Nat)
  PROVE  /\ Whole(t, text) \in Section /\ Whole(t, text).tier = t /\ OneEnd(Whole(t, text))
         /\ Whole(t, text).tokens = Tokens(text)
<1>1. Tokens(text) \in Nat BY TokensAreNatural
<1>2. Whole(t, text) = [tier |-> t, text |-> text, kept |-> text, tokens |-> Tokens(text)] BY DEF Whole
<1>3. IsPrefix(text, text) BY DEF IsPrefix
<1> QED BY <1>1, <1>2, <1>3 DEF Section, OneEnd

TokensOf(s) == [i \in DOMAIN s |-> s[i].tokens]

LEMMA TokensOfSections ==
  ASSUME NEW s \in Seq(Section), NEW more \in Section
  PROVE  /\ TokensOf(s) \in Seq(Nat) /\ Total(TokensOf(s)) \in Nat
         /\ Total(TokensOf(Append(s, more))) = Total(TokensOf(s)) + more.tokens
<1>1. \A i \in 1..Len(s) : s[i] \in Section /\ s[i].tokens \in Nat
  <2>1. \A i \in 1..Len(s) : s[i] \in Section OBVIOUS
  <2>2. \A x \in Section : x.tokens \in Nat BY DEF Section
  <2> QED BY <2>1, <2>2
<1>2. TokensOf(s) = [i \in 1..Len(s) |-> s[i].tokens] BY DEF TokensOf
<1>3. TokensOf(s) \in Seq(Nat) /\ Len(TokensOf(s)) = Len(s) BY <1>1, <1>2
<1> DEFINE t == Append(s, more)
           u == Append(TokensOf(s), more.tokens)
<1>4. Len(t) = Len(s) + 1 /\ t \in Seq(Section) /\ t[Len(s) + 1] = more /\ \A i \in 1..Len(s) : t[i] = s[i]
  OBVIOUS
<1>5. u \in Seq(Nat) /\ Len(u) = Len(s) + 1 /\ u[Len(s) + 1] = more.tokens
      /\ \A i \in 1..Len(s) : u[i] = TokensOf(s)[i]
  <2>1. more.tokens \in Nat BY DEF Section
  <2> QED BY <1>3, <2>1
<1> HIDE DEF t, u
<1>6. TokensOf(t) = [i \in 1..(Len(s) + 1) |-> t[i].tokens] BY <1>4 DEF TokensOf
<1>7. u = [i \in 1..(Len(s) + 1) |-> u[i]] BY <1>5
<1>8. ASSUME NEW i \in 1..(Len(s) + 1) PROVE u[i] = t[i].tokens
  <2>1. CASE i = Len(s) + 1 BY <1>4, <1>5, <2>1
  <2>2. CASE i # Len(s) + 1
    <3>1. i \in 1..Len(s) BY <2>2
    <3> QED BY <1>2, <1>4, <1>5, <3>1
  <2> QED BY <2>1, <2>2
<1>9. TokensOf(t) = u BY <1>6, <1>7, <1>8
<1>10. Total(u) = Total(TokensOf(s)) + more.tokens BY <1>3, TotalOfAppend DEF u
<1>11. Total(TokensOf(s)) \in Nat BY <1>3, TotalIsNatural
<1> QED BY <1>3, <1>9, <1>10, <1>11 DEF t

ContextInv ==
  /\ budget \in Nat /\ tier \in 0..6 /\ sections \in Seq(Section)
  /\ budget >= Estimate(30 + MaxDigits) => TotalTokens <= budget
  /\ budget = 0 => tier = 0
  /\ tier = 0 <=> sections = <<>>
  /\ tier > 0 => sections[1].tier = 0
  /\ \A i \in DOMAIN sections : OneEnd(sections[i])

LEMMA ContextStarts == ContextInit => ContextInv
<1> SUFFICES ASSUME ContextInit PROVE ContextInv
  OBVIOUS
<1>1. budget = 0 /\ tier = 0 /\ sections = <<>> BY DEF ContextInit
<1>2. 30 + MaxDigits \in Int BY DEF MaxDigits
<1>3. ~ (0 >= Estimate(30 + MaxDigits)) BY <1>2, EstimateGrows
<1>4. <<>> \in Seq(Section) OBVIOUS
<1> QED BY <1>1, <1>3, <1>4 DEF ContextInv

\* One more section that fits, if a marker fits.
LEMMA SectionKeepsContext ==
  ASSUME ContextInv, NEW more \in Section, OneEnd(more), sections = <<>> => more.tier = 0,
         budget' = budget, budget # 0, tier \in 0..5, tier' = tier + 1, sections' = Append(sections, more),
         budget >= Estimate(30 + MaxDigits) => more.tokens <= budget - TotalTokens
  PROVE  ContextInv'
<1>1. sections \in Seq(Section) /\ Len(sections) \in Nat BY DEF ContextInv
<1>2. sections' \in Seq(Section) /\ Len(sections') = Len(sections) + 1 /\ sections'[Len(sections) + 1] = more
      /\ \A i \in 1..Len(sections) : sections'[i] = sections[i]
  BY <1>1
<1>3. TotalTokens = Total(TokensOf(sections)) /\ TotalTokens' = Total(TokensOf(sections')) BY DEF TotalTokens, TokensOf
<1>4. TotalTokens \in Nat /\ TotalTokens' = TotalTokens + more.tokens /\ more.tokens \in Nat
  BY <1>1, <1>3, TokensOfSections DEF Section
<1>5. budget >= Estimate(30 + MaxDigits) => TotalTokens' <= budget BY <1>4 DEF ContextInv
<1>6. \A i \in DOMAIN sections' : OneEnd(sections'[i])
  <2> SUFFICES ASSUME NEW i \in DOMAIN sections' PROVE OneEnd(sections'[i])
    OBVIOUS
  <2>1. i \in 1..Len(sections) \/ i = Len(sections) + 1 BY <1>1, <1>2
  <2>2. CASE i \in 1..Len(sections)
    <3>1. i \in DOMAIN sections /\ sections'[i] = sections[i] BY <1>1, <1>2, <2>2
    <3> QED BY <3>1 DEF ContextInv
  <2>3. CASE i = Len(sections) + 1 BY <1>2, <2>3
  <2> QED BY <2>1, <2>2, <2>3
<1>7. sections'[1].tier = 0
  <2>1. CASE sections = <<>> BY <1>2, <2>1
  <2>2. CASE sections # <<>>
    <3>1. 1 \in 1..Len(sections) BY <1>1, <2>2
    <3>2. tier # 0 BY <2>2 DEF ContextInv
    <3> QED BY <1>2, <3>1, <3>2 DEF ContextInv
  <2> QED BY <2>1, <2>2
<1>8. sections' # <<>> BY <1>1, <1>2
<1>9. tier' \in 0..6 /\ tier' > 0 OBVIOUS
<1> QED BY <1>2, <1>5, <1>6, <1>7, <1>8, <1>9 DEF ContextInv

LEMMA ContextStep == ContextInv /\ [ContextNext]_contextVars => ContextInv'
<1> SUFFICES ASSUME ContextInv, [ContextNext]_contextVars PROVE ContextInv'
  OBVIOUS
<1>1. CASE UNCHANGED contextVars BY <1>1 DEF ContextInv, contextVars, TotalTokens
<1>2. ASSUME NEW b \in TierBudgets, BeginContext(b) PROVE ContextInv'
  <2>1. b \in Nat /\ budget' = b /\ tier' = tier /\ sections' = sections /\ budget = 0
    BY <1>2, ContextAssumption DEF BeginContext
  <2>2. sections = <<>> /\ tier = 0 BY <2>1 DEF ContextInv
  <2>3. TotalTokens' = 0
    <3>1. [i \in DOMAIN sections |-> sections[i].tokens] = <<>> BY <2>2
    <3> QED BY <2>1, <3>1, TotalOfNone DEF TotalTokens
  <2> QED BY <2>1, <2>2, <2>3 DEF ContextInv
<1>3. CASE SkipTier
  <2>1. tier \in 1..5 /\ tier' = tier + 1 /\ budget' = budget /\ sections' = sections BY <1>3 DEF SkipTier, Tiers
  <2> QED BY <2>1 DEF ContextInv, TotalTokens
<1>4. TotalTokens \in Nat
  <2>1. sections \in Seq(Section) BY DEF ContextInv
  <2>2. TokensOf(sections) \in Seq(Nat)
    <3>1. \A x \in Section : x.tokens \in Nat BY DEF Section
    <3>2. \A i \in 1..Len(sections) : sections[i].tokens \in Nat BY <2>1, <3>1
    <3>3. TokensOf(sections) = [i \in 1..Len(sections) |-> sections[i].tokens] BY <2>1 DEF TokensOf
    <3> QED BY <2>1, <3>2, <3>3
  <2> QED BY <2>2, TotalIsNatural DEF TotalTokens, TokensOf
<1>5. ASSUME NEW text \in Offers, AddSafety(text) PROVE ContextInv'
  <2> DEFINE more == IF Tokens(text) > budget THEN Cut(0, text, budget) ELSE Whole(0, text)
  <2>1. text \in Seq(Nat) /\ budget \in Nat /\ budget # 0 /\ tier = 0 /\ sections' = <<more>> /\ tier' = 1
        /\ budget' = budget /\ sections = <<>>
    BY <1>5, ContextAssumption DEF AddSafety, ContextInv
  <2>2. 0 \in 0..5 /\ Tokens(text) \in Nat BY <2>1, TokensAreNatural
  <2>3. /\ more \in Section /\ OneEnd(more) /\ more.tier = 0
        /\ budget >= Estimate(30 + MaxDigits) => more.tokens <= budget
    <3>1. CASE Tokens(text) > budget
      <4>1. more = Cut(0, text, budget) BY <3>1
      <4> HIDE DEF more
      <4> QED BY <2>1, <2>2, <4>1, CutFits
    <3>2. CASE ~ (Tokens(text) > budget)
      <4>1. more = Whole(0, text) BY <3>2
      <4> HIDE DEF more
      <4> QED BY <2>1, <2>2, <3>2, <4>1, WholeIsSection
    <3> QED BY <3>1, <3>2
  <2> HIDE DEF more
  <2>4. TotalTokens = 0
    <3>1. [i \in DOMAIN sections |-> sections[i].tokens] = <<>> BY <2>1
    <3> QED BY <3>1, TotalOfNone DEF TotalTokens
  <2>5. sections' = Append(sections, more) BY <2>1
  <2>6. budget >= Estimate(30 + MaxDigits) => more.tokens <= budget - TotalTokens
    <3>1. more.tokens \in Nat BY <2>3 DEF Section
    <3> QED BY <2>1, <2>3, <2>4, <3>1
  <2> QED BY <2>1, <2>3, <2>5, <2>6, SectionKeepsContext
<1>6. ASSUME NEW text \in Offers, AddTier(text) PROVE ContextInv'
  <2>1. text \in Seq(Nat) /\ budget \in Nat /\ tier \in 1..5 /\ tier' = tier + 1 /\ budget' = budget
    BY <1>6, ContextAssumption DEF AddTier, Tiers, ContextInv
  <2>2. Tokens(text) \in Nat /\ budget # 0 /\ sections # <<>> BY <2>1, TokensAreNatural DEF ContextInv
  <2>3. CASE Tokens(text) <= Remaining /\ sections' = Append(sections, Whole(tier, text))
    <3>1. PICK more : more = Whole(tier, text) OBVIOUS
    <3>2. more \in Section /\ OneEnd(more) /\ more.tokens = Tokens(text) BY <2>1, <3>1, WholeIsSection
    <3>3. more.tokens <= budget - TotalTokens BY <2>3, <3>2 DEF Remaining
    <3> QED BY <2>1, <2>2, <2>3, <3>1, <3>2, <3>3, SectionKeepsContext
  <2>4. CASE WorthAStub /\ sections' = Append(sections, Cut(tier, text, Remaining))
    <3>1. Remaining \in Nat /\ Remaining >= 16 BY <1>4, <2>1, <2>4 DEF WorthAStub, Remaining, MIN_SECTION_TOKENS
    <3>2. PICK more : more = Cut(tier, text, Remaining) OBVIOUS
    <3>3. /\ more \in Section /\ OneEnd(more)
          /\ Remaining >= Estimate(30 + MaxDigits) => more.tokens <= Remaining
      BY <2>1, <3>1, <3>2, CutFits
    <3>4. Estimate(30 + MaxDigits) <= 16
      <4>1. 30 + MaxDigits = 39 BY DEF MaxDigits
      <4>2. 39 <= 64 /\ 39 \in Int /\ 64 \in Int OBVIOUS
      <4>3. Estimate(39) <= Estimate(64) BY <4>2, EstimateGrows
      <4>4. Estimate(64) = 16
        <5>1. 64 \div 4 = 16 OBVIOUS
        <5>2. 16 \in {1, 16} /\ \A x \in {1, 16} : x \in Int /\ x <= 16 OBVIOUS
        <5>3. Max({1, 16}) = 16 BY <5>2 DEF Max
        <5> QED BY <5>1, <5>3 DEF Estimate
      <4>5. Estimate(39) \in Nat BY <4>2, EstimateGrows
      <4> QED BY <4>1, <4>3, <4>4, <4>5
    <3>5. Estimate(30 + MaxDigits) \in Nat
      <4>1. 30 + MaxDigits \in Int BY DEF MaxDigits
      <4> QED BY <4>1, EstimateGrows
    <3>6. more.tokens <= budget - TotalTokens BY <3>1, <3>3, <3>4, <3>5 DEF Remaining
    <3> QED BY <2>1, <2>2, <2>4, <3>2, <3>3, <3>6, SectionKeepsContext
  <2>5. CASE sections' = sections
    BY <2>1, <2>2, <2>5 DEF ContextInv, TotalTokens
  <2> QED BY <1>6, <2>3, <2>4, <2>5 DEF AddTier
<1> QED BY <1>1, <1>2, <1>3, <1>5, <1>6 DEF ContextNext

\* A prompt stays within its budget.
THEOREM PromptsStayBounded == ContextInit /\ [][ContextNext]_contextVars => []ContextBounded
<1>1. ASSUME ContextInv PROVE ContextBounded
  BY <1>1 DEF ContextInv, ContextBounded
<1> QED BY <1>1, ContextStarts, ContextStep, PTL

=============================================================================
