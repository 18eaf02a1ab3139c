-------------------------- MODULE Dispatch_proofs --------------------------
(***************************************************************************)
(* Proofs about Dispatch for any tasks, dependencies, roles and limits, and*)
(* any number of ticks at a time: the types, that a wait ends only when a  *)
(* task waited for completed, and that no more of the tasks a tick claimed *)
(* run for the first time than the limits allow for the ticks there are.   *)
(***************************************************************************)
EXTENDS Dispatch, FiniteSetTheorems, NaturalsInduction, WellFoundedInduction, TLAPS

-----------------------------------------------------------------------------
(* The tables, and sizes of sets of tasks.                                 *)

\* The transition table, column by column, as far as runs write it.
LEMMA StatusTable ==
  /\ TaskStatus = {"pending", "ready", "running", "blocked", "failed", "completed", "cancelled"}
  /\ FinalStatus = {"completed", "cancelled"}
  /\ SettledStatus = {"completed", "cancelled", "failed"}
  /\ \A s \in TaskStatus :
       /\ LawfulTask(s, "ready") <=> s \in {"pending", "blocked", "failed"}
       /\ LawfulTask(s, "running") <=> s \in {"ready", "blocked", "failed"}
       /\ LawfulTask(s, "blocked") <=> s \in {"ready", "running"}
       /\ LawfulTask(s, "completed") <=> s = "running"
       /\ LawfulTask(s, "failed") <=> s \in {"running", "blocked"}
<1>1. TaskStatus = {"pending", "ready", "running", "blocked", "failed", "completed", "cancelled"}
  BY DEF TaskStatus, TaskSuccessors
<1>2. FinalStatus = {"completed", "cancelled"} BY <1>1 DEF FinalStatus, TaskSuccessors
<1>3. SettledStatus = {"completed", "cancelled", "failed"} BY <1>2 DEF SettledStatus
<1>4. \A s \in TaskStatus :
       /\ LawfulTask(s, "ready") <=> s \in {"pending", "blocked", "failed"}
       /\ LawfulTask(s, "running") <=> s \in {"ready", "blocked", "failed"}
       /\ LawfulTask(s, "blocked") <=> s \in {"ready", "running"}
       /\ LawfulTask(s, "completed") <=> s = "running"
       /\ LawfulTask(s, "failed") <=> s \in {"running", "blocked"}
  BY <1>1 DEF LawfulTask, TaskSuccessors
<1> QED BY <1>1, <1>2, <1>3, <1>4

\* Only with an attempt left does a run wait for a dependency.
LEMMA WaitHasAttempt ==
  ASSUME NEW n \in 0..MaxAttempts, MayWait(n) PROVE n < MaxAttempts
<1>1. MaxAttempts \in 1..10 BY BoundsAssumption
<1>2. CASE n >= MaxAttempts
  <2>1. AttemptsLeft(n, MaxAttempts) = 0 BY <1>1, <1>2 DEF AttemptsLeft
  <2>2. IsRetryable("DEPENDENCY_FAILURE") BY DEF IsRetryable, NonRetryable, ClassAction
  <2>3. ActionFor("DEPENDENCY_FAILURE", 0) = "escalate_or_replan" BY <2>2 DEF ActionFor, LadderEnd
  <2> QED BY <2>1, <2>3 DEF MayWait
<1> QED BY <1>1, <1>2

\* A set of numbers that has a member has a least one.
LEMMA LeastNumber ==
  ASSUME NEW B \in SUBSET Nat, B # {} PROVE \E m \in B : \A y \in B : m <= y
<1>1. \E R : IsWellFoundedOn(R, Nat) /\ \A x, y \in Nat : <<y, x>> \in R <=> y < x
  <2>1. \A x, y \in Nat : <<y, x>> \in {ss \in Nat \X Nat : ss[1] < ss[2]} <=> y < x OBVIOUS
  <2>2. IsWellFoundedOn({ss \in Nat \X Nat : ss[1] < ss[2]}, Nat) BY NatLessThanWellFounded DEF OpToRel
  <2> QED BY <2>1, <2>2
<1>2. PICK R : IsWellFoundedOn(R, Nat) /\ \A x, y \in Nat : <<y, x>> \in R <=> y < x BY <1>1
<1>3. PICK x \in B : \A y \in B : <<y, x>> \notin R BY <1>2, WFMin
<1>4. \A y \in B : y \in Nat /\ x \in Nat /\ ~ (y < x) BY <1>2, <1>3
<1>5. \A y \in B : x <= y BY <1>4
<1> QED BY <1>5

\* So has a set of tasks.
LEMMA FirstTask ==
  ASSUME NEW S \in SUBSET Tasks, S # {} PROVE Min(S) \in S
<1>1. S \subseteq Nat BY BoundsAssumption DEF Tasks
<1>2. \E m \in S : \A y \in S : m <= y BY <1>1, LeastNumber
<1> QED BY <1>2 DEF Min

\* Sizes of sets of tasks.
LEMMA Sizes ==
  ASSUME NEW A \in SUBSET Tasks, NEW B \in SUBSET Tasks
  PROVE  /\ Cardinality(A) \in Nat /\ Cardinality(A \cup B) \in Nat
         /\ Cardinality(A \cup B) <= Cardinality(A) + Cardinality(B)
         /\ A \subseteq B => Cardinality(A) <= Cardinality(B)
         /\ Cardinality({}) = 0
         /\ \A t \in Tasks : Cardinality(A \cup {t}) <= Cardinality(A) + 1
<1>1. IsFiniteSet(A) /\ IsFiniteSet(B)
  <2>1. IsFiniteSet(Tasks) BY BoundsAssumption, FS_Interval DEF Tasks
  <2> QED BY <2>1, FS_Subset
<1>2. Cardinality(A) \in Nat /\ Cardinality(B) \in Nat BY <1>1, FS_CardinalityType
<1>3. IsFiniteSet(A \cap B) /\ Cardinality(A \cap B) \in Nat BY <1>1, FS_Intersection, FS_CardinalityType
<1>4. IsFiniteSet(A \cup B) /\ Cardinality(A \cup B) = Cardinality(A) + Cardinality(B) - Cardinality(A \cap B)
  BY <1>1, FS_Union
<1>5. A \subseteq B => Cardinality(A) <= Cardinality(B) BY <1>1, FS_Subset
<1>6. ASSUME NEW t \in Tasks PROVE Cardinality(A \cup {t}) <= Cardinality(A) + 1
  <2>1. Cardinality(A \cup {t}) = IF t \in A THEN Cardinality(A) ELSE Cardinality(A) + 1
    BY <1>1, FS_AddElement
  <2> QED BY <1>2, <2>1
<1>7. Cardinality(A \cup B) \in Nat BY <1>4, FS_CardinalityType
<1>8. Cardinality(A \cup B) <= Cardinality(A) + Cardinality(B) BY <1>2, <1>3, <1>4
<1>9. Cardinality({}) = 0 BY FS_EmptySet
<1> QED BY <1>2, <1>5, <1>6, <1>7, <1>8, <1>9

-----------------------------------------------------------------------------
(* Types.                                                                  *)

Phases == {"none", "load", "ready", "enter", "work", "check", "checked", "park", "wait", "settle", "signal"}

PassState ==
  [phase : {"idle", "counted", "planning", "starting", "claiming"}, running : SUBSET Tasks,
   rest : SUBSET Tasks, chosen : SUBSET Tasks, claims : SUBSET Tasks]

Typed ==
  /\ status \in [Tasks -> TaskStatus] /\ phase \in [Tasks -> Phases]
  /\ attempt \in [Tasks -> Nat]
  /\ unmet \in [Tasks -> BOOLEAN] /\ flag \in [Tasks -> BOOLEAN]
  /\ outcome \in [Tasks -> {"completed", "failed"}]
  /\ dependents \in [Tasks -> SUBSET Tasks]
  /\ pass \in [Passes -> PassState]
  /\ leased \subseteq Exclusive
  /\ cancels \in 0..MaxEvents /\ leases \in 0..MaxEvents /\ faults \in 0..MaxEvents
  /\ completed \subseteq Tasks /\ unclaimed \subseteq Tasks

\* A status is written and the run goes on, or it is refused and the run ends with a
\* settled task.
LEMMA StatusWritten ==
  ASSUME Typed, NEW t \in Tasks, NEW s \in TaskStatus, NEW next \in Phases, SetStatus(t, s, next)
  PROVE  /\ status' \in [Tasks -> TaskStatus] /\ phase' \in [Tasks -> Phases]
         /\ \A u \in Tasks \ {t} : status'[u] = status[u] /\ phase'[u] = phase[u]
         /\ \/ (status[t] = s \/ LawfulTask(status[t], s)) /\ status'[t] = s /\ phase'[t] = next
            \/ /\ status[t] # s /\ ~ LawfulTask(status[t], s)
               /\ status'[t] \in SettledStatus /\ phase'[t] = "none"
               /\ status[t] \in SettledStatus => status'[t] = status[t]
<1> USE DEF Typed
<1>1. CASE status[t] = s \/ LawfulTask(status[t], s) BY <1>1 DEF SetStatus, Move, Phases
<1>2. CASE ~ (status[t] = s \/ LawfulTask(status[t], s))
  <2>1. Reconcile(t) BY <1>2 DEF SetStatus
  <2>2. status[t] \in TaskStatus OBVIOUS
  <2>3. status' \in [Tasks -> TaskStatus] BY <2>1, StatusTable DEF Reconcile
  <2>4. phase' \in [Tasks -> Phases] /\ phase'[t] = "none" BY <2>1 DEF Reconcile, Move, Phases
  <2>5. \A u \in Tasks \ {t} : status'[u] = status[u] /\ phase'[u] = phase[u] BY <2>1 DEF Reconcile, Move
  <2>6. status'[t] \in SettledStatus /\ (status[t] \in SettledStatus => status'[t] = status[t])
    BY <2>1, StatusTable DEF Reconcile
  <2> QED BY <1>2, <2>3, <2>4, <2>5, <2>6
<1> QED BY <1>1, <1>2

\* The steps of a tick leave what they keep well typed.
LEMMA TickIsTyped ==
  ASSUME Typed, NEW k \in Passes, Tick(k) \/ LosePass(k) PROVE Typed'
<1> USE BoundsAssumption DEF Typed, runVars, envVars
<1>1. pass[k] \in PassState OBVIOUS
<1>2. NoPass \in PassState BY DEF NoPass, PassState
<1>3. Fault => faults' \in 0..MaxEvents BY DEF Fault, May
<1>4. CASE CountRunning(k)
  <2>1. Counted \subseteq Tasks BY DEF Counted
  <2>2. [NoPass EXCEPT !.phase = "counted", !.running = Counted] \in PassState
    BY <2>1 DEF NoPass, PassState
  <2> QED BY <1>4, <2>2 DEF CountRunning
<1>5. CASE ReadCandidates(k)
  <2>1. Candidates \subseteq Tasks BY DEF Candidates
  <2>2. [pass[k] EXCEPT !.phase = "planning", !.rest = Candidates] \in PassState
    BY <1>1, <2>1 DEF PassState
  <2>3. pass' = [pass EXCEPT ![k] = [pass[k] EXCEPT !.phase = "planning", !.rest = Candidates]]
    BY <1>1, <1>5 DEF ReadCandidates, PassState
  <2> HIDE DEF Candidates
  <2> QED BY <1>5, <2>2, <2>3 DEF ReadCandidates
<1>6. CASE Consider(k)
  <2>1. CASE pass[k].rest = {}
    <3>1. [NoPass EXCEPT !.phase = "starting", !.rest = pass[k].chosen] \in PassState
      BY <1>1 DEF NoPass, PassState
    <3> QED BY <1>6, <2>1, <3>1 DEF Consider
  <2>2. CASE pass[k].rest # {}
    <3>1. PICK t \in Tasks : t = Min(pass[k].rest) BY <1>1, <2>2, FirstTask DEF PassState
    <3>2. PICK C \in SUBSET Tasks :
            pass' = [pass EXCEPT ![k] = [pass[k] EXCEPT !.rest = @ \ {t}, !.chosen = C]]
      BY <1>1, <1>6, <2>2, <3>1, ZenonT(40) DEF Consider, PassState
    <3>3. [pass[k] EXCEPT !.rest = @ \ {t}, !.chosen = C] \in PassState BY <1>1 DEF PassState
    <3> QED BY <1>6, <3>2, <3>3 DEF Consider
  <2> QED BY <2>1, <2>2
<1>7. CASE StartNext(k)
  <2>1. PICK t \in Tasks : t = Min(pass[k].rest) BY <1>1, <1>7, FirstTask DEF StartNext, PassState
  <2>2. PICK C \in SUBSET Tasks :
          pass' = [pass EXCEPT ![k] = [pass[k] EXCEPT !.rest = @ \ {t}, !.claims = C]]
    <3>1. \/ pass' = [pass EXCEPT ![k].rest = @ \ {t}, ![k].claims = @ \cup {t}]
          \/ pass' = [pass EXCEPT ![k].rest = @ \ {t}]
      BY <1>7, <2>1 DEF StartNext
    <3>2. CASE pass' = [pass EXCEPT ![k].rest = @ \ {t}, ![k].claims = @ \cup {t}]
      <4>1. pass[k].claims \cup {t} \in SUBSET Tasks BY <1>1 DEF PassState
      <4>2. pass' = [pass EXCEPT ![k] = [pass[k] EXCEPT !.rest = @ \ {t}, !.claims = pass[k].claims \cup {t}]]
        BY <1>1, <3>2 DEF PassState
      <4> QED BY <4>1, <4>2
    <3>3. CASE pass' = [pass EXCEPT ![k].rest = @ \ {t}]
      <4>1. pass[k].claims \in SUBSET Tasks BY <1>1 DEF PassState
      <4>2. [pass[k] EXCEPT !.rest = @ \ {t}] = [pass[k] EXCEPT !.rest = @ \ {t}, !.claims = pass[k].claims]
        BY <1>1 DEF PassState
      <4>3. pass' = [pass EXCEPT ![k] = [pass[k] EXCEPT !.rest = @ \ {t}]] BY <1>1, <3>3 DEF PassState
      <4> QED BY <4>1, <4>2, <4>3
    <3> QED BY <3>1, <3>2, <3>3
  <2>3. [pass[k] EXCEPT !.rest = @ \ {t}, !.claims = C] \in PassState BY <1>1 DEF PassState
  <2>4. phase' \in [Tasks -> Phases] BY <1>7, <2>1 DEF StartNext, Phases
  <2>5. faults' \in 0..MaxEvents BY <1>3, <1>7 DEF StartNext
  <2>6. unclaimed' \subseteq Tasks BY <1>7, <2>1 DEF StartNext
  <2>7. UNCHANGED <<status, attempt, unmet, flag, outcome, dependents, completed, leased, cancels, leases>>
    BY <1>7 DEF StartNext
  <2>8. pass' \in [Passes -> PassState] BY <2>2, <2>3
  <2> QED BY <2>4, <2>5, <2>6, <2>7, <2>8
<1>8. CASE ReadClaims(k)
  <2>1. PICK C \in SUBSET Tasks :
          pass' = [pass EXCEPT ![k] = [pass[k] EXCEPT !.phase = "claiming", !.claims = C]]
    BY <1>1, <1>8 DEF ReadClaims, PassState
  <2>2. [pass[k] EXCEPT !.phase = "claiming", !.claims = C] \in PassState BY <1>1 DEF PassState
  <2>3. pass' \in [Passes -> PassState] BY <2>1, <2>2
  <2>4. unclaimed' \subseteq Tasks BY <1>1, <1>8 DEF ReadClaims, Dropped, PassState
  <2>5. UNCHANGED <<status, runVars, envVars>> BY <1>8 DEF ReadClaims
  <2> QED BY <2>3, <2>4, <2>5
<1>9. CASE WriteClaims(k) BY <1>2, <1>9, StatusTable DEF WriteClaims
<1>10. CASE LosePass(k)
  <2>1. unclaimed' \subseteq Tasks BY <1>1, <1>10 DEF LosePass, PassState
  <2>2. pass' = [pass EXCEPT ![k] = NoPass] /\ faults' \in 0..MaxEvents BY <1>3, <1>10 DEF LosePass
  <2>3. UNCHANGED <<status, runVars, leased, cancels, leases>> BY <1>10 DEF LosePass
  <2> QED BY <1>2, <2>1, <2>2, <2>3
<1> QED BY <1>4, <1>5, <1>6, <1>7, <1>8, <1>9, <1>10 DEF Tick

\* So do the steps of a run, of people and of leases.
LEMMA RunIsTyped ==
  ASSUME Typed, NEW t \in Tasks,
         Run(t) \/ Deadline(t) \/ Cancel(t) \/ TakeLease(t) \/ EndLease(t)
  PROVE  Typed'
<1> USE BoundsAssumption DEF Typed, runVars, envVars, May
<1>1. CASE Load(t) BY <1>1 DEF Load, Move, Phases
<1>2. CASE Enter(t)
  <2>1. status' \in [Tasks -> TaskStatus] /\ phase' \in [Tasks -> Phases]
    BY <1>2, StatusWritten, StatusTable DEF Enter, Phases
  <2> QED BY <1>2, <2>1 DEF Enter
<1>3. CASE Work(t) BY <1>3 DEF Work, Move, Phases
<1>4. CASE CheckDependencies(t)
  <2>1. (\E d \in DependsOn[t] : status[d] \notin SettledStatus) \in BOOLEAN OBVIOUS
  <2> QED BY <1>4, <2>1 DEF CheckDependencies, Move, Phases
<1>5. CASE Park(t) BY <1>5 DEF Park, NextAttempt, Move, Phases
<1>6. CASE Block(t)
  <2>1. status' \in [Tasks -> TaskStatus] /\ phase' \in [Tasks -> Phases]
    BY <1>6, StatusWritten, StatusTable DEF Block, Phases
  <2> QED BY <1>6, <2>1 DEF Block
<1>7. CASE Resume(t)
  <2>1. status' \in [Tasks -> TaskStatus] /\ phase' \in [Tasks -> Phases]
    BY <1>7, StatusWritten, StatusTable DEF Resume, Phases
  <2>2. attempt' \in [Tasks -> Nat] BY <1>7 DEF Resume
  <2> QED BY <1>7, <2>1, <2>2 DEF Resume
<1>8. CASE Deadline(t) BY <1>8 DEF Deadline, Move, Phases
<1>9. CASE Settle(t)
  <2>1. status' \in [Tasks -> TaskStatus] /\ phase' \in [Tasks -> Phases]
    BY <1>9, StatusWritten, StatusTable DEF Settle, Phases
  <2>2. Woken(t) \subseteq Tasks BY DEF Woken
  <2>3. dependents' \in [Tasks -> SUBSET Tasks] BY <1>9, <2>2 DEF Settle
  <2> QED BY <1>9, <2>1, <2>3 DEF Settle
<1>10. CASE Signal(t)
  <2>1. PICK d \in dependents[t] :
          /\ dependents' = [dependents EXCEPT ![t] = @ \ {d}]
          /\ flag' = [flag EXCEPT ![d] = @ \/ phase[d] # "none"]
    BY <1>10 DEF Signal
  <2>2. d \in Tasks OBVIOUS
  <2>3. (flag[d] \/ phase[d] # "none") \in BOOLEAN OBVIOUS
  <2>4. flag' \in [Tasks -> BOOLEAN] BY <2>1, <2>2, <2>3
  <2>5. phase' \in [Tasks -> Phases] BY <1>10 DEF Signal, Move, Phases
  <2> QED BY <1>10, <2>1, <2>4, <2>5 DEF Signal
<1>11. CASE Cancel(t) BY <1>11, StatusTable DEF Cancel
<1>12. CASE TakeLease(t) \/ EndLease(t) BY <1>12 DEF TakeLease, EndLease
<1> QED BY <1>1, <1>2, <1>3, <1>4, <1>5, <1>6, <1>7, <1>8, <1>9, <1>10, <1>11, <1>12 DEF Run

-----------------------------------------------------------------------------
(* The type invariant.  That attempts are bounded rests on where a run may *)
(* go on to another one.                                                   *)

AttemptsBounded ==
  \A t \in Tasks :
    /\ attempt[t] <= MaxAttempts
    /\ phase[t] \in {"check", "checked", "park", "wait"} => attempt[t] < MaxAttempts

TypeInv == Typed /\ AttemptsBounded

\* A run takes another attempt only while the policy of its class leaves one.
LEMMA RunBoundsAttempts ==
  ASSUME TypeInv, NEW t \in Tasks,
         Run(t) \/ Deadline(t) \/ Cancel(t) \/ TakeLease(t) \/ EndLease(t)
  PROVE  AttemptsBounded'
<1> DEFINE Waiting == {"check", "checked", "park", "wait"}
           OK(u) == attempt'[u] <= MaxAttempts /\ (phase'[u] \in Waiting => attempt'[u] < MaxAttempts)
<1>0. /\ Typed /\ MaxAttempts \in 1..10 /\ attempt[t] \in Nat /\ attempt[t] <= MaxAttempts
      /\ phase[t] \in Waiting => attempt[t] < MaxAttempts
  BY BoundsAssumption DEF TypeInv, Typed, AttemptsBounded
<1>1. SUFFICES /\ OK(t)
               /\ \A u \in Tasks \ {t} : phase'[u] = phase[u] /\ attempt'[u] = attempt[u]
  BY DEF TypeInv, AttemptsBounded
<1>2. CASE Load(t) BY <1>0, <1>2 DEF Load, Move, Typed
<1>3. CASE Work(t)
  <2>1. phase'[t] = "check" => attempt[t] < MaxAttempts
    BY <1>0, <1>3, WaitHasAttempt DEF Work, Move, Typed
  <2> QED BY <1>0, <1>3, <2>1 DEF Work, Move, Typed
<1>4. CASE CheckDependencies(t) BY <1>0, <1>4 DEF CheckDependencies, Move, Typed
<1>5. CASE Park(t) BY <1>0, <1>5 DEF Park, NextAttempt, Move, Typed
<1>6. CASE Deadline(t) BY <1>0, <1>6 DEF Deadline, Move, Typed
<1>7. CASE Signal(t) BY <1>0, <1>7 DEF Signal, Move, Typed
<1>8. CASE Cancel(t) \/ TakeLease(t) \/ EndLease(t)
  BY <1>0, <1>8 DEF Cancel, TakeLease, EndLease, runVars, TypeInv, AttemptsBounded
<1>9. ASSUME NEW s \in TaskStatus, NEW next \in Phases \ {"check", "checked", "park"},
             SetStatus(t, s, next), next = "wait" => phase[t] \in Waiting,
             attempt' = attempt \/ (phase[t] \in Waiting /\ next = "work"
               /\ attempt' = [attempt EXCEPT ![t] = IF phase'[t] = "work" THEN @ + 1 ELSE @])
      PROVE  OK(t) /\ \A u \in Tasks \ {t} : phase'[u] = phase[u] /\ attempt'[u] = attempt[u]
  <2>1. phase'[t] \in {next, "none"} /\ \A u \in Tasks \ {t} : phase'[u] = phase[u]
    BY <1>0, <1>9, StatusWritten
  <2> QED BY <1>0, <1>9, <2>1 DEF Typed
<1>10. /\ {"enter", "work", "wait", "none", "signal"} \subseteq Phases \ {"check", "checked", "park"}
       /\ {"ready", "running", "blocked"} \subseteq TaskStatus /\ outcome[t] \in TaskStatus
  BY <1>0, StatusTable DEF Phases, Typed
<1>11. CASE Enter(t) BY <1>9, <1>10, <1>11 DEF Enter
<1>12. CASE Block(t) BY <1>9, <1>10, <1>12 DEF Block
<1>13. CASE Resume(t) BY <1>9, <1>10, <1>13 DEF Resume
<1>14. CASE Settle(t)
  <2>1. PICK next \in {"none", "signal"} : SetStatus(t, outcome[t], next) BY <1>14 DEF Settle
  <2> QED BY <1>9, <1>10, <1>14, <2>1 DEF Settle
<1> QED BY <1>2, <1>3, <1>4, <1>5, <1>6, <1>7, <1>8, <1>11, <1>12, <1>13, <1>14 DEF Run

\* A tick starts runs and moves none of them on.
LEMMA TickMoves ==
  ASSUME Typed, NEW k \in Passes, Tick(k) \/ LosePass(k)
  PROVE  attempt' = attempt /\ \A t \in Tasks : phase'[t] \in {phase[t], "load"}
<1>1. CASE StartNext(k)
  <2>1. attempt' = attempt /\ (phase' = phase \/ \E t : phase' = [phase EXCEPT ![t] = "load"])
    BY <1>1 DEF StartNext
  <2> QED BY <2>1 DEF Typed
<1>2. CASE ~ StartNext(k)
  BY <1>2 DEF Tick, LosePass, CountRunning, ReadCandidates, Consider, ReadClaims, WriteClaims, runVars
<1> QED BY <1>1, <1>2

\* A step of the run of one task leaves the status and the run of the others.
LEMMA RunTouchesOne ==
  ASSUME Typed, NEW t \in Tasks,
         Run(t) \/ Deadline(t) \/ Cancel(t) \/ TakeLease(t) \/ EndLease(t)
  PROVE  \A u \in Tasks \ {t} : status'[u] = status[u] /\ phase'[u] = phase[u] /\ attempt'[u] = attempt[u]
<1> USE DEF Typed
<1>1. \A s \in {"ready", "running", "blocked", outcome[t]}, next \in Phases :
        SetStatus(t, s, next) => \A u \in Tasks \ {t} : status'[u] = status[u] /\ phase'[u] = phase[u]
  BY StatusWritten, StatusTable
<1>2. {"enter", "work", "wait", "none", "signal"} \subseteq Phases BY DEF Phases
<1>3. CASE Enter(t) \/ Block(t) \/ Resume(t) \/ Settle(t)
  BY <1>1, <1>2, <1>3 DEF Enter, Block, Resume, Settle
<1>4. CASE Load(t) \/ Work(t) \/ CheckDependencies(t) \/ Park(t) \/ Signal(t)
  BY <1>4 DEF Load, Work, CheckDependencies, Park, NextAttempt, Signal, Move
<1>5. CASE Deadline(t) \/ Cancel(t) \/ TakeLease(t) \/ EndLease(t)
  BY <1>5 DEF Deadline, Cancel, TakeLease, EndLease, Move, runVars
<1> QED BY <1>3, <1>4, <1>5 DEF Run

\* At the start nothing runs.
LEMMA InitIsTyped == Init => TypeInv
<1> SUFFICES ASSUME Init PROVE TypeInv OBVIOUS
<1>1. NoPass \in PassState BY DEF NoPass, PassState
<1>2. MaxAttempts \in 1..10 /\ MaxEvents \in Nat BY BoundsAssumption
<1>3. Typed BY <1>1, <1>2, StatusTable DEF Init, Typed, Phases
<1>4. AttemptsBounded BY <1>2 DEF Init, AttemptsBounded
<1> QED BY <1>3, <1>4 DEF TypeInv

\* Every step keeps the types.
LEMMA StepIsTyped == Typed /\ [Next]_vars => Typed'
<1> SUFFICES ASSUME Typed, [Next]_vars PROVE Typed' OBVIOUS
<1>1. CASE UNCHANGED vars BY <1>1 DEF vars, runVars, envVars, Typed
<1> QED BY <1>1, TickIsTyped, RunIsTyped DEF Next

\* Every variable of the scheduler keeps its kind and attempts stay within their number,
\* whatever ticks, runs, cancellations and leases do.
THEOREM DispatchTyped == Spec => []TypeOK
<1>1. TypeInv /\ [Next]_vars => TypeInv'
  <2> SUFFICES ASSUME TypeInv, [Next]_vars PROVE AttemptsBounded' BY StepIsTyped DEF TypeInv
  <2>1. ASSUME NEW k \in Passes, Tick(k) \/ LosePass(k) PROVE AttemptsBounded'
    BY <2>1, TickMoves DEF TypeInv, AttemptsBounded
  <2>2. CASE UNCHANGED vars BY <2>2 DEF vars, runVars, TypeInv, AttemptsBounded
  <2> QED BY <2>1, <2>2, RunBoundsAttempts DEF Next
<1>2. TypeInv => TypeOK
  <2> SUFFICES ASSUME TypeInv PROVE TypeOK OBVIOUS
  <2>1. MaxAttempts \in 1..10 BY BoundsAssumption
  <2>2. attempt \in [Tasks -> 0..MaxAttempts] BY <2>1 DEF TypeInv, Typed, AttemptsBounded
  <2>3. \A k \in Passes :
          /\ pass[k].phase \in {"idle", "counted", "planning", "starting", "claiming"}
          /\ pass[k].running \subseteq Tasks /\ pass[k].claims \subseteq Tasks
          /\ pass[k].rest \subseteq Tasks /\ pass[k].chosen \subseteq Tasks
    BY DEF TypeInv, Typed, PassState
  <2> QED BY <2>2, <2>3 DEF TypeInv, Typed, TypeOK, Phases
<1> QED BY <1>1, <1>2, InitIsTyped, PTL DEF Spec

-----------------------------------------------------------------------------
(* Waits.                                                                  *)

\* A signal that has arrived, and one still to be sent, come from a completed task.
WokenInv ==
  \A t \in Tasks :
    /\ flag[t] => DependsOn[t] \cap completed # {}
    /\ \A d \in dependents[t] : t \in DependsOn[d] /\ t \in completed

\* Completions are written before the signals are listed.
LEMMA RunKeepsWoken ==
  ASSUME Typed, WokenInv, NEW t \in Tasks,
         Run(t) \/ Deadline(t) \/ Cancel(t) \/ TakeLease(t) \/ EndLease(t)
  PROVE  WokenInv'
<1> USE DEF Typed
<1>1. CASE Settle(t)
  <2>1. PICK next \in {"none", "signal"} :
          SetStatus(t, outcome[t], next) /\ (next = "signal" <=> Woken(t) # {})
    BY <1>1 DEF Settle
  <2>2. outcome[t] \in TaskStatus /\ next \in Phases BY StatusTable DEF Phases
  <2>3. phase'[t] = "signal" => status'[t] = outcome[t] /\ Woken(t) # {} BY <2>1, <2>2, StatusWritten
  <2>4. Woken(t) # {} => outcome[t] = "completed" BY DEF Woken
  <2>5. /\ UNCHANGED flag /\ completed \subseteq completed'
        /\ outcome[t] = "completed" /\ status'[t] = "completed" => t \in completed'
        /\ dependents' = [dependents EXCEPT ![t] = IF phase'[t] = "signal" THEN Woken(t) ELSE {}]
    BY <1>1 DEF Settle
  <2>6. \A d \in dependents'[t] : t \in DependsOn[d] /\ t \in completed'
    BY <2>3, <2>4, <2>5 DEF Woken
  <2>7. \A u \in Tasks \ {t} : dependents'[u] = dependents[u] BY <2>5
  <2> QED BY <2>5, <2>6, <2>7 DEF WokenInv
<1>2. CASE Signal(t)
  <2>1. PICK d \in dependents[t] :
          /\ dependents' = [dependents EXCEPT ![t] = @ \ {d}]
          /\ flag' = [flag EXCEPT ![d] = @ \/ phase[d] # "none"]
    BY <1>2 DEF Signal
  <2>2. completed' = completed BY <1>2 DEF Signal
  <2>3. d \in Tasks /\ DependsOn[d] \cap completed # {} BY <2>1 DEF WokenInv
  <2>4. \A u \in Tasks \ {d} : flag'[u] = flag[u] BY <2>1
  <2>5. \A u \in Tasks : dependents'[u] \subseteq dependents[u] BY <2>1
  <2> QED BY <2>2, <2>3, <2>4, <2>5 DEF WokenInv
<1>3. CASE Park(t)
  <2>1. flag' = [flag EXCEPT ![t] = FALSE] /\ UNCHANGED <<dependents, completed>> BY <1>3 DEF Park
  <2> QED BY <2>1 DEF WokenInv
<1>4. CASE ~ (Settle(t) \/ Signal(t) \/ Park(t))
  <2>1. UNCHANGED <<flag, dependents, completed>>
    BY <1>4 DEF Run, Load, Enter, Work, CheckDependencies, Block, Resume, Deadline, Cancel,
                TakeLease, EndLease, runVars
  <2> QED BY <2>1 DEF WokenInv
<1> QED BY <1>1, <1>2, <1>3, <1>4

\* Every step keeps what is known of signals.
LEMMA StepKeepsWoken == Typed /\ WokenInv /\ [Next]_vars => WokenInv'
<1> SUFFICES ASSUME Typed, WokenInv, [Next]_vars PROVE WokenInv' OBVIOUS
<1>1. ASSUME NEW k \in Passes, Tick(k) \/ LosePass(k) PROVE WokenInv'
  <2>1. UNCHANGED <<flag, dependents, completed>>
    BY <1>1 DEF Tick, LosePass, CountRunning, ReadCandidates, Consider, StartNext, ReadClaims,
                WriteClaims, runVars
  <2> QED BY <2>1 DEF WokenInv
<1>2. CASE UNCHANGED vars BY <1>2 DEF vars, runVars, WokenInv
<1> QED BY <1>1, <1>2, RunKeepsWoken DEF Next

\* Only the signal takes a run from its wait back to its work.
LEMMA WaitIsLeft ==
  ASSUME Typed, [Next]_vars, NEW t \in Tasks, phase[t] = "wait", phase'[t] = "work"
  PROVE  flag[t]
<1> USE DEF Typed
<1>1. ASSUME NEW k \in Passes, Tick(k) \/ LosePass(k) PROVE FALSE
  <2>1. phase'[t] \in {phase[t], "load"}
    BY <1>1, TickMoves
  <2> QED BY <2>1
<1>2. ASSUME NEW u \in Tasks, Run(u) \/ Deadline(u) \/ Cancel(u) \/ TakeLease(u) \/ EndLease(u)
      PROVE  flag[t]
  <2>1. CASE u = t
    BY <1>2, <2>1 DEF Run, Load, Enter, Work, CheckDependencies, Park, Block, Resume, Settle, Signal,
                      Deadline, Cancel, TakeLease, EndLease, Move, runVars
  <2>2. CASE u # t BY <1>2, <2>2, RunTouchesOne
  <2> QED BY <2>1, <2>2
<1>3. CASE UNCHANGED vars BY <1>3 DEF vars, runVars
<1> QED BY <1>1, <1>2, <1>3 DEF Next

\* However runs, ticks, faults and cancellations meet, a run goes from its wait back to
\* its work only when a task it depends on has completed: a failure wakes nobody, and a
\* signal of an earlier wait does not end a later one.
THEOREM WaitsEndByCompletion == Spec => WokenByCompletion
<1> DEFINE Woke == \A t \in Tasks : phase[t] = "wait" /\ phase'[t] = "work" => DependsOn[t] \cap completed # {}
<1>1. Init => Typed /\ WokenInv
  <2>1. Init => TypeInv BY InitIsTyped
  <2> QED BY <2>1 DEF TypeInv, Init, WokenInv
<1>2. Typed /\ WokenInv /\ [Next]_vars => Typed' /\ WokenInv' BY StepKeepsWoken, StepIsTyped
<1>3. Typed /\ WokenInv /\ [Next]_vars => Woke BY WaitIsLeft DEF WokenInv
<1> QED BY <1>1, <1>2, <1>3, PTL DEF Spec, WokenByCompletion

-----------------------------------------------------------------------------
(* What a tick has picked, and what runs may come to run.                  *)

\* Tasks a run of which may still enter running by itself.
Loose ==
  {t \in Tasks : phase[t] \in {"load", "ready", "enter"} /\ status[t] \notin FinalStatus \cup {"running"}}

\* Claimed tasks that run for the first time, or whose run is about to begin anew.
Firsts ==
  {t \in Tasks : status[t] = "running" /\ (attempt[t] <= 1 \/ phase[t] = "load")} \ unclaimed

\* A run has an attempt once it is loaded, and the first one when it enters; what may
\* enter was claimed by a tick or is known not to have been.
Entering ==
  /\ \A t \in Tasks :
       /\ phase[t] \notin {"none", "load"} => attempt[t] >= 1
       /\ phase[t] \in {"ready", "enter"} => attempt[t] = 1
  /\ \A t \in Loose \ unclaimed : \E k \in Passes : t \in pass[k].claims

\* Which lists a tick holds at each of its phases.
PassShape(k) ==
  LET p == pass[k] IN
  /\ p.phase \in {"idle", "counted"} => p.rest = {} /\ p.chosen = {} /\ p.claims = {}
  /\ p.phase = "planning" => p.claims = {}
  /\ p.phase = "starting" => p.chosen = {}
  /\ p.phase = "claiming" => p.rest = {} /\ p.chosen = {}

\* The fields of a tick after a step of it.
LEMMA TickSteps ==
  ASSUME NEW k \in Passes, Typed, PassShape(k)
  PROVE  LET p == pass[k]  q == pass'[k] IN
         /\ CountRunning(k) =>
              p.phase = "idle"
              /\ q.phase = "counted" /\ q.running = Counted /\ q.rest = {} /\ q.chosen = {} /\ q.claims = {}
         /\ ReadCandidates(k) =>
              p.phase = "counted" /\ q.phase = "planning" /\ q.running = p.running
              /\ q.rest = {t \in Tasks : status[t] \in Schedulable} /\ q.chosen = {} /\ q.claims = {}
         /\ Consider(k) =>
              \/ p.phase = "planning" /\ p.rest = {}
                 /\ q.phase = "starting" /\ q.rest = p.chosen /\ q.chosen = {} /\ q.claims = {}
              \/ p.phase = "planning" /\ p.claims = {} /\ q.claims = {}
                 /\ q.phase = "planning" /\ q.running = p.running
                 /\ \E t \in p.rest :
                      /\ q.rest = p.rest \ {t}
                      /\ \/ q.chosen = p.chosen
                         \/ q.chosen = p.chosen \cup {t} /\ Fits(t, p.running, p.chosen)
         /\ StartNext(k) =>
              p.phase = "starting" /\ q.phase = "starting" /\ p.chosen = {} /\ q.chosen = {}
              /\ \E t \in p.rest :
                   /\ q.rest = p.rest \ {t}
                   /\ \/ /\ phase[t] = "none" /\ phase' = [phase EXCEPT ![t] = "load"]
                         /\ q.claims = p.claims \cup {t} /\ unclaimed' = unclaimed
                      \/ /\ phase[t] = "none" /\ phase' = [phase EXCEPT ![t] = "load"]
                         /\ q.claims = p.claims /\ unclaimed' = unclaimed \cup {t}
                      \/ /\ phase' = phase /\ q.claims = p.claims /\ unclaimed' = unclaimed
         /\ ReadClaims(k) =>
              p.phase = "starting" /\ p.rest = {} /\ p.chosen = {}
              /\ q.phase = "claiming" /\ q.rest = {} /\ q.chosen = {}
              /\ q.claims = {t \in p.claims : status[t] \in Schedulable}
         /\ WriteClaims(k) \/ LosePass(k) => q = NoPass
         /\ WriteClaims(k) => p.phase = "claiming" /\ p.rest = {} /\ p.chosen = {}
<1> DEFINE p == pass[k]
           q == pass'[k]
<1>0. p \in PassState BY DEF Typed
<1> USE DEF PassShape, Typed
<1>1. ASSUME CountRunning(k)
      PROVE  p.phase = "idle"
             /\ q.phase = "counted" /\ q.running = Counted /\ q.rest = {} /\ q.chosen = {} /\ q.claims = {}
  BY <1>0, <1>1 DEF CountRunning, NoPass, PassState
<1>2. ASSUME ReadCandidates(k)
      PROVE  p.phase = "counted" /\ q.phase = "planning" /\ q.running = p.running
             /\ q.rest = {t \in Tasks : status[t] \in Schedulable} /\ q.chosen = {} /\ q.claims = {}
  BY <1>0, <1>2 DEF ReadCandidates, Candidates, PassState
<1>3. ASSUME Consider(k), p.rest = {}
      PROVE  p.phase = "planning" /\ p.rest = {}
             /\ q.phase = "starting" /\ q.rest = p.chosen /\ q.chosen = {} /\ q.claims = {}
  <2>1. pass' = [pass EXCEPT ![k] = [NoPass EXCEPT !.phase = "starting", !.rest = p.chosen]]
        /\ p.phase = "planning"
    BY <1>3 DEF Consider
  <2> QED BY <1>0, <1>3, <2>1 DEF NoPass, PassState
<1>4. ASSUME Consider(k), p.rest # {}
      PROVE  p.phase = "planning" /\ p.claims = {} /\ q.claims = {}
             /\ q.phase = "planning" /\ q.running = p.running
             /\ \E t \in p.rest :
                  /\ q.rest = p.rest \ {t}
                  /\ \/ q.chosen = p.chosen
                     \/ q.chosen = p.chosen \cup {t} /\ Fits(t, p.running, p.chosen)
  <2>1. PICK t \in p.rest : t = Min(p.rest) BY <1>0, <1>4, FirstTask DEF PassState
  <2>2. pass' = [pass EXCEPT ![k].rest = @ \ {t},
                             ![k].chosen = IF Fits(t, p.running, @) THEN @ \cup {t} ELSE @]
        /\ p.phase = "planning"
    BY <1>4, <2>1 DEF Consider
  <2>3. CASE Fits(t, p.running, p.chosen)
    <3>1. pass' = [pass EXCEPT ![k].rest = @ \ {t}, ![k].chosen = @ \cup {t}] BY <2>2, <2>3
    <3> QED BY <1>0, <2>1, <2>2, <2>3, <3>1 DEF PassState
  <2>4. CASE ~ Fits(t, p.running, p.chosen)
    <3>1. pass' = [pass EXCEPT ![k].rest = @ \ {t}, ![k].chosen = @] BY <2>2, <2>4
    <3> QED BY <1>0, <2>1, <2>2, <3>1 DEF PassState
  <2> QED BY <2>3, <2>4
<1>5. ASSUME StartNext(k)
      PROVE  p.phase = "starting" /\ q.phase = "starting" /\ p.chosen = {} /\ q.chosen = {}
             /\ \E t \in p.rest :
                  /\ q.rest = p.rest \ {t}
                  /\ \/ /\ phase[t] = "none" /\ phase' = [phase EXCEPT ![t] = "load"]
                        /\ q.claims = p.claims \cup {t} /\ unclaimed' = unclaimed
                     \/ /\ phase[t] = "none" /\ phase' = [phase EXCEPT ![t] = "load"]
                        /\ q.claims = p.claims /\ unclaimed' = unclaimed \cup {t}
                     \/ /\ phase' = phase /\ q.claims = p.claims /\ unclaimed' = unclaimed
  <2>1. PICK t \in p.rest : t = Min(p.rest) BY <1>0, <1>5, FirstTask DEF StartNext, PassState
  <2>2. /\ p.phase = "starting"
        /\ \/ /\ phase[t] = "none" /\ phase' = [phase EXCEPT ![t] = "load"]
              /\ pass' = [pass EXCEPT ![k].rest = @ \ {t}, ![k].claims = @ \cup {t}] /\ unclaimed' = unclaimed
           \/ /\ phase[t] = "none" /\ phase' = [phase EXCEPT ![t] = "load"]
              /\ pass' = [pass EXCEPT ![k].rest = @ \ {t}] /\ unclaimed' = unclaimed \cup {t}
           \/ /\ phase' = phase
              /\ pass' = [pass EXCEPT ![k].rest = @ \ {t}] /\ unclaimed' = unclaimed
    BY <1>5, <2>1 DEF StartNext
  <2>3. ASSUME pass' = [pass EXCEPT ![k].rest = @ \ {t}, ![k].claims = @ \cup {t}]
        PROVE  q.phase = p.phase /\ q.chosen = p.chosen /\ q.rest = p.rest \ {t}
               /\ q.claims = p.claims \cup {t}
    BY <1>0, <2>3 DEF PassState
  <2>4. ASSUME pass' = [pass EXCEPT ![k].rest = @ \ {t}]
        PROVE  q.phase = p.phase /\ q.chosen = p.chosen /\ q.rest = p.rest \ {t} /\ q.claims = p.claims
    BY <1>0, <2>4 DEF PassState
  <2>5. p.chosen = {} BY <2>2
  <2> HIDE DEF p, q
  <2> QED BY <2>1, <2>2, <2>3, <2>4, <2>5
<1>6. ASSUME ReadClaims(k)
      PROVE  p.phase = "starting" /\ p.rest = {} /\ p.chosen = {}
             /\ q.phase = "claiming" /\ q.rest = {} /\ q.chosen = {}
             /\ q.claims = {t \in p.claims : status[t] \in Schedulable}
  BY <1>0, <1>6 DEF ReadClaims, PassState
<1>7. WriteClaims(k) \/ LosePass(k) => q = NoPass BY <1>0 DEF WriteClaims, LosePass
<1>8. WriteClaims(k) => p.phase = "claiming" /\ p.rest = {} /\ p.chosen = {} BY DEF WriteClaims
<1> QED BY <1>1, <1>2, <1>3, <1>4, <1>5, <1>6, <1>7, <1>8

\* The other ticks stay as they are.
LEMMA OtherTicks ==
  ASSUME NEW k \in Passes, Typed, Tick(k) \/ LosePass(k), NEW j \in Passes \ {k}
  PROVE  pass'[j] = pass[j]
<1> USE DEF Typed
<1>1. CASE Consider(k)
  <2>1. CASE pass[k].rest = {} BY <1>1, <2>1 DEF Consider
  <2>2. CASE pass[k].rest # {} BY <1>1, <2>2 DEF Consider
  <2> QED BY <2>1, <2>2
<1>2. CASE StartNext(k) BY <1>2 DEF StartNext
<1>3. CASE ~ (Consider(k) \/ StartNext(k))
  BY <1>3 DEF Tick, LosePass, CountRunning, ReadCandidates, ReadClaims, WriteClaims
<1> QED BY <1>1, <1>2, <1>3

\* The steps of a tick keep the shape of every tick.
LEMMA TickKeepsShape ==
  ASSUME Typed, \A j \in Passes : PassShape(j), NEW k \in Passes, Tick(k) \/ LosePass(k)
  PROVE  \A j \in Passes : PassShape(j)'
<1>1. ASSUME NEW j \in Passes \ {k} PROVE PassShape(j)'
  <2>1. pass'[j] = pass[j] BY <1>1, OtherTicks
  <2> QED BY <2>1 DEF PassShape
<1>2. PassShape(k)' BY TickSteps DEF Tick, PassShape, NoPass
<1> QED BY <1>1, <1>2

\* A tick starts a run and claims it, or it is known not to have.
LEMMA TickKeepsEntering ==
  ASSUME Typed, Entering, \A j \in Passes : PassShape(j), NEW k \in Passes, Tick(k) \/ LosePass(k)
  PROVE  Entering'
<1> USE DEF Typed
<1>0. PassShape(k) /\ pass[k].claims \subseteq Tasks BY DEF PassState
<1>1. \A t \in Tasks : attempt'[t] = attempt[t] /\ phase'[t] \in {phase[t], "load"} BY TickMoves
<1>2. SUFFICES ASSUME NEW t \in Loose' \ unclaimed' PROVE \E j \in Passes : t \in pass'[j].claims
  BY <1>1 DEF Entering
<1>3. t \in Tasks BY DEF Loose
<1>4. ASSUME NEW j \in Passes \ {k}, t \in pass[j].claims PROVE \E i \in Passes : t \in pass'[i].claims
  <2>1. pass'[j] = pass[j] BY <1>4, OtherTicks
  <2> QED BY <1>4, <2>1
<1>5. t \in Loose \ unclaimed => t \in pass[k].claims \/ \E j \in Passes \ {k} : t \in pass[j].claims
  BY DEF Entering
<1>6. CASE StartNext(k)
  <2>1. status' = status /\ unclaimed \subseteq unclaimed' BY <1>6 DEF StartNext
  <2>2. t \in Loose => t \in Loose \ unclaimed BY <2>1
  <2>3. PICK u \in pass[k].rest :
          \/ phase' = [phase EXCEPT ![u] = "load"] /\ pass'[k].claims = pass[k].claims \cup {u}
          \/ phase' = [phase EXCEPT ![u] = "load"] /\ pass'[k].claims = pass[k].claims
             /\ unclaimed' = unclaimed \cup {u}
          \/ phase' = phase /\ pass'[k].claims = pass[k].claims
    BY <1>0, <1>6, TickSteps
  <2>4. CASE t \in Loose BY <1>4, <1>5, <2>2, <2>3, <2>4
  <2>5. CASE t \notin Loose
    <3>1. phase'[t] # phase[t] BY <1>3, <2>1, <2>5 DEF Loose
    <3>2. t = u /\ t \in pass'[k].claims BY <1>3, <2>3, <3>1
    <3> QED BY <3>2
  <2> QED BY <2>4, <2>5
<1>7. CASE ReadClaims(k)
  <2>1. UNCHANGED <<status, phase>> /\ unclaimed' = unclaimed \cup Dropped(k)
    BY <1>7 DEF ReadClaims, runVars
  <2>2. t \in Loose \ unclaimed /\ t \notin Dropped(k) BY <2>1 DEF Loose
  <2>3. CASE t \in pass[k].claims
    <3>1. status[t] \in Schedulable
      BY <1>3, <2>2, <2>3, StatusTable DEF Loose, Dropped, Schedulable
    <3>2. pass'[k].claims = {u \in pass[k].claims : status[u] \in Schedulable} BY <1>0, <1>7, TickSteps
    <3> QED BY <2>3, <3>1, <3>2
  <2> QED BY <1>4, <1>5, <2>2, <2>3
<1>8. CASE WriteClaims(k)
  <2>1. UNCHANGED <<phase, unclaimed>>
        /\ status' = [u \in Tasks |-> IF u \in pass[k].claims THEN "running" ELSE status[u]]
    BY <1>8 DEF WriteClaims, runVars
  <2>2. t \notin pass[k].claims /\ t \in Loose \ unclaimed BY <1>3, <2>1 DEF Loose
  <2> QED BY <1>4, <1>5, <2>2
<1>9. CASE LosePass(k)
  <2>1. UNCHANGED <<status, phase>> /\ unclaimed' = unclaimed \cup pass[k].claims
    BY <1>9 DEF LosePass, runVars
  <2>2. t \notin pass[k].claims /\ t \in Loose \ unclaimed BY <2>1 DEF Loose
  <2> QED BY <1>4, <1>5, <2>2
<1>10. CASE CountRunning(k) \/ ReadCandidates(k) \/ Consider(k)
  <2>1. UNCHANGED <<status, phase, unclaimed>>
    BY <1>10 DEF CountRunning, ReadCandidates, Consider, runVars
  <2>2. pass[k].claims = {} BY <1>0, <1>10 DEF PassShape, CountRunning, ReadCandidates, Consider
  <2>3. t \in Loose \ unclaimed BY <2>1 DEF Loose
  <2> QED BY <1>4, <1>5, <2>2, <2>3
<1> QED BY <1>6, <1>7, <1>8, <1>9, <1>10 DEF Tick

\* What a step of a run brings to run for the first time was claimed before.
LEMMA RunMoves ==
  ASSUME Typed, Entering, NEW t \in Tasks,
         Run(t) \/ Deadline(t) \/ Cancel(t) \/ TakeLease(t) \/ EndLease(t)
  PROVE  /\ UNCHANGED <<pass, unclaimed>> /\ Entering'
         /\ \A u \in Firsts' : u \in Firsts \/ \E k \in Passes : u \in pass[k].claims
<1> USE DEF Typed
<1>0. status[t] \in TaskStatus /\ phase[t] \in Phases /\ attempt[t] \in Nat
      /\ (phase[t] \notin {"none", "load"} => attempt[t] >= 1)
      /\ (phase[t] \in {"ready", "enter"} => attempt[t] = 1)
  BY DEF Entering
<1>1. UNCHANGED <<pass, unclaimed>>
  BY DEF Run, Load, Enter, Work, CheckDependencies, Park, Block, Resume, Settle, Signal, Deadline, Cancel,
         TakeLease, EndLease, runVars, envVars
<1>2. \A u \in Tasks \ {t} : status'[u] = status[u] /\ phase'[u] = phase[u] /\ attempt'[u] = attempt[u]
  BY RunTouchesOne
<1> DEFINE First(s, a, p) == s = "running" /\ (a <= 1 \/ p = "load")
           Enters(s, p) == p \in {"load", "ready", "enter"} /\ s \notin FinalStatus \cup {"running"}
           OK == /\ phase'[t] \notin {"none", "load"} => attempt'[t] >= 1
                 /\ phase'[t] \in {"ready", "enter"} => attempt'[t] = 1
                 /\ Enters(status'[t], phase'[t]) => Enters(status[t], phase[t])
                 /\ First(status'[t], attempt'[t], phase'[t]) =>
                      First(status[t], attempt[t], phase[t]) \/ Enters(status[t], phase[t])
<1>3. ASSUME OK
      PROVE  Entering' /\ \A u \in Firsts' : u \in Firsts \/ \E k \in Passes : u \in pass[k].claims
  <2>1. Loose' \subseteq Loose BY <1>2, <1>3 DEF Loose
  <2>2. Firsts' \subseteq Firsts \cup (Loose \ unclaimed) BY <1>1, <1>2, <1>3 DEF Firsts, Loose
  <2>3. \A u \in Tasks : (phase'[u] \notin {"none", "load"} => attempt'[u] >= 1)
                         /\ (phase'[u] \in {"ready", "enter"} => attempt'[u] = 1)
    BY <1>2, <1>3 DEF Entering
  <2> QED BY <1>1, <2>1, <2>2, <2>3 DEF Entering
<1>4. ASSUME NEW s \in TaskStatus, NEW next \in Phases, SetStatus(t, s, next)
      PROVE  \/ (status[t] = s \/ LawfulTask(status[t], s)) /\ status'[t] = s /\ phase'[t] = next
             \/ status'[t] \in SettledStatus /\ phase'[t] = "none"
  BY <1>4, StatusWritten
<1>5. /\ {"enter", "work", "wait", "none", "signal"} \subseteq Phases
      /\ {"ready", "running", "blocked"} \subseteq TaskStatus /\ outcome[t] \in TaskStatus
  BY StatusTable DEF Phases
<1>6. CASE Load(t)
  <2>1. UNCHANGED status /\ phase[t] = "load" /\ attempt'[t] = 1 /\ phase'[t] \in {"ready", "enter"}
    BY <1>6 DEF Load, Move
  <2>2. OK BY <2>1
  <2> QED BY <1>1, <1>3, <2>2
<1>7. CASE Enter(t)
  <2>1. PICK s \in {"ready", "running"}, next \in {"enter", "work"} :
          SetStatus(t, s, next) /\ phase[t] \in {"ready", "enter"} /\ (s = "ready" => next = "enter")
          /\ (s = "running" => next = "work")
    BY <1>7 DEF Enter
  <2>2. attempt' = attempt BY <1>7 DEF Enter
  <2>3. s \in TaskStatus /\ next \in Phases BY <1>5
  <2>4. \/ (status[t] = s \/ LawfulTask(status[t], s)) /\ status'[t] = s /\ phase'[t] = next
        \/ status'[t] \in SettledStatus /\ phase'[t] = "none"
    BY <1>4, <2>1, <2>3
  <2>5. OK BY <1>0, <2>1, <2>2, <2>4, StatusTable
  <2> QED BY <1>1, <1>3, <2>5
<1>8. CASE Work(t) \/ CheckDependencies(t) \/ Park(t) \/ Signal(t) \/ Deadline(t)
  <2>1. UNCHANGED status /\ phase[t] \in {"work", "check", "checked", "wait", "signal"} \cup {phase[t]}
        /\ phase'[t] \in {"settle", "check", "checked", "park", "work", "none", phase[t]}
        /\ attempt'[t] \in {attempt[t], attempt[t] + 1}
    BY <1>8 DEF Work, CheckDependencies, Park, NextAttempt, Signal, Deadline, Move
  <2>2. phase'[t] \in {"work", "settle", "check", "checked", "park"} =>
          phase[t] \in {"work", "check", "checked", "wait"} \/ phase'[t] = phase[t]
    BY <1>8 DEF Work, CheckDependencies, Park, NextAttempt, Signal, Deadline, Move
  <2>3. phase'[t] = phase[t] => attempt'[t] = attempt[t]
    BY <1>8 DEF Work, CheckDependencies, Park, NextAttempt, Signal, Deadline, Move
  <2>4. OK BY <1>0, <2>1, <2>2, <2>3
  <2> QED BY <1>1, <1>3, <2>4
<1>9. CASE Block(t)
  <2>1. SetStatus(t, "blocked", "wait") /\ phase[t] = "park" /\ attempt' = attempt BY <1>9 DEF Block
  <2>2. "blocked" \in TaskStatus /\ "wait" \in Phases BY <1>5
  <2>3. \/ status'[t] = "blocked" /\ phase'[t] = "wait"
        \/ status'[t] \in SettledStatus /\ phase'[t] = "none"
    BY <2>1, <2>2, StatusWritten
  <2>4. OK BY <1>0, <2>1, <2>3, StatusTable
  <2> QED BY <1>1, <1>3, <2>4
<1>10. CASE Resume(t)
  <2>1. SetStatus(t, "running", "work") /\ phase[t] = "wait"
        /\ attempt' = [attempt EXCEPT ![t] = IF phase'[t] = "work" THEN @ + 1 ELSE @]
    BY <1>10 DEF Resume
  <2>2. "running" \in TaskStatus /\ "work" \in Phases BY <1>5
  <2>3. \/ phase'[t] = "work"
        \/ status'[t] \in SettledStatus /\ phase'[t] = "none"
    BY <2>1, <2>2, StatusWritten
  <2>4. phase'[t] = "work" => attempt'[t] = attempt[t] + 1 BY <2>1
  <2>5. OK BY <1>0, <2>1, <2>3, <2>4, StatusTable
  <2> QED BY <1>1, <1>3, <2>5
<1>11. CASE Settle(t)
  <2>1. PICK next \in {"none", "signal"} : SetStatus(t, outcome[t], next) BY <1>11 DEF Settle
  <2>2. phase[t] = "settle" /\ attempt' = attempt /\ outcome[t] # "running" BY <1>11 DEF Settle
  <2>3. outcome[t] \in TaskStatus /\ next \in Phases BY <1>5
  <2>4. \/ status'[t] = outcome[t] /\ phase'[t] = next
        \/ status'[t] \in SettledStatus /\ phase'[t] = "none"
    BY <2>1, <2>3, StatusWritten
  <2>5. OK BY <1>0, <2>2, <2>4, StatusTable
  <2> QED BY <1>1, <1>3, <2>5
<1>12. CASE Cancel(t) \/ TakeLease(t) \/ EndLease(t)
  <2>1. UNCHANGED <<phase, attempt>> /\ status'[t] \in {status[t], "cancelled"}
    BY <1>12 DEF Cancel, TakeLease, EndLease, runVars
  <2>2. OK BY <1>0, <2>1, StatusTable
  <2> QED BY <1>1, <1>3, <2>2
<1> QED BY <1>6, <1>7, <1>8, <1>9, <1>10, <1>11, <1>12 DEF Run

-----------------------------------------------------------------------------
(* The limits.  A limit is a number of tasks of a class: all of them, or   *)
(* those of a role that has a cap.                                         *)

Limit(S, n) ==
  \/ S = Tasks /\ n = MaxConcurrency
  \/ \E r \in DOMAIN RoleLimits : S = OfRole(Tasks, r) /\ n = RoleLimits[r]

\* What a tick has picked: to start, or started and not yet claimed.
Mine(k) == pass[k].claims \cup pass[k].chosen \cup (IF pass[k].phase = "starting" THEN pass[k].rest ELSE {})

\* The tasks of a class that run for the first time fall into shares, one for each tick,
\* none larger than the limit: what the tick counted and what it has picked, or, when it
\* counted too many to pick any, what it was left with.
Shares(S, n, Sh) ==
  /\ \A k \in Passes :
       /\ Cardinality(Sh[k]) <= n /\ Mine(k) \cap S \subseteq Sh[k]
       /\ pass[k].phase \in {"counted", "planning"} =>
            \/ Sh[k] \subseteq pass[k].running \cup pass[k].chosen
            \/ ~ (Cardinality(pass[k].running \cap S) <= n)
  /\ \A t \in Firsts \cap S : \E k \in Passes : t \in Sh[k]

LimitInv(S, n) == \E Sh \in [Passes -> SUBSET S] : Shares(S, n, Sh)

\* A class of tasks and its limit.
LEMMA Limits ==
  ASSUME NEW S, NEW n, Limit(S, n) PROVE S \in SUBSET Tasks /\ n \in Nat \ {0}
BY BoundsAssumption, TasksAssumption DEF Limit, OfRole

\* What fits leaves room in its class for itself.
LEMMA FittingLeavesRoom ==
  ASSUME NEW S, NEW n, Limit(S, n), NEW t \in S, NEW R \in SUBSET Tasks, NEW C \in SUBSET Tasks,
         Fits(t, R, C), NEW G \in SUBSET S, G \subseteq R
  PROVE  Cardinality(G \cup ((C \cup {t}) \cap S)) <= n
<1>1. S \in SUBSET Tasks /\ n \in Nat \ {0} /\ t \in Tasks BY Limits
<1> DEFINE T == (R \cap S) \cup (C \cap S)
<1>2. T \in SUBSET Tasks /\ G \cup ((C \cup {t}) \cap S) \subseteq T \cup {t} BY <1>1
<1>3. Cardinality(T) < n
  <2>1. CASE S = Tasks /\ n = MaxConcurrency
    <3>1. Cardinality(R) + Cardinality(C) < n BY <2>1 DEF Fits
    <3>2. T = R \cup C BY <2>1
    <3>3. Cardinality(R) \in Nat /\ Cardinality(C) \in Nat /\ Cardinality(R \cup C) \in Nat
          /\ Cardinality(R \cup C) <= Cardinality(R) + Cardinality(C)
      BY Sizes
    <3> HIDE DEF T
    <3>4. Cardinality(T) = Cardinality(R \cup C) BY <3>2
    <3>5. n \in Nat BY <1>1
    <3> QED BY <3>1, <3>3, <3>4, <3>5
  <2>2. CASE \E r \in DOMAIN RoleLimits : S = OfRole(Tasks, r) /\ n = RoleLimits[r]
    <3>1. PICK r \in DOMAIN RoleLimits : S = OfRole(Tasks, r) /\ n = RoleLimits[r] BY <2>2
    <3>2. Role[t] = r BY <3>1 DEF OfRole
    <3>3. Cardinality(OfRole(R, r) \cup OfRole(C, r)) < n BY <3>1, <3>2 DEF Fits
    <3>4. OfRole(R, r) \cup OfRole(C, r) = T BY <3>1 DEF OfRole
    <3> QED BY <3>3, <3>4
  <2> QED BY <2>1, <2>2 DEF Limit
<1>4. Cardinality(T \cup {t}) <= Cardinality(T) + 1 /\ Cardinality(T) \in Nat
      /\ Cardinality(T \cup {t}) \in Nat
  <2>1. {t} \in SUBSET Tasks BY <1>1
  <2> HIDE DEF T
  <2> QED BY <1>1, <1>2, <2>1, Sizes
<1>5. G \cup ((C \cup {t}) \cap S) \in SUBSET Tasks /\ T \cup {t} \in SUBSET Tasks BY <1>1
<1>6. Cardinality(G \cup ((C \cup {t}) \cap S)) <= Cardinality(T \cup {t})
  <2> DEFINE A == G \cup ((C \cup {t}) \cap S)
             B == T \cup {t}
  <2>1. A \in SUBSET Tasks /\ B \in SUBSET Tasks /\ A \subseteq B BY <1>2, <1>5
  <2> HIDE DEF A, B
  <2>2. Cardinality(A) <= Cardinality(B) BY <2>1, Sizes
  <2> QED BY <2>2 DEF A, B
<1>7. Cardinality(G \cup ((C \cup {t}) \cap S)) \in Nat BY <1>5, Sizes
<1> HIDE DEF T
<1> QED BY <1>1, <1>3, <1>4, <1>6, <1>7

\* A smaller set is not over a bound that a larger one keeps.
LEMMA SmallerFits ==
  ASSUME NEW A \in SUBSET Tasks, NEW B \in SUBSET Tasks, A \subseteq B, NEW n \in Nat, Cardinality(B) <= n
  PROVE  Cardinality(A) <= n
<1>1. Cardinality(A) \in Nat /\ Cardinality(B) \in Nat /\ Cardinality(A) <= Cardinality(B) BY Sizes
<1> QED BY <1>1

\* A tick takes a new share; the others keep theirs.
LEMMA NewShare ==
  ASSUME Typed, NEW k \in Passes, Tick(k) \/ LosePass(k), NEW S, NEW n, NEW Sh \in [Passes -> SUBSET S],
         Shares(S, n, Sh), NEW X \in SUBSET S, Cardinality(X) <= n, Mine(k)' \cap S \subseteq X,
         pass'[k].phase \in {"counted", "planning"} =>
           \/ X \subseteq pass'[k].running \cup pass'[k].chosen
           \/ ~ (Cardinality(pass'[k].running \cap S) <= n),
         \A t \in Firsts' \cap S : t \in X \/ \E j \in Passes \ {k} : t \in Sh[j]
  PROVE  LimitInv(S, n)'
<1> DEFINE New == [Sh EXCEPT ![k] = X]
<1>1. New \in [Passes -> SUBSET S] /\ New[k] = X /\ \A j \in Passes \ {k} : New[j] = Sh[j] OBVIOUS
<1> HIDE DEF New
<1>2. ASSUME NEW j \in Passes \ {k}
      PROVE  /\ Cardinality(New[j]) <= n /\ Mine(j)' \cap S \subseteq New[j]
             /\ pass'[j].phase \in {"counted", "planning"} =>
                  \/ New[j] \subseteq pass'[j].running \cup pass'[j].chosen
                  \/ ~ (Cardinality(pass'[j].running \cap S) <= n)
  <2>1. pass'[j] = pass[j] BY OtherTicks
  <2>2. Mine(j)' = Mine(j) BY <2>1 DEF Mine
  <2> QED BY <1>1, <2>1, <2>2 DEF Shares
<1>3. \A t \in Firsts' \cap S : \E j \in Passes : t \in New[j] BY <1>1
<1>4. Shares(S, n, New)' BY <1>1, <1>2, <1>3 DEF Shares
<1> QED BY <1>1, <1>4 DEF LimitInv

\* A tick that counts takes what runs for its share, if it is not too much.
LEMMA CountKeepsLimit ==
  ASSUME Typed, NEW k \in Passes, PassShape(k), CountRunning(k), NEW S, NEW n, Limit(S, n), LimitInv(S, n)
  PROVE  LimitInv(S, n)'
<1> DEFINE q == pass'[k]
<1>1. q.phase = "counted" /\ q.running = Counted /\ q.rest = {} /\ q.chosen = {} /\ q.claims = {}
  BY TickSteps
<1>2. Mine(k)' = {} BY <1>1 DEF Mine
<1>3. UNCHANGED <<status, phase, attempt, unclaimed>> BY DEF CountRunning, runVars
<1>4. Firsts' = Firsts /\ Firsts \subseteq Counted BY <1>3 DEF Firsts, Counted
<1>5. PICK Sh \in [Passes -> SUBSET S] : Shares(S, n, Sh) BY DEF LimitInv
<1>6. Tick(k) BY DEF Tick
<1> HIDE DEF q
<1>7. CASE Cardinality(Counted \cap S) <= n
  <2> DEFINE X == Counted \cap S
  <2>1. X \in SUBSET S /\ Cardinality(X) <= n /\ X \subseteq q.running \cup q.chosen BY <1>1, <1>7
  <2>2. \A t \in Firsts' \cap S : t \in X BY <1>4
  <2>3. Mine(k)' \cap S \subseteq X BY <1>2
  <2> HIDE DEF X
  <2> QED BY <1>5, <1>6, <2>1, <2>2, <2>3, NewShare DEF q
<1>8. CASE ~ (Cardinality(Counted \cap S) <= n)
  <2>1. Sh[k] \in SUBSET S /\ Cardinality(Sh[k]) <= n BY <1>5 DEF Shares
  <2>2. ~ (Cardinality(q.running \cap S) <= n) BY <1>1, <1>8
  <2>3. \A t \in Firsts' \cap S : t \in Sh[k] \/ \E j \in Passes \ {k} : t \in Sh[j]
    BY <1>4, <1>5 DEF Shares
  <2> QED BY <1>2, <1>5, <1>6, <2>1, <2>2, <2>3, NewShare DEF q
<1> QED BY <1>7, <1>8

\* Nothing is picked yet when the candidates are read.
LEMMA CandidatesKeepLimit ==
  ASSUME Typed, NEW k \in Passes, PassShape(k), ReadCandidates(k), NEW S, NEW n, Limit(S, n), LimitInv(S, n)
  PROVE  LimitInv(S, n)'
<1> DEFINE p == pass[k]
           q == pass'[k]
<1>1. p.phase = "counted" /\ q.phase = "planning" /\ q.running = p.running /\ q.chosen = {} /\ q.claims = {}
  BY TickSteps
<1>2. Mine(k)' = {} /\ p.chosen = {} BY <1>1 DEF Mine, PassShape
<1>3. UNCHANGED <<status, phase, attempt, unclaimed>> BY DEF ReadCandidates, runVars
<1>4. Firsts' = Firsts BY <1>3 DEF Firsts
<1>5. PICK Sh \in [Passes -> SUBSET S] : Shares(S, n, Sh) BY DEF LimitInv
<1>6. Tick(k) BY DEF Tick
<1> HIDE DEF p, q
<1>7. /\ Sh[k] \in SUBSET S /\ Cardinality(Sh[k]) <= n
      /\ Sh[k] \subseteq q.running \cup q.chosen \/ ~ (Cardinality(q.running \cap S) <= n)
  BY <1>1, <1>2, <1>5 DEF Shares, p
<1>8. \A t \in Firsts' \cap S : t \in Sh[k] \/ \E j \in Passes \ {k} : t \in Sh[j]
  BY <1>4, <1>5 DEF Shares
<1> QED BY <1>2, <1>5, <1>6, <1>7, <1>8, NewShare DEF q

\* A task is picked only where the tick's share has room for it.
LEMMA ConsiderKeepsLimit ==
  ASSUME Typed, NEW k \in Passes, PassShape(k), Consider(k), NEW S, NEW n, Limit(S, n), LimitInv(S, n)
  PROVE  LimitInv(S, n)'
<1> DEFINE p == pass[k]
           q == pass'[k]
<1>1. \/ p.phase = "planning" /\ p.rest = {}
         /\ q.phase = "starting" /\ q.rest = p.chosen /\ q.chosen = {} /\ q.claims = {}
      \/ p.phase = "planning" /\ p.claims = {} /\ q.claims = {}
         /\ q.phase = "planning" /\ q.running = p.running
         /\ \E t \in p.rest :
              /\ q.rest = p.rest \ {t}
              /\ \/ q.chosen = p.chosen
                 \/ q.chosen = p.chosen \cup {t} /\ Fits(t, p.running, p.chosen)
  BY TickSteps
<1>2. p.running \in SUBSET Tasks /\ p.chosen \in SUBSET Tasks /\ p.rest \in SUBSET Tasks
  BY DEF Typed, PassState
<1>3. Mine(k) = p.chosen /\ p.phase = "planning" BY <1>1 DEF Mine, PassShape
<1>4. Mine(k)' = IF q.phase = "starting" THEN p.chosen ELSE q.chosen BY <1>1 DEF Mine
<1>5. UNCHANGED <<status, phase, attempt, unclaimed>> BY DEF Consider, runVars
<1>6. Firsts' = Firsts BY <1>5 DEF Firsts
<1>7. PICK Sh \in [Passes -> SUBSET S] : Shares(S, n, Sh) BY DEF LimitInv
<1>8. Tick(k) BY DEF Tick
<1>9. S \in SUBSET Tasks /\ n \in Nat \ {0} BY Limits
<1>10. /\ Sh[k] \in SUBSET S /\ Cardinality(Sh[k]) <= n /\ p.chosen \cap S \subseteq Sh[k]
       /\ Sh[k] \subseteq p.running \cup p.chosen \/ ~ (Cardinality(p.running \cap S) <= n)
  BY <1>3, <1>7 DEF Shares
<1>11. \A t \in Firsts' \cap S : t \in Sh[k] \/ \E j \in Passes \ {k} : t \in Sh[j]
  BY <1>6, <1>7 DEF Shares
<1> HIDE DEF p, q
<1>12. CASE q.phase = "starting"
  <2>1. Mine(k)' \cap S \subseteq Sh[k] BY <1>4, <1>10, <1>12
  <2> QED BY <1>7, <1>8, <1>10, <1>11, <1>12, <2>1, NewShare DEF q
<1>13. CASE q.phase = "planning" /\ q.running = p.running /\ q.chosen \cap S = p.chosen \cap S
  <2>1. Mine(k)' \cap S \subseteq Sh[k] BY <1>4, <1>10, <1>13
  <2>2. Sh[k] \subseteq q.running \cup q.chosen \/ ~ (Cardinality(q.running \cap S) <= n)
    BY <1>10, <1>13
  <2> QED BY <1>7, <1>8, <1>10, <1>11, <2>1, <2>2, NewShare DEF q
<1>14. ASSUME NEW t \in S, q.phase = "planning", q.running = p.running, q.chosen = p.chosen \cup {t},
              Fits(t, p.running, p.chosen)
       PROVE  LimitInv(S, n)'
  <2> DEFINE G == p.running \cap S
             A == G \cup ((p.chosen \cup {t}) \cap S)
             X == Sh[k] \cup {t}
  <2>1. G \in SUBSET S /\ G \subseteq p.running OBVIOUS
  <2>2. Cardinality(A) <= n
    <3> HIDE DEF G
    <3> QED BY <1>2, <1>14, <2>1, FittingLeavesRoom
  <2>3. A \in SUBSET Tasks /\ G \in SUBSET Tasks /\ G \subseteq A /\ t \in Tasks /\ n \in Nat BY <1>9
  <2>4. Cardinality(G) <= n
    <3> HIDE DEF A, G
    <3> QED BY <2>2, <2>3, SmallerFits
  <2>5. Sh[k] \subseteq p.running \cup p.chosen BY <1>10, <2>4
  <2>6. X \in SUBSET S /\ X \subseteq A /\ X \in SUBSET Tasks BY <1>9, <1>10, <2>5
  <2>7. Cardinality(X) <= n
    <3> HIDE DEF A, X
    <3> QED BY <2>2, <2>3, <2>6, SmallerFits
  <2>8. Mine(k)' \cap S \subseteq X BY <1>4, <1>10, <1>14
  <2>9. X \subseteq q.running \cup q.chosen BY <1>14, <2>5
  <2>10. \A u \in Firsts' \cap S : u \in X \/ \E j \in Passes \ {k} : u \in Sh[j] BY <1>11
  <2> HIDE DEF X, A, G
  <2> QED BY <1>7, <1>8, <2>6, <2>7, <2>8, <2>9, <2>10, NewShare DEF q
<1>15. \/ q.phase = "starting"
       \/ q.phase = "planning" /\ q.running = p.running /\ q.chosen \cap S = p.chosen \cap S
       \/ q.phase = "planning" /\ q.running = p.running
          /\ \E t \in S : q.chosen = p.chosen \cup {t} /\ Fits(t, p.running, p.chosen)
  BY <1>1 DEF p, q
<1> QED BY <1>12, <1>13, <1>14, <1>15

\* What was planned is started, claimed or given up: no share grows.
LEMMA DoingKeepsLimit ==
  ASSUME Typed, NEW k \in Passes, PassShape(k),
         StartNext(k) \/ ReadClaims(k) \/ WriteClaims(k) \/ LosePass(k),
         NEW S, NEW n, Limit(S, n), LimitInv(S, n)
  PROVE  LimitInv(S, n)'
<1> DEFINE p == pass[k]
           q == pass'[k]
<1>1. q.phase \notin {"counted", "planning"} /\ Mine(k)' \subseteq Mine(k)
      /\ \A t \in Firsts' : t \in Firsts \cup Mine(k)
  <2>1. CASE StartNext(k)
    <3>1. PICK t \in p.rest :
            /\ p.phase = "starting" /\ q.phase = "starting" /\ p.chosen = {} /\ q.chosen = {}
            /\ q.rest = p.rest \ {t} /\ q.claims \subseteq p.claims \cup {t}
            /\ phase' = phase \/ phase' = [phase EXCEPT ![t] = "load"]
      BY <2>1, TickSteps
    <3>2. Mine(k) = p.claims \cup p.rest /\ Mine(k)' = q.claims \cup q.rest BY <3>1 DEF Mine
    <3>3. UNCHANGED <<status, attempt>> /\ unclaimed \subseteq unclaimed' BY <2>1 DEF StartNext
    <3>4. \A u \in Tasks \ {t} : phase'[u] = phase[u] BY <3>1 DEF Typed
    <3>5. \A u \in Firsts' : u \in Firsts \cup {t} BY <3>3, <3>4 DEF Firsts
    <3> HIDE DEF p, q
    <3> QED BY <3>1, <3>2, <3>5
  <2>2. CASE ReadClaims(k)
    <3>1. p.phase = "starting" /\ p.rest = {} /\ p.chosen = {} /\ q.phase = "claiming" /\ q.rest = {}
          /\ q.chosen = {} /\ q.claims \subseteq p.claims
      BY <2>2, TickSteps
    <3>2. UNCHANGED <<status, phase, attempt>> /\ unclaimed \subseteq unclaimed'
      BY <2>2 DEF ReadClaims, runVars
    <3>3. \A u \in Firsts' : u \in Firsts BY <3>2 DEF Firsts
    <3> QED BY <3>1, <3>3 DEF Mine
  <2>3. CASE WriteClaims(k)
    <3>1. q = NoPass BY <2>3, TickSteps
    <3>2. Mine(k)' = {} /\ q.phase = "idle" BY <3>1 DEF Mine, NoPass
    <3>3. UNCHANGED <<phase, attempt, unclaimed>>
          /\ status' = [t \in Tasks |-> IF t \in p.claims THEN "running" ELSE status[t]]
      BY <2>3 DEF WriteClaims, runVars
    <3>4. \A u \in Firsts' : u \in Firsts \cup p.claims BY <3>3 DEF Firsts
    <3>5. p.claims \subseteq Mine(k) BY DEF Mine
    <3> HIDE DEF p, q
    <3> QED BY <3>2, <3>4, <3>5
  <2>4. CASE LosePass(k)
    <3>1. q = NoPass BY <2>4, TickSteps
    <3>2. Mine(k)' = {} /\ q.phase = "idle" BY <3>1 DEF Mine, NoPass
    <3>3. UNCHANGED <<status, phase, attempt>> /\ unclaimed \subseteq unclaimed'
      BY <2>4 DEF LosePass, runVars
    <3>4. \A u \in Firsts' : u \in Firsts BY <3>3 DEF Firsts
    <3> QED BY <3>2, <3>4
  <2> QED BY <2>1, <2>2, <2>3, <2>4
<1>2. Tick(k) \/ LosePass(k) BY DEF Tick
<1>3. PICK Sh \in [Passes -> SUBSET S] : Shares(S, n, Sh) BY DEF LimitInv
<1>4. Sh[k] \in SUBSET S /\ Cardinality(Sh[k]) <= n /\ Mine(k) \cap S \subseteq Sh[k] BY <1>3 DEF Shares
<1>5. Mine(k)' \cap S \subseteq Sh[k] BY <1>1, <1>4
<1>6. \A t \in Firsts' \cap S : t \in Sh[k] \/ \E j \in Passes \ {k} : t \in Sh[j]
  BY <1>1, <1>3, <1>4 DEF Shares
<1> HIDE DEF q
<1> QED BY <1>1, <1>2, <1>3, <1>4, <1>5, <1>6, NewShare DEF q

\* A step of a run brings none to run for the first time that is in no tick's share.
LEMMA RunKeepsLimit ==
  ASSUME Typed, Entering, NEW t \in Tasks,
         Run(t) \/ Deadline(t) \/ Cancel(t) \/ TakeLease(t) \/ EndLease(t),
         NEW S, NEW n, LimitInv(S, n)
  PROVE  LimitInv(S, n)'
<1>1. PICK Sh \in [Passes -> SUBSET S] : Shares(S, n, Sh) BY DEF LimitInv
<1>2. UNCHANGED <<pass, unclaimed>> /\ \A u \in Firsts' : u \in Firsts \/ \E k \in Passes : u \in pass[k].claims
  BY RunMoves
<1>3. \A k \in Passes : Mine(k)' = Mine(k) /\ pass[k].claims \subseteq Mine(k) BY <1>2 DEF Mine
<1>4. \A u \in Firsts' \cap S : \E k \in Passes : u \in Sh[k] BY <1>1, <1>2, <1>3 DEF Shares
<1>5. Shares(S, n, Sh)' BY <1>1, <1>2, <1>3, <1>4 DEF Shares
<1> QED BY <1>5 DEF LimitInv

\* Every step keeps every limit.
LEMMA StepKeepsLimit ==
  ASSUME Typed, Entering, \A k \in Passes : PassShape(k), NEW S, NEW n, Limit(S, n), LimitInv(S, n), [Next]_vars
  PROVE  LimitInv(S, n)'
<1>1. ASSUME NEW k \in Passes, Tick(k) \/ LosePass(k) PROVE LimitInv(S, n)'
  <2>1. PassShape(k) OBVIOUS
  <2> QED BY <1>1, <2>1, CountKeepsLimit, CandidatesKeepLimit, ConsiderKeepsLimit, DoingKeepsLimit DEF Tick
<1>2. ASSUME NEW t \in Tasks, Run(t) \/ Deadline(t) \/ Cancel(t) \/ TakeLease(t) \/ EndLease(t)
      PROVE  LimitInv(S, n)'
  BY <1>2, RunKeepsLimit
<1>3. CASE UNCHANGED vars
  <2>1. UNCHANGED <<status, phase, attempt, pass, unclaimed>> BY <1>3 DEF vars, runVars
  <2>2. Firsts' = Firsts /\ \A k \in Passes : Mine(k)' = Mine(k) BY <2>1 DEF Firsts, Mine
  <2>3. PICK Sh \in [Passes -> SUBSET S] : Shares(S, n, Sh) BY DEF LimitInv
  <2>4. Shares(S, n, Sh)' BY <2>1, <2>2, <2>3 DEF Shares
  <2> QED BY <2>4 DEF LimitInv
<1> QED BY <1>1, <1>2, <1>3 DEF Next

\* What is known of ticks and runs, and every limit.
LimitsInv ==
  /\ Typed /\ Entering /\ \A k \in Passes : PassShape(k)
  /\ \A S \in SUBSET Tasks, n \in Nat : Limit(S, n) => LimitInv(S, n)

\* It holds at the start.
LEMMA InitIsWithin == Init => LimitsInv
<1> SUFFICES ASSUME Init PROVE LimitsInv OBVIOUS
<1>1. Typed BY InitIsTyped DEF TypeInv
<1>2. Loose = {} /\ Firsts = {} BY DEF Init, Loose, Firsts
<1>3. Entering BY <1>2 DEF Init, Entering
<1>4. \A k \in Passes : pass[k] = NoPass BY DEF Init
<1>5. \A k \in Passes : PassShape(k) /\ Mine(k) = {} /\ pass[k].phase = "idle"
  BY <1>4 DEF PassShape, Mine, NoPass
<1>6. ASSUME NEW S \in SUBSET Tasks, NEW n \in Nat PROVE LimitInv(S, n)
  <2>1. PICK Sh \in [Passes -> SUBSET S] : Sh = [k \in Passes |-> {}] OBVIOUS
  <2>2. \A k \in Passes : Cardinality(Sh[k]) <= n BY <2>1, FS_EmptySet
  <2>3. Shares(S, n, Sh) BY <1>2, <1>5, <2>2 DEF Shares
  <2> QED BY <2>3 DEF LimitInv
<1> QED BY <1>1, <1>3, <1>5, <1>6 DEF LimitsInv

\* And every step keeps it.
LEMMA StepIsWithin == LimitsInv /\ [Next]_vars => LimitsInv'
<1> SUFFICES ASSUME LimitsInv, [Next]_vars PROVE LimitsInv' OBVIOUS
<1>1. Typed /\ Entering /\ \A k \in Passes : PassShape(k) BY DEF LimitsInv
<1>2. Typed' BY <1>1, StepIsTyped
<1>3. Entering' /\ \A k \in Passes : PassShape(k)'
  <2>1. ASSUME NEW k \in Passes, Tick(k) \/ LosePass(k) PROVE Entering' /\ \A j \in Passes : PassShape(j)'
    BY <1>1, <2>1, TickKeepsShape, TickKeepsEntering
  <2>2. ASSUME NEW t \in Tasks, Run(t) \/ Deadline(t) \/ Cancel(t) \/ TakeLease(t) \/ EndLease(t)
        PROVE  Entering' /\ \A j \in Passes : PassShape(j)'
    <3>1. pass' = pass /\ Entering' BY <1>1, <2>2, RunMoves
    <3> QED BY <1>1, <3>1 DEF PassShape
  <2>3. CASE UNCHANGED vars
    BY <1>1, <2>3 DEF vars, runVars, Entering, PassShape, Loose
  <2> QED BY <2>1, <2>2, <2>3 DEF Next
<1>4. ASSUME NEW S \in SUBSET Tasks, NEW n \in Nat, Limit(S, n) PROVE LimitInv(S, n)'
  <2>1. LimitInv(S, n) BY <1>4 DEF LimitsInv
  <2> QED BY <1>1, <1>4, <2>1, StepKeepsLimit
<1>5. \A S \in SUBSET Tasks, n \in Nat : Limit(S, n)' <=> Limit(S, n) BY DEF Limit, OfRole
<1> QED BY <1>2, <1>3, <1>4, <1>5 DEF LimitsInv

\* Shares of at most n tasks, one for each of some ticks, hold at most n times as many.
LEMMA SharesAddUp ==
  ASSUME NEW S \in SUBSET Tasks, NEW n \in Nat, NEW Sh \in [Passes -> SUBSET S],
         \A k \in Passes : Cardinality(Sh[k]) <= n
  PROVE  Cardinality({t \in S : \E k \in Passes : t \in Sh[k]}) <= n * Cardinality(Passes)
<1> DEFINE U(X) == {t \in S : \E k \in X : t \in Sh[k]}
           Bad == {m \in Nat : \E X \in SUBSET Passes : Cardinality(X) = m /\ ~ (Cardinality(U(X)) <= n * m)}
<1>1. \A X \in SUBSET Passes : IsFiniteSet(X) /\ Cardinality(X) \in Nat
  BY PassesAssumption, FS_Subset, FS_CardinalityType
<1>2. SUFFICES ASSUME Bad # {} PROVE FALSE
  <2>1. Passes \in SUBSET Passes /\ Cardinality(Passes) \in Nat BY <1>1
  <2>2. Cardinality(Passes) \notin Bad BY <1>2
  <2> QED BY <2>1, <2>2
<1>3. PICK m \in Bad : \A y \in Bad : m <= y
  <2>1. Bad \in SUBSET Nat OBVIOUS
  <2> HIDE DEF Bad
  <2> QED BY <1>2, <2>1, LeastNumber
<1>4. PICK X \in SUBSET Passes : Cardinality(X) = m /\ ~ (Cardinality(U(X)) <= n * m) BY <1>3
<1>5. CASE X = {}
  <2>1. U(X) = {} /\ m = 0 BY <1>4, <1>5, FS_EmptySet
  <2>2. Cardinality(U(X)) = 0 BY <2>1, FS_EmptySet
  <2>3. n * 0 = 0 OBVIOUS
  <2> QED BY <1>4, <2>1, <2>2, <2>3
<1>6. CASE X # {}
  <2>1. PICK k \in X : TRUE BY <1>6
  <2>2. PICK Y \in SUBSET Passes : Y = X \ {k} BY <1>4
  <2>3. Cardinality(Y) = m - 1 /\ m - 1 \in Nat
    <3>1. Cardinality(Y) = Cardinality(X) - 1 BY <1>1, <2>1, <2>2, FS_RemoveElement
    <3>2. Cardinality(Y) \in Nat /\ m \in Nat BY <1>1
    <3> QED BY <1>4, <3>1, <3>2
  <2>4. Cardinality(U(Y)) <= n * (m - 1)
    <3>1. ~ (m <= m - 1) BY <2>3
    <3>2. m - 1 \notin Bad BY <1>3, <3>1
    <3> QED BY <2>3, <3>2
  <2> DEFINE A == U(Y)
             B == Sh[k]
             C == U(X)
  <2>5. A \in SUBSET Tasks /\ B \in SUBSET Tasks /\ C \in SUBSET Tasks /\ A \cup B \in SUBSET Tasks
        /\ C \subseteq A \cup B /\ Cardinality(B) <= n
    BY <2>1, <2>2
  <2>6. Cardinality(A) <= n * (m - 1) BY <2>4
  <2>7. ~ (Cardinality(C) <= n * m) BY <1>4
  <2>8. m \in Nat OBVIOUS
  <2>9. PICK w \in Nat : w = n * (m - 1) BY <2>3
  <2>10. n * m = w + n
    <3>1. n * (m - 1) = n * m - n BY <2>8
    <3>2. n * m \in Nat BY <2>8
    <3> QED BY <2>9, <3>1, <3>2
  <2> HIDE DEF A, B, C, U, Bad
  <2>11. Cardinality(A \cup B) <= Cardinality(A) + Cardinality(B) /\ Cardinality(A) \in Nat
         /\ Cardinality(B) \in Nat /\ Cardinality(A \cup B) \in Nat
    BY <2>5, Sizes
  <2>12. Cardinality(C) <= Cardinality(A \cup B) /\ Cardinality(C) \in Nat BY <2>5, Sizes
  <2> QED BY <2>5, <2>6, <2>7, <2>9, <2>10, <2>11, <2>12
<1> QED BY <1>5, <1>6

\* However ticks overlap and die, and runs, waits and cancellations meet, no more of the
\* tasks a tick claimed run for the first time than the limit and the role caps allow for
\* each of the ticks there are.
THEOREM LimitsHold == Spec => []WithinLimits
<1>1. LimitsInv => WithinLimits
  <2> SUFFICES ASSUME LimitsInv PROVE WithinLimits OBVIOUS
  <2>1. ASSUME NEW S \in SUBSET Tasks, NEW n \in Nat, Limit(S, n)
        PROVE  Cardinality(FirstRuns \cap S) <= n * Cardinality(Passes)
    <3>0. LimitInv(S, n) BY <2>1 DEF LimitsInv
    <3>1. PICK Sh \in [Passes -> SUBSET S] : Shares(S, n, Sh) BY <3>0 DEF LimitInv
    <3> DEFINE A == FirstRuns \cap S
               B == {t \in S : \E k \in Passes : t \in Sh[k]}
    <3>2. FirstRuns \subseteq Firsts BY DEF FirstRuns, Firsts
    <3>3. A \subseteq B BY <3>1, <3>2 DEF Shares
    <3>4. A \in SUBSET Tasks /\ B \in SUBSET Tasks OBVIOUS
    <3>5. Cardinality(B) <= n * Cardinality(Passes) BY <3>1, SharesAddUp DEF Shares
    <3>6. n * Cardinality(Passes) \in Nat BY PassesAssumption, FS_CardinalityType
    <3> HIDE DEF A, B
    <3>7. Cardinality(A) <= n * Cardinality(Passes) BY <3>3, <3>4, <3>5, <3>6, SmallerFits
    <3> QED BY <3>7 DEF A
  <2>2. Cardinality(FirstRuns) <= MaxConcurrency * Cardinality(Passes)
    <3>1. FirstRuns \cap Tasks = FirstRuns BY DEF FirstRuns
    <3>2. Limit(Tasks, MaxConcurrency) /\ MaxConcurrency \in Nat BY BoundsAssumption DEF Limit
    <3>3. Cardinality(FirstRuns \cap Tasks) <= MaxConcurrency * Cardinality(Passes) BY <2>1, <3>2
    <3> QED BY <3>1, <3>3
  <2>3. ASSUME NEW r \in DOMAIN RoleLimits
        PROVE  Cardinality(OfRole(FirstRuns, r)) <= RoleLimits[r] * Cardinality(Passes)
    <3>1. FirstRuns \cap OfRole(Tasks, r) = OfRole(FirstRuns, r) BY DEF FirstRuns, OfRole
    <3>2. Limit(OfRole(Tasks, r), RoleLimits[r]) /\ RoleLimits[r] \in Nat
          /\ OfRole(Tasks, r) \in SUBSET Tasks
      BY TasksAssumption DEF Limit, OfRole
    <3>3. Cardinality(FirstRuns \cap OfRole(Tasks, r)) <= RoleLimits[r] * Cardinality(Passes) BY <2>1, <3>2
    <3> QED BY <3>1, <3>3
  <2> QED BY <2>2, <2>3 DEF WithinLimits
<1> QED BY <1>1, InitIsWithin, StepIsWithin, PTL DEF Spec

=============================================================================
