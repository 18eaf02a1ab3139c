------------------------- MODULE Integration_proofs -------------------------
(***************************************************************************)
(* Theorems about Integration, for every finite set of branches and any    *)
(* number of requests, integrations and attempts at once.                  *)
(***************************************************************************)
EXTENDS Integration, FiniteSetTheorems, WellFoundedInduction, TLAPS

-----------------------------------------------------------------------------
(* The operators of the model.                                             *)

\* A finite, non-empty set of natural numbers has a largest element.
LEMMA MaxIsLargest ==
  ASSUME NEW S \in SUBSET Nat, IsFiniteSet(S), S # {}
  PROVE  Max(S) \in S /\ \A y \in S : y <= Max(S)
  <1> DEFINE Above(x) == {y \in S : y > x}
             Tops == {Above(x) : x \in S}
  <1>1. Tops \subseteq FiniteSubsetsOf(S) /\ Tops # {}
    <2>1. FiniteSubsetsOf(S) = SUBSET S
      BY FS_FiniteSubsetsOfFinite
    <2>2. \A x \in S : Above(x) \in SUBSET S
      OBVIOUS
    <2>3. Tops \subseteq SUBSET S
      BY <2>2
    <2>4. Tops # {}
      OBVIOUS
    <2> QED
      BY <2>1, <2>3, <2>4
  <1>2. PICK top \in Tops : \A t \in Tops : <<t, top>> \notin StrictSubsetOrdering(S)
    <2> HIDE DEF Tops
    <2> QED
      BY <1>1, FS_StrictSubsetOrderingWellFounded, WFMin
  <1>3. PICK x \in S : top = Above(x)
    BY <1>2
  <1>4. ASSUME NEW z \in S, z > x
        PROVE  FALSE
    <2>1. Above(z) \subseteq Above(x) /\ z \in Above(x) /\ z \notin Above(z)
      <3>1. x \in Nat /\ z \in Nat /\ \A y \in S : y \in Nat
        OBVIOUS
      <3>2. \A y \in S : y > z => y > x
        BY <1>4, <3>1
      <3>3. ~ (z > z)
        BY <3>1
      <3> QED
        BY <1>4, <3>2, <3>3
    <2>2. <<Above(z), top>> \in StrictSubsetOrdering(S)
      BY <1>3, <2>1 DEF StrictSubsetOrdering
    <2> QED
      BY <1>2, <2>2
  <1>5. \A y \in S : x >= y
    BY <1>4
  <1> QED
    BY <1>5 DEF Max

\* With changes the fields it is given of one row: the place in the queue,
LEMMA WithPlace ==
  ASSUME TableOK, NEW b \in Branches, NEW i, NEW k
  PROVE  With(b, [integ |-> i, pos |-> k])
           = [rows EXCEPT ![b] = [status |-> rows[b].status, integ |-> i, pos |-> k]]
  <1>1. rows[b] \in Row
    BY DEF TableOK
  <1>2. DOMAIN rows[b] = {"status", "integ", "pos"}
    BY <1>1 DEF Row
  <1>3. [f \in DOMAIN rows[b] |->
           IF f \in DOMAIN [integ |-> i, pos |-> k] THEN [integ |-> i, pos |-> k][f] ELSE rows[b][f]]
          = [status |-> rows[b].status, integ |-> i, pos |-> k]
    BY <1>2
  <1> QED
    BY <1>3 DEF With

\* the status,
LEMMA WithStatus ==
  ASSUME TableOK, NEW b \in Branches, NEW s
  PROVE  With(b, [status |-> s])
           = [rows EXCEPT ![b] = [status |-> s, integ |-> rows[b].integ, pos |-> rows[b].pos]]
  <1>1. rows[b] \in Row
    BY DEF TableOK
  <1>2. DOMAIN rows[b] = {"status", "integ", "pos"}
    BY <1>1 DEF Row
  <1>3. [f \in DOMAIN rows[b] |->
           IF f \in DOMAIN [status |-> s] THEN [status |-> s][f] ELSE rows[b][f]]
          = [status |-> s, integ |-> rows[b].integ, pos |-> rows[b].pos]
    BY <1>2
  <1> QED
    BY <1>3 DEF With

\* or all three.
LEMMA WithAll ==
  ASSUME TableOK, NEW b \in Branches, NEW s, NEW i, NEW k
  PROVE  With(b, [status |-> s, integ |-> i, pos |-> k])
           = [rows EXCEPT ![b] = [status |-> s, integ |-> i, pos |-> k]]
  <1>1. rows[b] \in Row
    BY DEF TableOK
  <1>2. DOMAIN rows[b] = {"status", "integ", "pos"}
    BY <1>1 DEF Row
  <1>3. [f \in DOMAIN rows[b] |->
           IF f \in DOMAIN [status |-> s, integ |-> i, pos |-> k] THEN [status |-> s, integ |-> i, pos |-> k][f] ELSE rows[b][f]]
          = [status |-> s, integ |-> i, pos |-> k]
    BY <1>2
  <1> QED
    BY <1>3 DEF With

\* A worktree that asks for its position is told one behind all that wait.
LEMMA PositionIsBehind ==
  ASSUME TableOK
  PROVE  Position \in Nat /\ \A o \in Queued : rows[o].pos < Position
  <1> DEFINE S == {rows[b].pos : b \in Queued}
  <1>1. \A b \in Branches : rows[b].pos \in Nat
    BY DEF TableOK, Row
  <1>2. CASE Queued = {}
    BY <1>2 DEF Position, NextPosition
  <1>3. CASE Queued # {}
    <2>1. S \in SUBSET Nat /\ S # {}
      BY <1>1, <1>3 DEF Queued
    <2>2. IsFiniteSet(S)
      <3>1. IsFiniteSet(Queued)
        BY ConstantsAssumption, FS_Subset DEF Queued
      <3>2. [b \in Queued |-> rows[b].pos] \in Surjection(Queued, S)
        BY DEF Surjection
      <3> QED
        BY <3>1, <3>2, FS_Surjection
    <2>3. Max(S) \in Nat /\ \A y \in S : y <= Max(S)
      <3> HIDE DEF S
      <3> QED
        BY <2>1, <2>2, MaxIsLargest
    <2>4. Position = Max(S) + 1
      BY <1>3 DEF Position, NextPosition
    <2>5. \A o \in Queued : rows[o].pos \in S /\ rows[o].pos \in Nat
      BY <1>1 DEF Queued
    <2> HIDE DEF S
    <2> QED
      BY <2>3, <2>4, <2>5
  <1> QED
    BY <1>2, <1>3

-----------------------------------------------------------------------------
(* Type correctness.                                                       *)

\* The initial state is well typed.
LEMMA TypeInit == Init => TypeOK
  <1> SUFFICES ASSUME Init PROVE TypeOK
    OBVIOUS
  <1>1. RepoOK
    BY DEF Init, RepoOK, Histories
  <1>2. TableOK
    BY DEF Init, TableOK, Row, NoRow
  <1>3. ActorsOK
    <2>1. NoCall \in Call /\ NoStep \in Integrating
      BY DEF NoCall, Call, NoStep, Integrating
    <2>2. [phase |-> "new", to |-> {}, cur |-> {}] \in Trying
      BY DEF Trying, Histories
    <2> QED
      BY <2>1, <2>2 DEF Init, ActorsOK
  <1>4. faults \in 0..MaxFaults
    BY ConstantsAssumption DEF Init
  <1> QED
    BY <1>1, <1>2, <1>3, <1>4 DEF TypeOK

\* The working sets of the three kinds of actors.
LEMMA ActorFields ==
  ASSUME TypeOK
  PROVE  /\ \A c \in Callers : caller[c] \in Call
         /\ \A p \in Processors : processor[p] \in Integrating
         /\ \A a \in Attempts : attempt[a] \in Trying
         /\ \A b \in Branches : rows[b] \in Row
  BY DEF TypeOK, ActorsOK, TableOK

\* A request or processor that is under way has a branch that exists.
BusyOK ==
  /\ \A c \in Callers : caller[c].pc # "idle" => caller[c].wt \in Branches
  /\ \A p \in Processors : processor[p].pc # "idle" => processor[p].wt \in Branches

TypeInv == TypeOK /\ BusyOK

\* Git keeps histories of commits.
LEMMA RepoStep ==
  ASSUME TypeInv, [Next]_vars
  PROVE  RepoOK'
  <1> USE DEF TypeInv, TypeOK, hist
  <1>0. ASSUME NEW p \in Processors, Disturb(p)
        PROVE  overlapped' \subseteq Attempts /\ disturbed' \subseteq Branches
    <2>1. \A q \in Processors : processor[q].pc = "commit" => processor[q].wt \in Branches
      BY DEF BusyOK
    <2> QED
      BY <1>0, <2>1 DEF Disturb, RepoOK
  <1>1. ASSUME NEW c \in Callers, NEW b \in Branches, CreateGit(c, b)
        PROVE  RepoOK'
    BY <1>1 DEF CreateGit, RepoOK
  <1>2. ASSUME NEW c \in Callers, NEW b \in Branches, ReleaseGit(c, b)
        PROVE  RepoOK'
    BY <1>2 DEF ReleaseGit, RepoOK
  <1>3. ASSUME NEW b \in Branches, Develop(b)
        PROVE  RepoOK'
    <2>1. tips[b] \union {b} \in Histories
      BY DEF RepoOK, Histories, Commits
    <2> QED
      BY <1>3, <2>1 DEF Develop, RepoOK
  <1>4. ASSUME NEW p \in Processors, GitMerge(p)
        PROVE  RepoOK'
    <2>1. merging' \in {merging, processor[p].wt} /\ processor[p].wt \in Branches
      BY <1>4 DEF GitMerge, BusyOK
    <2> QED
      BY <1>0, <1>4, <2>1 DEF GitMerge, RepoOK
  <1>5. ASSUME NEW p \in Processors, AbortMerge(p)
        PROVE  RepoOK'
    BY <1>0, <1>5 DEF AbortMerge, RepoOK
  <1>6. ASSUME NEW p \in Processors, Commit(p)
        PROVE  RepoOK'
    <2>1. CASE Concludes
      <3>1. merging \in Branches /\ tips[merging] \in Histories
        BY <2>1 DEF Concludes, RepoOK
      <3>2. head \union tips[merging] \in Histories
        BY <3>1 DEF RepoOK, Histories
      <3> QED
        BY <1>6, <2>1, <3>1, <3>2 DEF Commit, CommitMerge, Land, RepoOK
    <2>2. CASE ~ Concludes
      BY <1>6, <2>2 DEF Commit, CommitMerge, RepoOK
    <2> QED
      BY <2>1, <2>2
  <1>7. ASSUME NEW a \in Attempts, Work(a)
        PROVE  RepoOK'
    <2>1. head \union {a} \in Histories
      BY DEF RepoOK, Histories, Commits
    <2>0. /\ overlapped' \subseteq Attempts /\ disturbed' \subseteq Branches
          /\ committed' \subseteq Attempts
      BY <1>7 DEF Work, RepoOK
    <2>2. CASE merging = NoBranch
      BY <1>7, <2>0, <2>1, <2>2 DEF Work, RepoOK
    <2>3. CASE merging # NoBranch
      <3>1. merging \in Branches /\ tips[merging] \in Histories
        BY <2>3 DEF RepoOK
      <3>2. head \union tips[merging] \union {a} \in Histories
        BY <2>1, <3>1 DEF Histories
      <3> QED
        BY <1>7, <2>0, <2>3, <3>1, <3>2 DEF Work, RepoOK
    <2> QED
      BY <2>2, <2>3
  <1>8. ASSUME NEW a \in Attempts, CreateBranch(a)
        PROVE  RepoOK'
    <2>1. attempt[a].cur \in Histories
      BY ActorFields DEF Trying
    <2> QED
      BY <1>8, <2>1 DEF CreateBranch, Keep, KeepHead, RepoOK
  <1>9. ASSUME NEW a \in Attempts, ResetHard(a)
        PROVE  RepoOK'
    <2>1. attempt[a].to \in Histories
      BY ActorFields DEF Trying
    <2> QED
      BY <1>9, <2>1 DEF ResetHard, RepoOK
  <1>10. CASE UNCHANGED repo
    BY <1>10 DEF repo, RepoOK
  <1>11. ASSUME NEW c \in Callers, Request(c)
         PROVE  RepoOK'
    BY <1>1, <1>2, <1>10, <1>11 DEF Request, ReadEnqueue, Register, WriteEnqueue, WriteRelease,
       DieCaller
  <1>12. ASSUME NEW p \in Processors, Process(p)
         PROVE  RepoOK'
    BY <1>4, <1>5, <1>6, <1>10, <1>12 DEF Process, Pick, MarkIntegrating, MarkConflict,
       MarkMerged, DieProcessor
  <1>13. ASSUME NEW a \in Attempts, Try(a)
         PROVE  RepoOK'
    BY <1>7, <1>8, <1>9, <1>10, <1>13 DEF Try, ReadSnapshot, WriteSnapshot, SkipSnapshot,
       BeginRollback, ReadHead, WriteRollback, Redeliver, GiveUp
  <1> QED
    BY <1>3, <1>10, <1>11, <1>12, <1>13 DEF Next, vars

\* The table keeps rows, and the order of arrival sets of branches.
LEMMA TableStep ==
  ASSUME TypeInv, [Next]_vars
  PROVE  TableOK'
  <1> USE DEF TypeInv, TypeOK
  <1>a. ASSUME NEW b, NEW c, Forget(b, c)
        PROVE  behind' \in [Branches -> SUBSET Branches]
    <2>1. \A o \in Branches : behind[o] \in SUBSET Branches
      BY DEF TableOK
    <2>2. \A o \in Branches : (IF o = b THEN {} ELSE behind[o] \ {b}) \in SUBSET Branches
      BY <2>1
    <2>3. behind' = [o \in Branches |-> IF o = b THEN {} ELSE behind[o] \ {b}]
      BY <1>a DEF Forget
    <2> QED
      BY <2>2, <2>3
  <1>b. ASSUME NEW b \in Branches, NEW row \in Row
        PROVE  [rows EXCEPT ![b] = row] \in [Branches -> Row]
    BY DEF TableOK
  <1>c. ASSUME NEW b \in Branches, NEW k \in Nat,
               NEW i \in {"none", "queued", "integrating", "merged", "conflict"}
        PROVE  With(b, [integ |-> i, pos |-> k]) \in [Branches -> Row]
    <2>1. [status |-> rows[b].status, integ |-> i, pos |-> k] \in Row
      BY ActorFields DEF Row
    <2>2. With(b, [integ |-> i, pos |-> k])
            = [rows EXCEPT ![b] = [status |-> rows[b].status, integ |-> i, pos |-> k]]
      BY WithPlace
    <2> QED
      BY <1>b, <2>1, <2>2
  <1>d. ASSUME NEW b \in Branches, NEW s \in {"none", "active", "merged", "abandoned"}
        PROVE  With(b, [status |-> s]) \in [Branches -> Row]
    <2>1. [status |-> s, integ |-> rows[b].integ, pos |-> rows[b].pos] \in Row
      BY ActorFields DEF Row
    <2>2. With(b, [status |-> s])
            = [rows EXCEPT ![b] = [status |-> s, integ |-> rows[b].integ, pos |-> rows[b].pos]]
      BY WithStatus
    <2> QED
      BY <1>b, <2>1, <2>2
  <1>e. ASSUME NEW b \in Branches
        PROVE  With(b, [status |-> "merged", integ |-> "merged", pos |-> 0]) \in [Branches -> Row]
    <2>1. [status |-> "merged", integ |-> "merged", pos |-> 0] \in Row
      BY DEF Row
    <2>2. With(b, [status |-> "merged", integ |-> "merged", pos |-> 0])
            = [rows EXCEPT ![b] = [status |-> "merged", integ |-> "merged", pos |-> 0]]
      BY WithAll
    <2> QED
      BY <1>b, <2>1, <2>2
  <1>1. ASSUME NEW c \in Callers, Register(c)
        PROVE  TableOK'
    <2>1. caller[c].wt \in Branches
      BY <1>1 DEF Register, BusyOK
    <2>2. [NoRow EXCEPT !.status = "active"] \in Row
      BY DEF NoRow, Row
    <2> QED
      BY <1>1, <1>b, <2>1, <2>2 DEF Register, TableOK
  <1>2. ASSUME NEW c \in Callers, WriteEnqueue(c)
        PROVE  TableOK'
    <2>1. caller[c].wt \in Branches
      BY <1>2 DEF WriteEnqueue, BusyOK
    <2>2. caller[c].pos \in Nat /\ caller[c].ahead \in SUBSET Branches
      BY ActorFields DEF Call
    <2>3. rows' \in [Branches -> Row]
      BY <1>2, <1>c, <2>1, <2>2 DEF WriteEnqueue
    <2>4. behind' \in [Branches -> SUBSET Branches]
      BY <1>2, <1>a, <2>1, <2>2 DEF WriteEnqueue, TableOK
    <2>5. requeued' \subseteq Branches
      BY <1>2, <2>1 DEF WriteEnqueue, TableOK
    <2> QED
      BY <2>3, <2>4, <2>5 DEF TableOK
  <1>3. ASSUME NEW c \in Callers, WriteRelease(c)
        PROVE  TableOK'
    <2>1. caller[c].wt \in Branches
      BY <1>3 DEF WriteRelease, BusyOK
    <2>2. With(caller[c].wt, [status |-> "abandoned"]) \in [Branches -> Row]
      BY <1>d, <2>1
    <2> QED
      BY <1>3, <2>2 DEF WriteRelease, TableOK
  <1>4. ASSUME NEW p \in Processors, MarkIntegrating(p) \/ MarkConflict(p) \/ MarkMerged(p)
        PROVE  TableOK'
    <2>1. processor[p].wt \in Branches
      BY <1>4 DEF MarkIntegrating, MarkConflict, MarkMerged, BusyOK
    <2>2. rows' \in [Branches -> Row]
      <3>1. /\ With(processor[p].wt, [integ |-> "integrating", pos |-> 0]) \in [Branches -> Row]
            /\ With(processor[p].wt, [integ |-> "conflict", pos |-> 0]) \in [Branches -> Row]
            /\ With(processor[p].wt, [status |-> "merged", integ |-> "merged", pos |-> 0])
                 \in [Branches -> Row]
        BY <1>c, <1>e, <2>1
      <3> QED
        BY <1>4, <3>1 DEF MarkIntegrating, MarkConflict, MarkMerged
    <2>3. behind' \in [Branches -> SUBSET Branches]
      BY <1>4, <1>a DEF MarkIntegrating, MarkConflict, MarkMerged
    <2>4. requeued' = requeued
      BY <1>4 DEF MarkIntegrating, MarkConflict, MarkMerged
    <2> QED
      BY <2>2, <2>3, <2>4 DEF TableOK
  <1>5. ASSUME UNCHANGED table
        PROVE  TableOK'
    BY <1>5 DEF table, TableOK
  <1>6. ASSUME NEW c \in Callers, Request(c)
        PROVE  TableOK'
    BY <1>1, <1>2, <1>3, <1>5, <1>6 DEF Request, CreateGit, ReadEnqueue, ReleaseGit, DieCaller
  <1>7. ASSUME NEW p \in Processors, Process(p)
        PROVE  TableOK'
    BY <1>4, <1>5, <1>7 DEF Process, Pick, GitMerge, AbortMerge, Commit, CommitMerge,
       DieProcessor, table
  <1>8. ASSUME NEW a \in Attempts, Try(a)
        PROVE  TableOK'
    BY <1>5, <1>8 DEF Try, ReadSnapshot, WriteSnapshot, SkipSnapshot, Work, BeginRollback,
       ReadHead, CreateBranch, ResetHard, WriteRollback, Redeliver, GiveUp
  <1> QED
    BY <1>5, <1>6, <1>7, <1>8 DEF Next, Develop, vars

\* Requests that are under way.
LEMMA CallersStep ==
  ASSUME TypeInv, [Next]_vars
  PROVE  /\ caller' \in [Callers -> Call]
         /\ \A c \in Callers : caller'[c].pc # "idle" => caller'[c].wt \in Branches
  <1> DEFINE Sound(r) == r \in Call /\ (r.pc # "idle" => r.wt \in Branches)
             Goal == caller' \in [Callers -> Call] /\ \A c \in Callers : Sound(caller'[c])
  <1> SUFFICES Goal
    OBVIOUS
  <1>a. \A c \in Callers : Sound(caller[c])
    BY DEF TypeInv, TypeOK, ActorsOK, BusyOK
  <1>b. caller \in [Callers -> Call]
    BY DEF TypeInv, TypeOK, ActorsOK
  <1>c. Sound(NoCall)
    BY DEF NoCall, Call
  <1>d. ASSUME NEW c \in Callers, NEW r, Sound(r), caller' = [caller EXCEPT ![c] = r]
        PROVE  Goal
    BY <1>a, <1>b, <1>d
  <1>e. ASSUME NEW b, NEW c, Forget(b, c)
        PROVE  Goal
    <2>1. caller' = [d \in Callers |-> IF d = c THEN NoCall
                                       ELSE [caller[d] EXCEPT !.ahead = @ \ {b}]]
      BY <1>e DEF Forget
    <2>2. ASSUME NEW d \in Callers
          PROVE  Sound([caller[d] EXCEPT !.ahead = @ \ {b}])
      BY <1>a DEF Call
    <2>3. \A d \in Callers : caller'[d] \in {NoCall, [caller[d] EXCEPT !.ahead = @ \ {b}]}
      BY <2>1
    <2> HIDE DEF Sound
    <2>4. \A d \in Callers : Sound(caller'[d])
      BY <1>c, <2>2, <2>3
    <2>5. \A d \in Callers : caller'[d] \in Call
      BY <2>4 DEF Sound
    <2>6. caller' = [d \in Callers |-> caller'[d]]
      BY <2>1
    <2> QED
      BY <2>4, <2>5, <2>6
  <1>1. ASSUME NEW c \in Callers, NEW b \in Branches,
               CreateGit(c, b) \/ ReadEnqueue(c, b) \/ ReleaseGit(c, b)
        PROVE  Goal
    <2>1. /\ Sound([NoCall EXCEPT !.pc = "register", !.wt = b])
          /\ Sound([NoCall EXCEPT !.pc = "release", !.wt = b])
      BY DEF NoCall, Call
    <2>2. Sound([pc |-> "enqueue", wt |-> b, pos |-> Position, ahead |-> Queued])
      <3>1. Position \in Nat
        BY PositionIsBehind DEF TypeInv, TypeOK
      <3> HIDE DEF Position
      <3> QED
        BY <3>1 DEF Call, Queued
    <2> HIDE DEF Sound
    <2> QED
      BY <1>1, <1>d, <2>1, <2>2 DEF CreateGit, ReadEnqueue, ReleaseGit
  <1>2. ASSUME NEW c \in Callers, Register(c) \/ WriteEnqueue(c) \/ WriteRelease(c) \/ DieCaller(c)
        PROVE  Goal
    <2>1. caller' = [caller EXCEPT ![c] = NoCall] \/ Forget(caller[c].wt, c)
      BY <1>2 DEF Register, WriteEnqueue, WriteRelease, DieCaller
    <2> HIDE DEF Sound
    <2> QED
      BY <1>c, <1>d, <1>e, <2>1
  <1>3. CASE UNCHANGED caller
    BY <1>a, <1>b, <1>3
  <1> HIDE DEF Goal
  <1>4. ASSUME NEW c \in Callers, Request(c)
        PROVE  Goal
    BY <1>1, <1>2, <1>4 DEF Request
  <1>5. ASSUME NEW p \in Processors, Process(p)
        PROVE  Goal
    BY <1>3, <1>5, <1>e DEF Process, Pick, MarkIntegrating, GitMerge, AbortMerge, MarkConflict,
       Commit, CommitMerge, MarkMerged, DieProcessor
  <1>6. ASSUME NEW a \in Attempts, Try(a)
        PROVE  Goal
    BY <1>3, <1>6 DEF Try, ReadSnapshot, WriteSnapshot, SkipSnapshot, Work, BeginRollback,
       ReadHead, CreateBranch, ResetHard, WriteRollback, Redeliver, GiveUp
  <1> QED
    BY <1>3, <1>4, <1>5, <1>6 DEF Next, Develop, vars

\* The integrations that are under way.
LEMMA ProcessorsStep ==
  ASSUME TypeInv, [Next]_vars
  PROVE  /\ processor' \in [Processors -> Integrating]
         /\ \A p \in Processors : processor'[p].pc # "idle" => processor'[p].wt \in Branches
  <1> DEFINE Sound(r) == r \in Integrating /\ (r.pc # "idle" => r.wt \in Branches)
             Goal == /\ processor' \in [Processors -> Integrating]
                     /\ \A p \in Processors : Sound(processor'[p])
  <1> SUFFICES Goal
    OBVIOUS
  <1>a. \A p \in Processors : Sound(processor[p])
    BY DEF TypeInv, TypeOK, ActorsOK, BusyOK
  <1>b. processor \in [Processors -> Integrating]
    BY DEF TypeInv, TypeOK, ActorsOK
  <1>c. Sound(NoStep)
    BY DEF NoStep, Integrating
  <1>d. ASSUME NEW p \in Processors, NEW r, Sound(r), processor' = [processor EXCEPT ![p] = r]
        PROVE  Goal
    BY <1>a, <1>b, <1>d
  <1>e. ASSUME NEW p \in Processors, processor[p].pc # "idle",
               NEW pc \in {"idle", "mark", "merge", "abort", "conflict", "commit", "merged"},
               Goto(p, pc)
        PROVE  Goal
    <2>1. Sound([processor[p] EXCEPT !.pc = pc])
      BY <1>a, <1>e DEF Integrating
    <2>2. processor' = [processor EXCEPT ![p] = [processor[p] EXCEPT !.pc = pc]]
      BY <1>e DEF Goto
    <2> QED
      BY <1>d, <2>1, <2>2
  <1>f. ASSUME NEW p \in Processors, Answer(p)
        PROVE  Goal
    BY <1>c, <1>d, <1>f DEF Answer
  <1>1. ASSUME NEW p \in Processors, Pick(p)
        PROVE  Goal
    <2>1. PICK b \in Branches : processor' = [processor EXCEPT ![p] = [pc |-> "mark", wt |-> b]]
      BY <1>1 DEF Pick, NextQueued, Queued
    <2>2. Sound([pc |-> "mark", wt |-> b])
      BY DEF Integrating
    <2> QED
      BY <1>d, <2>1, <2>2
  <1>2. CASE UNCHANGED processor
    BY <1>a, <1>b, <1>2
  <1> HIDE DEF Goal
  <1>3. ASSUME NEW p \in Processors, Process(p)
        PROVE  Goal
    <2>1. \/ Pick(p)
          \/ processor[p].pc # "idle" /\
               (Goto(p, "merge") \/ Goto(p, "commit") \/ Goto(p, "abort") \/ Goto(p, "conflict")
                \/ Goto(p, "merged"))
          \/ Answer(p)
      BY <1>3 DEF Process, MarkIntegrating, GitMerge, AbortMerge, MarkConflict, Commit,
         CommitMerge, MarkMerged, DieProcessor
    <2> QED
      BY <1>1, <1>e, <1>f, <2>1
  <1>4. ASSUME NEW c \in Callers, Request(c)
        PROVE  Goal
    BY <1>2, <1>4 DEF Request, CreateGit, ReadEnqueue, ReleaseGit, Register, WriteEnqueue,
       WriteRelease, DieCaller
  <1>5. ASSUME NEW a \in Attempts, Try(a)
        PROVE  Goal
    BY <1>2, <1>5 DEF Try, ReadSnapshot, WriteSnapshot, SkipSnapshot, Work, BeginRollback,
       ReadHead, CreateBranch, ResetHard, WriteRollback, Redeliver, GiveUp
  <1> QED
    BY <1>2, <1>3, <1>4, <1>5 DEF Next, Develop, vars

\* The attempts in the canonical checkout.
LEMMA AttemptsStep ==
  ASSUME TypeInv, [Next]_vars
  PROVE  attempt' \in [Attempts -> Trying]
  <1> DEFINE Phases == {"new", "anchor", "working", "worked", "rollback", "keep", "reset", "event",
                        "done"}
             Goal == attempt' \in [Attempts -> Trying]
  <1>a. attempt \in [Attempts -> Trying] /\ head \in Histories
    BY DEF TypeInv, TypeOK, ActorsOK, RepoOK
  <1>b. ASSUME NEW a \in Attempts, NEW r \in Trying, attempt' = [attempt EXCEPT ![a] = r]
        PROVE  Goal
    BY <1>a, <1>b
  <1>c. ASSUME NEW a \in Attempts, NEW phase \in Phases, Phase(a, phase)
        PROVE  Goal
    <2>1. [attempt[a] EXCEPT !.phase = phase] \in Trying
      BY <1>a DEF Trying
    <2>2. attempt' = [attempt EXCEPT ![a] = [attempt[a] EXCEPT !.phase = phase]]
      BY <1>c DEF Phase
    <2> QED
      BY <1>b, <2>1, <2>2
  <1>1. ASSUME NEW a \in Attempts, ReadSnapshot(a)
        PROVE  Goal
    <2>1. [phase |-> "anchor", to |-> {}, cur |-> head] \in Trying
      BY <1>a DEF Trying, Histories
    <2> QED
      BY <1>1, <1>b, <2>1 DEF ReadSnapshot
  <1>2. ASSUME NEW a \in Attempts, WriteSnapshot(a)
        PROVE  Goal
    <2>1. [phase |-> "working", to |-> attempt[a].cur, cur |-> {}] \in Trying
      BY <1>a DEF Trying, Histories
    <2> QED
      BY <1>2, <1>b, <2>1 DEF WriteSnapshot
  <1>3. ASSUME NEW a \in Attempts, ReadHead(a)
        PROVE  Goal
    <2>1. PICK phase \in {"done", "keep"} :
            attempt' = [attempt EXCEPT ![a].cur = head, ![a].phase = phase]
      BY <1>3 DEF ReadHead
    <2>2. [[attempt[a] EXCEPT !.cur = head] EXCEPT !.phase = phase] \in Trying
      BY <1>a DEF Trying
    <2>3. attempt' = [attempt EXCEPT ![a] = [[attempt[a] EXCEPT !.cur = head] EXCEPT !.phase = phase]]
      BY <1>a, <2>1
    <2> QED
      BY <1>b, <2>2, <2>3
  <1>4. ASSUME UNCHANGED attempt
        PROVE  Goal
    BY <1>a, <1>4
  <1>5. ASSUME NEW a \in Attempts, Try(a)
        PROVE  Goal
    <2>1. \/ ReadSnapshot(a) \/ WriteSnapshot(a) \/ ReadHead(a)
          \/ \E phase \in Phases : Phase(a, phase)
      BY <1>5 DEF Try, SkipSnapshot, Work, BeginRollback, CreateBranch, ResetHard, WriteRollback,
         Redeliver, GiveUp
    <2> HIDE DEF Goal
    <2> QED
      BY <1>1, <1>2, <1>3, <1>c, <2>1
  <1>6. ASSUME NEW c \in Callers, Request(c)
        PROVE  Goal
    BY <1>4, <1>6 DEF Request, CreateGit, ReadEnqueue, ReleaseGit, Register, WriteEnqueue,
       WriteRelease, DieCaller
  <1>7. ASSUME NEW p \in Processors, Process(p)
        PROVE  Goal
    BY <1>4, <1>7 DEF Process, Pick, MarkIntegrating, GitMerge, AbortMerge, MarkConflict, Commit,
       CommitMerge, MarkMerged, DieProcessor
  <1> QED
    BY <1>4, <1>5, <1>6, <1>7 DEF Next, Develop, vars

\* Every step keeps the types and the branches of what is under way.
LEMMA TypeStep == TypeInv /\ [Next]_vars => TypeInv'
  <1> SUFFICES ASSUME TypeInv, [Next]_vars PROVE TypeInv'
    OBVIOUS
  <1>1. ActorsOK' /\ BusyOK'
    BY CallersStep, ProcessorsStep, AttemptsStep DEF ActorsOK, BusyOK
  <1>2. faults' \in 0..MaxFaults
    <2>1. faults' = faults \/ Fail
      BY DEF Next, Request, Process, Try, CreateGit, ReadEnqueue, ReleaseGit, Register,
         WriteEnqueue, WriteRelease, DieCaller, Pick, MarkIntegrating, GitMerge, AbortMerge,
         MarkConflict, Commit, CommitMerge, MarkMerged, DieProcessor, ReadSnapshot, WriteSnapshot,
         SkipSnapshot, Work, BeginRollback, ReadHead, CreateBranch, ResetHard, WriteRollback,
         Redeliver, GiveUp, Develop, vars
    <2>2. faults \in 0..MaxFaults
      BY DEF TypeInv, TypeOK
    <2> QED
      BY <2>1, <2>2, ConstantsAssumption DEF Fail
  <1> QED
    BY <1>1, <1>2, RepoStep, TableStep DEF TypeInv, TypeOK

\* So they hold throughout.
LEMMA Typed == Spec => []TypeInv
  <1>1. Init => TypeInv
    BY TypeInit DEF TypeInv, BusyOK, Init, NoCall, NoStep
  <1> QED
    BY <1>1, TypeStep, PTL DEF Spec

\* Every variable holds a value of its kind, for every set of branches,
\* requests, processors and attempts.
THEOREM IntegrationTyped == Spec => []TypeOK
  <1>1. TypeInv => TypeOK
    BY DEF TypeInv
  <1> QED
    BY <1>1, Typed, PTL

-----------------------------------------------------------------------------
(* What an attempt has committed is never lost, unless it committed while  *)
(* another attempt was rolled back.                                        *)

\* No rollback that is under way can miss the commit x.
Safe(x) ==
  /\ x \in head
  /\ \A o \in Attempts :
       /\ attempt[o].phase \notin {"reset", "event"}
       /\ attempt[o].phase \in {"rollback", "keep"} => kept[o] = {}
       /\ attempt[o].phase = "keep" => x \in attempt[o].cur

\* Nothing is kept before the rollback; what is committed is on an evidence
\* branch or safe from every rollback.
KeptInv ==
  /\ \A a \in Attempts :
       attempt[a].phase \in {"new", "anchor", "working", "worked"} => kept[a] = {}
  /\ \A x \in committed \ overlapped : Safe(x) \/ \E a \in Attempts : x \in kept[a]

\* At first nothing has been committed.
LEMMA KeptInit == Init => KeptInv
  BY DEF Init, KeptInv

\* What a phase change does to an attempt.
LEMMA PhaseStep ==
  ASSUME TypeInv, NEW a \in Attempts, NEW phase, Phase(a, phase)
  PROVE  /\ attempt'[a].phase = phase /\ attempt'[a].cur = attempt[a].cur
         /\ \A o \in Attempts \ {a} : attempt'[o] = attempt[o]
  <1>1. attempt \in [Attempts -> Trying] /\ DOMAIN attempt[a] = {"phase", "to", "cur"}
    BY DEF TypeInv, TypeOK, ActorsOK, Trying
  <1>2. attempt' = [attempt EXCEPT ![a] = [attempt[a] EXCEPT !.phase = phase]]
    BY DEF Phase
  <1> QED
    BY <1>1, <1>2

\* An evidence branch that exists stays where it is.
LEMMA EvidenceStays ==
  ASSUME TypeInv, [Next]_vars, NEW a \in Attempts
  PROVE  kept[a] \subseteq kept'[a]
  <1>1. ASSUME NEW o \in Attempts, CreateBranch(o)
        PROVE  kept[a] \subseteq kept'[a]
    <2>1. kept \in [Attempts -> Histories]
      BY DEF TypeInv, TypeOK, RepoOK
    <2> QED
      BY <1>1, <2>1 DEF CreateBranch, Keep, KeepHead
  <1>2. (\E o \in Attempts : CreateBranch(o)) \/ kept' = kept
    BY DEF Next, Request, Process, Try, CreateGit, ReadEnqueue, ReleaseGit, Register,
       WriteEnqueue, WriteRelease, DieCaller, Pick, MarkIntegrating, GitMerge, AbortMerge,
       MarkConflict, Commit, CommitMerge, MarkMerged, DieProcessor, ReadSnapshot, WriteSnapshot,
       SkipSnapshot, Work, BeginRollback, ReadHead, ResetHard, WriteRollback,
       Redeliver, GiveUp, Develop, vars, repo
  <1> QED
    BY <1>1, <1>2

\* Integrations, requests and agents leave the attempts alone and only add
\* to the canonical branch.
LEMMA OthersKeep ==
  ASSUME [Next]_vars, ~ \E a \in Attempts : Try(a)
  PROVE  head \subseteq head' /\ UNCHANGED <<attempt, kept, committed, overlapped>>
  <1>1. ASSUME NEW p \in Processors, Process(p)
        PROVE  head \subseteq head' /\ UNCHANGED <<attempt, kept, committed, overlapped>>
    BY <1>1 DEF Process, Pick, MarkIntegrating, GitMerge, AbortMerge, MarkConflict, Commit,
       CommitMerge, Land, MarkMerged, DieProcessor, Disturb, repo, hist
  <1>2. ASSUME NEW c \in Callers, Request(c)
        PROVE  head \subseteq head' /\ UNCHANGED <<attempt, kept, committed, overlapped>>
    BY <1>2 DEF Request, CreateGit, ReadEnqueue, ReleaseGit, Register, WriteEnqueue,
       WriteRelease, DieCaller, repo, hist
  <1> QED
    BY <1>1, <1>2 DEF Next, Develop, vars, repo, hist

\* A commit that was safe is safe or on an evidence branch after the step.
LEMMA SafeStep ==
  ASSUME TypeInv, KeptInv, [Next]_vars, NEW x \in committed, Safe(x)
  PROVE  Safe(x)' \/ \E k \in Attempts : x \in kept'[k]
  <1>a. attempt \in [Attempts -> Trying] /\ kept \in [Attempts -> Histories]
    BY DEF TypeInv, TypeOK, ActorsOK, RepoOK
  <1>b. ASSUME NEW a \in Attempts, \A o \in Attempts \ {a} : attempt'[o] = attempt[o], kept' = kept,
               x \in head',
               attempt'[a].phase \notin {"reset", "event"},
               attempt'[a].phase \in {"rollback", "keep"} => kept[a] = {},
               attempt'[a].phase = "keep" => x \in attempt'[a].cur
        PROVE  Safe(x)'
    BY <1>b DEF Safe
  <1>1. ASSUME NEW a \in Attempts, ReadSnapshot(a) \/ WriteSnapshot(a)
        PROVE  Safe(x)'
    <2>1. /\ attempt'[a].phase \in {"anchor", "working"}
          /\ \A o \in Attempts \ {a} : attempt'[o] = attempt[o]
      BY <1>1, <1>a DEF ReadSnapshot, WriteSnapshot
    <2> QED
      BY <1>1, <1>b, <2>1 DEF ReadSnapshot, WriteSnapshot, repo, Safe
  <1>2. ASSUME NEW a \in Attempts, NEW phase \in {"new", "working", "worked", "rollback", "done"},
               Phase(a, phase), kept' = kept, head \subseteq head',
               phase = "rollback" => kept[a] = {}
        PROVE  Safe(x)'
    <2>1. attempt'[a].phase = phase /\ \A o \in Attempts \ {a} : attempt'[o] = attempt[o]
      BY <1>2, PhaseStep
    <2>2. x \in head'
      BY <1>2 DEF Safe
    <2> QED
      BY <1>2, <1>b, <2>1, <2>2
  <1>3. ASSUME NEW a \in Attempts, SkipSnapshot(a) \/ WriteRollback(a) \/ GiveUp(a) \/ Work(a)
        PROVE  Safe(x)'
    BY <1>2, <1>3 DEF SkipSnapshot, WriteRollback, GiveUp, Work, repo
  <1>4. ASSUME NEW a \in Attempts, BeginRollback(a)
        PROVE  Safe(x)'
    <2>1. kept[a] = {}
      BY <1>4 DEF BeginRollback, KeptInv
    <2>2. Phase(a, "done") \/ Phase(a, "rollback")
      BY <1>4 DEF BeginRollback
    <2>3. kept' = kept /\ head \subseteq head'
      BY <1>4 DEF BeginRollback, repo
    <2> QED
      BY <1>2, <2>1, <2>2, <2>3
  <1>5. ASSUME NEW a \in Attempts, Redeliver(a)
        PROVE  Safe(x)'
    <2>1. attempt[a].phase \in {"anchor", "keep"} /\ (attempt[a].phase = "keep" => kept[a] = {})
      BY <1>5 DEF Redeliver, Safe
    <2>2. \/ attempt[a].phase = "anchor" /\ Phase(a, "new")
          \/ attempt[a].phase = "keep" /\ Phase(a, "rollback")
      BY <1>5, <2>1 DEF Redeliver
    <2>3. kept' = kept /\ head \subseteq head'
      BY <1>5 DEF Redeliver, repo
    <2> QED
      BY <1>2, <2>1, <2>2, <2>3
  <1>6. ASSUME NEW a \in Attempts, ReadHead(a)
        PROVE  Safe(x)'
    <2>1. /\ attempt'[a].phase \in {"done", "keep"} /\ attempt'[a].cur = head
          /\ \A o \in Attempts \ {a} : attempt'[o] = attempt[o]
      <3>1. DOMAIN attempt[a] = {"phase", "to", "cur"}
        BY <1>a DEF Trying
      <3> QED
        BY <1>6, <1>a, <3>1 DEF ReadHead
    <2>2. kept[a] = {}
      BY <1>6 DEF ReadHead, Safe
    <2>3. kept' = kept /\ x \in head' /\ x \in head
      BY <1>6 DEF ReadHead, repo, Safe
    <2> QED
      BY <1>b, <2>1, <2>2, <2>3
  <1>7. ASSUME NEW a \in Attempts, CreateBranch(a)
        PROVE  x \in kept'[a]
    <2>1. attempt[a].phase = "keep" /\ kept[a] = {} /\ x \in attempt[a].cur
      BY <1>7 DEF CreateBranch, Safe
    <2>2. kept'[a] = IF kept[a] = {} THEN attempt[a].cur ELSE kept[a]
      BY <1>7, <1>a DEF CreateBranch, Keep, KeepHead
    <2> QED
      BY <2>1, <2>2
  <1>8. ASSUME NEW a \in Attempts, ResetHard(a)
        PROVE  FALSE
    BY <1>8 DEF ResetHard, Safe
  <1>9. CASE ~ \E a \in Attempts : Try(a)
    BY <1>9, OthersKeep DEF Safe
  <1> QED
    BY <1>1, <1>3, <1>4, <1>5, <1>6, <1>7, <1>8, <1>9 DEF Try

\* Every step keeps the work reachable.
LEMMA KeptStep ==
  ASSUME TypeInv, KeptInv, [Next]_vars
  PROVE  KeptInv'
  <1>a. attempt \in [Attempts -> Trying] /\ kept \in [Attempts -> Histories]
    BY DEF TypeInv, TypeOK, ActorsOK, RepoOK
  <1>1. ASSUME NEW a \in Attempts, attempt'[a].phase \in {"new", "anchor", "working", "worked"}
        PROVE  kept'[a] = {}
    <2>1. CASE ~ \E o \in Attempts : Try(o)
      BY <1>1, <2>1, OthersKeep DEF KeptInv
    <2>2. ASSUME NEW o \in Attempts, ReadSnapshot(o) \/ WriteSnapshot(o) \/ ReadHead(o)
          PROVE  kept'[a] = {}
      <3>1. kept' = kept
        BY <2>2 DEF ReadSnapshot, WriteSnapshot, ReadHead, repo
      <3>2. attempt'[a] = attempt[a] \/ (a = o /\ attempt[a].phase \in {"new", "anchor"})
            \/ (a = o /\ attempt'[a].phase \in {"done", "keep"})
        <4>1. DOMAIN attempt[o] = {"phase", "to", "cur"}
          BY <1>a DEF Trying
        <4> QED
          BY <2>2, <1>a, <4>1 DEF ReadSnapshot, WriteSnapshot, ReadHead
      <3> QED
        BY <1>1, <3>1, <3>2 DEF KeptInv
    <2>3. ASSUME NEW o \in Attempts, SkipSnapshot(o) \/ Work(o) \/ BeginRollback(o) \/ ResetHard(o)
                                     \/ WriteRollback(o) \/ Redeliver(o) \/ GiveUp(o)
          PROVE  kept'[a] = {}
      <3>1. kept' = kept
        BY <2>3 DEF SkipSnapshot, Work, BeginRollback, ResetHard, WriteRollback, Redeliver,
           GiveUp, repo
      <3>2. PICK phase \in {"new", "working", "worked", "rollback", "event", "done"} :
              Phase(o, phase) /\ (phase \in {"new", "working", "worked"} =>
                                    attempt[o].phase \in {"new", "anchor", "working"})
        BY <2>3 DEF SkipSnapshot, Work, BeginRollback, ResetHard, WriteRollback, Redeliver, GiveUp
      <3>3. attempt'[o].phase = phase /\ \A k \in Attempts \ {o} : attempt'[k] = attempt[k]
        BY <3>2, PhaseStep
      <3> QED
        BY <1>1, <3>1, <3>2, <3>3 DEF KeptInv
    <2>4. ASSUME NEW o \in Attempts, CreateBranch(o)
          PROVE  kept'[a] = {}
      <3>1. attempt'[o].phase = "reset" /\ \A k \in Attempts \ {o} : attempt'[k] = attempt[k]
        BY <2>4, PhaseStep DEF CreateBranch
      <3>2. a # o /\ attempt'[a] = attempt[a]
        BY <1>1, <3>1
      <3>3. kept'[a] = kept[a]
        BY <2>4, <1>a, <3>2 DEF CreateBranch, Keep, KeepHead
      <3> QED
        BY <1>1, <3>2, <3>3 DEF KeptInv
    <2> QED
      BY <2>1, <2>2, <2>3, <2>4 DEF Try
  <1>2. ASSUME NEW x \in committed' \ overlapped'
        PROVE  Safe(x)' \/ \E a \in Attempts : x \in kept'[a]
    <2>1. ASSUME x \in committed \ overlapped
          PROVE  Safe(x)' \/ \E a \in Attempts : x \in kept'[a]
      <3>1. CASE Safe(x)
        BY <2>1, <3>1, SafeStep
      <3>2. CASE \E a \in Attempts : x \in kept[a]
        BY <3>2, EvidenceStays
      <3> QED
        BY <2>1, <3>1, <3>2 DEF KeptInv
    <2>2. ASSUME NEW a \in Attempts, Work(a), x = a
          PROVE  Safe(x)'
      <3>1. RollingBack \ {a} = {}
        BY <1>2, <2>2 DEF Work
      <3>2. attempt'[a].phase = "worked" /\ \A o \in Attempts \ {a} : attempt'[o] = attempt[o]
        BY <2>2, PhaseStep DEF Work
      <3>3. \A o \in Attempts \ {a} : attempt[o].phase \notin {"rollback", "keep", "reset", "event"}
        BY <3>1 DEF RollingBack
      <3>4. x \in head'
        BY <2>2 DEF Work
      <3> QED
        BY <3>2, <3>3, <3>4 DEF Safe
    <2>3. x \in committed \ overlapped \/ \E a \in Attempts : Work(a) /\ x = a
      <3>1. CASE ~ \E a \in Attempts : Try(a)
        BY <1>2, <3>1, OthersKeep
      <3>2. ASSUME NEW a \in Attempts, Work(a)
            PROVE  x = a \/ x \in committed \ overlapped
        BY <1>2, <3>2 DEF Work
      <3>3. ASSUME NEW a \in Attempts, Try(a), ~ Work(a)
            PROVE  committed' = committed /\ overlapped' = overlapped
        BY <3>3 DEF Try, ReadSnapshot, WriteSnapshot, SkipSnapshot, BeginRollback, ReadHead,
           CreateBranch, ResetHard, WriteRollback, Redeliver, GiveUp, repo, hist
      <3> QED
        BY <1>2, <3>1, <3>2, <3>3
    <2> QED
      BY <2>1, <2>2, <2>3
  <1> QED
    BY <1>1, <1>2 DEF KeptInv

\* What an attempt has committed can be reached from the canonical branch or
\* from an evidence branch, across rollbacks, redeliveries and integrations,
\* unless it committed while another attempt was rolled back.
THEOREM CommittedWorkIsKept == Spec => []WorkKept
  <1>1. KeptInv => WorkKept
    BY DEF WorkKept, KeptInv, Safe
  <1>2. TypeInv /\ KeptInv /\ [Next]_vars => KeptInv'
    BY KeptStep
  <1> QED
    BY <1>1, <1>2, KeptInit, Typed, PTL DEF Spec

-----------------------------------------------------------------------------
(* What one row of the table becomes.                                      *)

\* The fields of a row after With, and the rows it leaves alone.
LEMMA PlaceField ==
  ASSUME TableOK, NEW b \in Branches, NEW i, NEW k, rows' = With(b, [integ |-> i, pos |-> k])
  PROVE  /\ rows'[b].integ = i /\ rows'[b].pos = k /\ rows'[b].status = rows[b].status
         /\ \A o \in Branches \ {b} : rows'[o] = rows[o]
  <1>1. rows' = [rows EXCEPT ![b] = [status |-> rows[b].status, integ |-> i, pos |-> k]]
    BY WithPlace
  <1> QED
    BY <1>1 DEF TableOK

\* A row whose status is written keeps its place,
LEMMA StatusField ==
  ASSUME TableOK, NEW b \in Branches, NEW s, rows' = With(b, [status |-> s])
  PROVE  /\ rows'[b].status = s /\ \A o \in Branches \ {b} : rows'[o] = rows[o]
         /\ \A o \in Branches : rows'[o].integ = rows[o].integ /\ rows'[o].pos = rows[o].pos
  <1>1. rows' = [rows EXCEPT ![b] = [status |-> s, integ |-> rows[b].integ, pos |-> rows[b].pos]]
    BY WithStatus
  <1> QED
    BY <1>1 DEF TableOK

\* and one that is marked merged gets both.
LEMMA MergedField ==
  ASSUME TableOK, NEW b \in Branches, NEW s, NEW i, NEW k,
         rows' = With(b, [status |-> s, integ |-> i, pos |-> k])
  PROVE  /\ rows'[b].integ = i /\ rows'[b].status = s
         /\ \A o \in Branches \ {b} : rows'[o] = rows[o]
  <1>1. rows' = [rows EXCEPT ![b] = [status |-> s, integ |-> i, pos |-> k]]
    BY WithAll
  <1> QED
    BY <1>1 DEF TableOK

\* A row is entered before it is queued.
LEMMA RegisteredField ==
  ASSUME TableOK, NEW c \in Callers, Register(c)
  PROVE  \A o \in Branches : rows'[o] = rows[o] \/ (rows'[o].integ = "none" /\ rows'[o].pos = 0)
  BY DEF Register, TableOK, NoRow

-----------------------------------------------------------------------------
(* A row says merged only after a merge commit of its branch, unless       *)
(* another request ran git between its merge and its commit.               *)

\* What the merge commit of a branch brought in is on the canonical branch,
\* unless a rollback has reset it.
Landed(b) == landed[b] # {} /\ (landed[b] \subseteq head \/ reset)

\* The merge in progress is that of the branch the request integrates, and
\* when it says merged the branch has landed.
Undisturbed(p) ==
  processor[p].wt \notin disturbed =>
    /\ processor[p].pc = "commit" => merging \in {processor[p].wt, NoBranch}
    /\ processor[p].pc = "merged" => Landed(processor[p].wt)

LandedInv ==
  /\ merging # NoBranch => tips[merging] # {}
  /\ \A p \in Processors : Undisturbed(p)
  /\ MergedWasLanded

\* At first nothing is merged or queued.
LEMMA LandedInit == Init => LandedInv
  BY DEF Init, LandedInv, Undisturbed, MergedWasLanded, NoStep, NoRow

\* What has landed stays so: the canonical branch loses commits by a reset only.
LEMMA LandedStays ==
  ASSUME TypeInv, LandedInv, [Next]_vars, NEW b \in Branches, Landed(b)
  PROVE  Landed(b)'
  <1>1. head \in Histories /\ landed \in [Branches -> Histories]
    BY DEF TypeInv, TypeOK, RepoOK
  <1>2. CASE UNCHANGED landed /\ (reset => reset') /\ (head \subseteq head' \/ reset')
    BY <1>2 DEF Landed
  <1>3. ASSUME merging \in Branches, landed' = [landed EXCEPT ![merging] = tips[merging]],
               reset' = reset, head \union tips[merging] \subseteq head'
        PROVE  Landed(b)'
    <2>1. CASE b = merging
      <3>1. landed'[b] = tips[b] /\ tips[b] # {}
        BY <1>1, <1>3, <2>1, ConstantsAssumption DEF LandedInv
      <3> QED
        BY <1>3, <2>1, <3>1 DEF Landed
    <2>2. CASE b # merging
      <3>1. landed'[b] = landed[b]
        BY <1>1, <1>3, <2>2
      <3> QED
        BY <1>3, <3>1 DEF Landed
    <2> QED
      BY <2>1, <2>2
  <1>4. merging \in Branches \union {NoBranch}
    BY DEF TypeInv, TypeOK, RepoOK
  <1>5. ASSUME NEW p \in Processors, Process(p)
        PROVE  Landed(b)'
    <2>1. CASE Commit(p) /\ Concludes
      BY <1>3, <1>4, <2>1 DEF Commit, CommitMerge, Concludes, Land
    <2>2. CASE ~ (Commit(p) /\ Concludes)
      BY <1>2, <1>5, <2>2 DEF Process, Pick, MarkIntegrating, GitMerge, AbortMerge, MarkConflict,
         Commit, CommitMerge, MarkMerged, DieProcessor, repo
    <2> QED
      BY <2>1, <2>2
  <1>6. ASSUME NEW a \in Attempts, Try(a)
        PROVE  Landed(b)'
    <2>1. CASE Work(a)
      <3>1. CASE merging = NoBranch
        BY <1>2, <2>1, <3>1 DEF Work
      <3>2. CASE merging # NoBranch
        BY <1>3, <1>4, <2>1, <3>2 DEF Work
      <3> QED
        BY <3>1, <3>2
    <2>2. CASE ResetHard(a)
      BY <1>2, <2>2 DEF ResetHard
    <2>3. CASE ~ Work(a) /\ ~ ResetHard(a)
      BY <1>2, <1>6, <2>3 DEF Try, ReadSnapshot, WriteSnapshot, SkipSnapshot, BeginRollback,
         ReadHead, CreateBranch, WriteRollback, Redeliver, GiveUp, repo
    <2> QED
      BY <2>1, <2>2, <2>3
  <1>7. ASSUME NEW c \in Callers, Request(c)
        PROVE  Landed(b)'
    BY <1>2, <1>7 DEF Request, CreateGit, ReadEnqueue, ReleaseGit, Register, WriteEnqueue,
       WriteRelease, DieCaller, repo
  <1>8. CASE UNCHANGED vars \/ \E o \in Branches : Develop(o)
    BY <1>2, <1>8 DEF vars, repo, Develop
  <1> QED
    BY <1>5, <1>6, <1>7, <1>8 DEF Next

\* A branch that has been disturbed stays so.
LEMMA DisturbedStays ==
  ASSUME [Next]_vars
  PROVE  disturbed \subseteq disturbed'
  BY DEF Next, Request, Process, Try, CreateGit, ReadEnqueue, ReleaseGit, Register, WriteEnqueue,
     WriteRelease, DieCaller, Pick, MarkIntegrating, GitMerge, AbortMerge, MarkConflict, Commit,
     CommitMerge, MarkMerged, DieProcessor, ReadSnapshot, WriteSnapshot, SkipSnapshot, Work,
     BeginRollback, ReadHead, CreateBranch, ResetHard, WriteRollback, Redeliver, GiveUp, Develop,
     Disturb, vars, repo, hist

\* Every step keeps the merge in progress that of the branch integrated.
LEMMA LandedStep ==
  ASSUME TypeInv, LandedInv, [Next]_vars
  PROVE  LandedInv'
  <1>a. TableOK /\ tips \in [Branches -> Histories] /\ merging \in Branches \union {NoBranch}
        /\ NoBranch \notin Branches /\ landed \in [Branches -> Histories]
        /\ processor \in [Processors -> Integrating] /\ disturbed \subseteq disturbed'
    BY ConstantsAssumption, DisturbedStays DEF TypeInv, TypeOK, RepoOK, ActorsOK
  <1>b. \A p \in Processors : processor[p].pc # "idle" => processor[p].wt \in Branches
    BY DEF TypeInv, BusyOK
  <1>d. ASSUME NEW p \in Processors, NEW pc, Goto(p, pc)
        PROVE  /\ processor'[p].pc = pc /\ processor'[p].wt = processor[p].wt
               /\ \A q \in Processors \ {p} : processor'[q] = processor[q]
    <2>1. DOMAIN processor[p] = {"pc", "wt"}
      BY <1>a DEF Integrating
    <2> QED
      BY <1>a, <1>d, <2>1 DEF Goto
  <1>e. ASSUME NEW p \in Processors, Answer(p)
        PROVE  /\ processor'[p].pc = "idle"
               /\ \A q \in Processors \ {p} : processor'[q] = processor[q]
    BY <1>a, <1>e DEF Answer, NoStep
  <1>f. \A b \in Branches : Landed(b) => Landed(b)'
    BY LandedStays
  <1>g. ASSUME \A b \in Branches : rows'[b].integ = "merged" =>
                 rows[b].integ = "merged"
                 \/ (\E p \in Processors : processor[p].pc = "merged" /\ processor[p].wt = b)
        PROVE  MergedWasLanded'
    <2> SUFFICES ASSUME NEW b \in Branches, b \notin disturbed', rows'[b].integ = "merged"
                 PROVE  Landed(b)'
      BY DEF MergedWasLanded, Landed
    <2>1. b \notin disturbed
      BY <1>a
    <2>2. CASE rows[b].integ = "merged"
      BY <1>f, <2>1, <2>2 DEF LandedInv, MergedWasLanded, Landed
    <2>3. ASSUME NEW p \in Processors, processor[p].pc = "merged", processor[p].wt = b
          PROVE  Landed(b)'
      BY <1>f, <2>1, <2>3 DEF LandedInv, Undisturbed
    <2> QED
      BY <1>g, <2>2, <2>3
  <1>k. ASSUME NEW q \in Processors, processor'[q] = processor[q],
               processor[q].pc = "commit" /\ processor[q].wt \notin disturbed'
                 => merging' \in {merging, NoBranch}
        PROVE  Undisturbed(q)'
    <2> SUFFICES ASSUME processor[q].wt \notin disturbed'
                 PROVE  /\ processor[q].pc = "commit" => merging' \in {processor[q].wt, NoBranch}
                        /\ processor[q].pc = "merged" => Landed(processor[q].wt)'
      BY <1>k DEF Undisturbed, Landed
    <2>1. processor[q].wt \notin disturbed /\ Undisturbed(q)
      BY <1>a DEF LandedInv
    <2>2. CASE processor[q].pc = "commit"
      BY <1>k, <2>1, <2>2 DEF Undisturbed
    <2>3. CASE processor[q].pc = "merged"
      <3>1. PICK b \in Branches : b = processor[q].wt
        BY <1>b, <2>3
      <3>2. Landed(b)
        BY <2>1, <2>3, <3>1 DEF Undisturbed
      <3>3. Landed(b)' /\ processor'[q].wt = b
        BY <1>f, <1>k, <3>1, <3>2
      <3>4. Landed(processor[q].wt)'
        BY <3>3 DEF Landed
      <3> QED
        BY <2>3, <3>4
    <2> QED
      BY <2>2, <2>3
  <1>h. ASSUME merging' \in {merging, NoBranch}, UNCHANGED <<tips, processor>>,
               \A b \in Branches : rows'[b].integ = "merged" => rows[b].integ = "merged"
        PROVE  LandedInv'
    BY <1>g, <1>h, <1>k DEF LandedInv
  <1>i. ASSUME UNCHANGED rows
        PROVE  MergedWasLanded'
    BY <1>g, <1>i
  <1>j. ASSUME NEW p \in Processors, \A q \in Processors \ {p} : processor'[q] = processor[q],
               processor'[p].pc \notin {"commit", "merged"}, merging' \in {merging, NoBranch},
               UNCHANGED tips, MergedWasLanded'
        PROVE  LandedInv'
    <2>1. \A q \in Processors \ {p} : Undisturbed(q)'
      BY <1>j, <1>k
    <2>2. Undisturbed(p)'
      BY <1>j DEF Undisturbed
    <2> QED
      BY <1>j, <2>1, <2>2 DEF LandedInv
  <1>1. ASSUME NEW p \in Processors, Pick(p)
        PROVE  LandedInv'
    <2>1. processor'[p].pc = "mark" /\ \A q \in Processors \ {p} : processor'[q] = processor[q]
      BY <1>a, <1>1 DEF Pick
    <2>2. UNCHANGED <<merging, tips, rows>>
      BY <1>1 DEF Pick, repo, table
    <2> QED
      BY <1>i, <1>j, <2>1, <2>2
  <1>2. ASSUME NEW p \in Processors, MarkIntegrating(p) \/ MarkConflict(p)
        PROVE  LandedInv'
    <2>1. /\ processor'[p].pc \in {"merge", "idle"}
          /\ \A q \in Processors \ {p} : processor'[q] = processor[q]
      BY <1>d, <1>e, <1>2 DEF MarkIntegrating, MarkConflict
    <2>2. PICK i \in {"integrating", "conflict"} :
            rows' = With(processor[p].wt, [integ |-> i, pos |-> 0])
      BY <1>2 DEF MarkIntegrating, MarkConflict
    <2>3. processor[p].wt \in Branches /\ UNCHANGED <<merging, tips>>
      BY <1>2, <1>b DEF MarkIntegrating, MarkConflict, repo
    <2>4. /\ rows'[processor[p].wt].integ = i
          /\ \A o \in Branches \ {processor[p].wt} : rows'[o] = rows[o]
      BY <1>a, <2>2, <2>3, PlaceField
    <2>5. \A b \in Branches : rows'[b].integ = "merged" => rows[b].integ = "merged"
      BY <2>4
    <2>6. MergedWasLanded'
      BY <1>g, <2>5
    <2> QED
      BY <1>j, <2>1, <2>3, <2>6
  <1>3. ASSUME NEW p \in Processors, GitMerge(p)
        PROVE  LandedInv'
    <2>1. PICK pc \in {"commit", "abort"} : Goto(p, pc) /\ (pc = "commit" => merging = NoBranch)
      BY <1>3 DEF GitMerge
    <2>2. /\ processor'[p].wt = processor[p].wt /\ processor'[p].pc = pc
          /\ \A q \in Processors \ {p} : processor'[q] = processor[q]
          /\ processor[p].wt \in Branches
      BY <1>b, <1>d, <1>3, <2>1 DEF GitMerge
    <2>3. /\ merging' \in {merging, processor[p].wt}
          /\ merging' # merging => ~ tips[processor[p].wt] \subseteq head
          /\ UNCHANGED <<tips, rows>>
      BY <1>3 DEF GitMerge, table
    <2>4. merging' # NoBranch => tips'[merging'] # {}
      BY <2>3 DEF LandedInv
    <2>5. \A q \in Processors \ {p} : processor[q].pc = "commit" => processor[q].wt \in disturbed'
      BY <1>3 DEF GitMerge, Disturb
    <2>6. \A q \in Processors \ {p} : Undisturbed(q)'
      BY <1>k, <2>2, <2>5
    <2>7. Undisturbed(p)'
      BY <2>1, <2>2, <2>3 DEF Undisturbed
    <2> QED
      BY <1>i, <2>3, <2>4, <2>6, <2>7 DEF LandedInv
  <1>4. ASSUME NEW p \in Processors, AbortMerge(p)
        PROVE  LandedInv'
    <2>1. processor'[p].pc = "conflict" /\ \A q \in Processors \ {p} : processor'[q] = processor[q]
      BY <1>d, <1>4 DEF AbortMerge
    <2>2. merging' = NoBranch /\ UNCHANGED <<tips, rows>>
      BY <1>4 DEF AbortMerge, table
    <2> QED
      BY <1>i, <1>j, <2>1, <2>2
  <1>6. ASSUME NEW p \in Processors, Commit(p)
        PROVE  LandedInv'
    <2>1. /\ processor[p].pc = "commit" /\ processor[p].wt \in Branches
          /\ UNCHANGED <<tips, rows, disturbed>>
      BY <1>6, <1>b DEF Commit, CommitMerge, table, hist
    <2>2. CASE Concludes
      <3>1. /\ merging \in Branches /\ tips[merging] # {} /\ merging' = NoBranch
            /\ head' = head \union tips[merging]
            /\ landed' = [landed EXCEPT ![merging] = tips[merging]]
            /\ Goto(p, "merged")
        BY <1>6, <1>a, <2>2 DEF Commit, CommitMerge, Concludes, Land, LandedInv
      <3>2. landed'[merging] = tips[merging]
        BY <1>a, <3>1
      <3>4. /\ processor'[p].pc = "merged" /\ processor'[p].wt = processor[p].wt
            /\ \A q \in Processors \ {p} : processor'[q] = processor[q]
        BY <1>d, <3>1
      <3>5. processor[p].wt \notin disturbed => Landed(processor[p].wt)'
        <4>1. landed'[merging] # {} /\ landed'[merging] \subseteq head'
          BY <3>1, <3>2
        <4>2. PICK m : m = merging
          OBVIOUS
        <4>3. landed'[m] # {} /\ landed'[m] \subseteq head'
          BY <4>1, <4>2
        <4>4. processor[p].wt \notin disturbed => processor[p].wt = m
          BY <2>1, <3>1, <1>a, <4>2 DEF LandedInv, Undisturbed
        <4>5. processor[p].wt \notin disturbed => Landed(processor[p].wt)'
          BY <3>4, <4>3, <4>4 DEF Landed
        <4> QED
          BY <4>5
      <3>6. Undisturbed(p)'
        BY <2>1, <3>4, <3>5 DEF Undisturbed
      <3>7. \A q \in Processors \ {p} : Undisturbed(q)'
        BY <1>k, <3>1, <3>4
      <3> QED
        BY <1>i, <2>1, <3>1, <3>6, <3>7 DEF LandedInv
    <2>3. CASE ~ Concludes
      <3>1. /\ processor'[p].pc = "idle" /\ merging' = merging
            /\ \A q \in Processors \ {p} : processor'[q] = processor[q]
        BY <1>6, <1>e, <2>3 DEF Commit, CommitMerge
      <3> QED
        BY <1>i, <1>j, <2>1, <3>1
    <2> QED
      BY <2>2, <2>3
  <1>7. ASSUME NEW p \in Processors, MarkMerged(p)
        PROVE  LandedInv'
    <2>1. processor'[p].pc = "idle" /\ \A q \in Processors \ {p} : processor'[q] = processor[q]
      BY <1>e, <1>7 DEF MarkMerged
    <2>2. /\ processor[p].pc = "merged" /\ processor[p].wt \in Branches
          /\ UNCHANGED <<merging, tips>>
          /\ rows' = With(processor[p].wt, [status |-> "merged", integ |-> "merged", pos |-> 0])
      BY <1>7, <1>b DEF MarkMerged, repo
    <2>3. \A o \in Branches \ {processor[p].wt} : rows'[o] = rows[o]
      BY <1>a, <2>2, MergedField
    <2>4. \A b \in Branches : rows'[b].integ = "merged" =>
            rows[b].integ = "merged" \/ (processor[p].pc = "merged" /\ processor[p].wt = b)
      BY <2>2, <2>3
    <2>5. MergedWasLanded'
      BY <1>g, <2>4
    <2> QED
      BY <1>j, <2>1, <2>2, <2>5
  <1>8. ASSUME NEW p \in Processors, DieProcessor(p)
        PROVE  LandedInv'
    <2>1. processor'[p].pc = "idle" /\ \A q \in Processors \ {p} : processor'[q] = processor[q]
      BY <1>e, <1>8 DEF DieProcessor
    <2>2. UNCHANGED <<merging, tips, rows>>
      BY <1>8 DEF DieProcessor, repo, table
    <2> QED
      BY <1>i, <1>j, <2>1, <2>2
  <1>9. ASSUME NEW c \in Callers, Request(c)
        PROVE  LandedInv'
    <2>1. CASE \E b \in Branches : CreateGit(c, b)
      <3>1. PICK b \in Branches : CreateGit(c, b)
        BY <2>1
      <3>2. /\ tips' = [tips EXCEPT ![b] = head] /\ tips[b] = {}
            /\ UNCHANGED <<merging, landed, reset, head, rows, processor>>
        BY <3>1 DEF CreateGit, table
      <3>3. merging # NoBranch => tips'[merging] # {}
        BY <1>a, <3>2 DEF LandedInv
      <3> QED
        BY <1>i, <1>k, <3>2, <3>3 DEF LandedInv
    <2>2. CASE Register(c)
      <3>1. \A b \in Branches : rows'[b].integ = "merged" => rows[b].integ = "merged"
        BY <1>a, <2>2, RegisteredField
      <3> QED
        BY <1>h, <2>2, <3>1 DEF Register, repo
    <2>3. CASE WriteEnqueue(c)
      <3>1. caller[c].wt \in Branches
        BY <2>3 DEF WriteEnqueue, TypeInv, BusyOK
      <3>2. rows' = With(caller[c].wt, [integ |-> "queued", pos |-> caller[c].pos])
        BY <2>3 DEF WriteEnqueue
      <3>3. /\ rows'[caller[c].wt].integ = "queued"
            /\ \A o \in Branches \ {caller[c].wt} : rows'[o] = rows[o]
        BY <1>a, <3>1, <3>2, PlaceField
      <3>4. \A b \in Branches : rows'[b].integ = "merged" => rows[b].integ = "merged"
        BY <3>3
      <3>5. UNCHANGED <<merging, tips, processor>>
        BY <2>3 DEF WriteEnqueue, repo
      <3> QED
        BY <1>h, <3>4, <3>5
    <2>4. CASE WriteRelease(c)
      <3>1. caller[c].wt \in Branches
        BY <2>4 DEF WriteRelease, TypeInv, BusyOK
      <3>2. rows' = With(caller[c].wt, [status |-> "abandoned"])
        BY <2>4 DEF WriteRelease
      <3>3. \A b \in Branches : rows'[b].integ = rows[b].integ
        BY <1>a, <3>1, <3>2, StatusField
      <3>4. UNCHANGED <<merging, tips, processor>>
        BY <2>4 DEF WriteRelease, repo
      <3> QED
        BY <1>h, <3>3, <3>4
    <2>5. CASE DieCaller(c) \/ \E b \in Branches : ReadEnqueue(c, b) \/ ReleaseGit(c, b)
      BY <1>h, <2>5 DEF DieCaller, ReadEnqueue, ReleaseGit, repo, table
    <2> QED
      BY <1>9, <2>1, <2>2, <2>3, <2>4, <2>5 DEF Request
  <1>10. ASSUME NEW a \in Attempts, Try(a)
         PROVE  LandedInv'
    <2>1. merging' \in {merging, NoBranch} /\ UNCHANGED <<tips, processor, rows>>
      BY <1>10 DEF Try, ReadSnapshot, WriteSnapshot, SkipSnapshot, Work, BeginRollback, ReadHead,
         CreateBranch, ResetHard, WriteRollback, Redeliver, GiveUp, repo, table
    <2> QED
      BY <1>h, <2>1
  <1>11. ASSUME NEW b \in Branches, Develop(b)
         PROVE  LandedInv'
    <2>1. /\ tips' = [tips EXCEPT ![b] = @ \union {b}]
          /\ UNCHANGED <<merging, landed, reset, head, rows, processor>>
      BY <1>11 DEF Develop, table
    <2>2. merging # NoBranch => tips'[merging] # {}
      BY <1>a, <2>1 DEF LandedInv
    <2> QED
      BY <1>i, <1>k, <2>1, <2>2 DEF LandedInv
  <1>12. CASE UNCHANGED vars
    BY <1>h, <1>12 DEF vars, repo, table
  <1> QED
    BY <1>1, <1>2, <1>3, <1>4, <1>6, <1>7, <1>8, <1>9, <1>10, <1>11, <1>12 DEF Next,
       Process

\* A row says merged only if a merge commit of its branch was made, and what
\* the commit brought in leaves the canonical branch through a reset only,
\* unless another request ran git between the merge and its commit.
THEOREM MergedIsLanded == Spec => []MergedWasLanded
  <1>1. TypeInv /\ LandedInv /\ [Next]_vars => LandedInv'
    BY LandedStep
  <1>2. LandedInv => MergedWasLanded
    BY DEF LandedInv
  <1> QED
    BY <1>1, <1>2, LandedInit, Typed, PTL DEF Spec

-----------------------------------------------------------------------------
(* First come, first served, unless a late enqueue put a branch back into  *)
(* the queue while a request held it as picked.                            *)

\* A branch is created once: whoever is about to enter its row is alone, and
\* finds no row.
CreatedOnce ==
  /\ \A b \in Branches :
       /\ rows[b].status # "none" => tips[b] # {}
       /\ rows[b].status = "none" => rows[b].integ = "none"
  /\ \A c \in Callers :
       /\ caller[c].pc = "register" => tips[caller[c].wt] # {} /\ rows[caller[c].wt].status = "none"
       /\ caller[c].pc \in {"enqueue", "release"} => rows[caller[c].wt].status # "none"
  /\ \A c, d \in Callers :
       caller[c].pc = "register" /\ caller[d].pc = "register" /\ caller[c].wt = caller[d].wt => c = d
  /\ \A p \in Processors : processor[p].pc # "idle" => rows[processor[p].wt].status # "none"

\* No history a branch or a rollback starts from is empty.
HistoryBegins ==
  /\ head # {}
  /\ \A a \in Attempts :
       /\ attempt[a].phase = "anchor" => attempt[a].cur # {}
       /\ attempt[a].phase \in {"rollback", "keep", "reset", "event"} => attempt[a].to # {}

\* Every step leaves a history to start from.
LEMMA HistoryStep ==
  ASSUME TypeInv, HistoryBegins, [Next]_vars
  PROVE  HistoryBegins'
  <1>a. attempt \in [Attempts -> Trying]
    BY DEF TypeInv, TypeOK, ActorsOK
  <1>b. ASSUME UNCHANGED <<head, attempt>>
        PROVE  HistoryBegins'
    BY <1>b DEF HistoryBegins
  <1>c. ASSUME head \subseteq head', UNCHANGED attempt
        PROVE  HistoryBegins'
    BY <1>c DEF HistoryBegins
  <1>1. ASSUME NEW c \in Callers, Request(c)
        PROVE  HistoryBegins'
    BY <1>b, <1>1 DEF Request, CreateGit, ReadEnqueue, ReleaseGit, Register, WriteEnqueue,
       WriteRelease, DieCaller, repo
  <1>2. ASSUME NEW p \in Processors, Process(p)
        PROVE  HistoryBegins'
    <2>1. head \subseteq head' /\ UNCHANGED attempt
      BY <1>2 DEF Process, Pick, MarkIntegrating, GitMerge, AbortMerge, MarkConflict,
         Commit, CommitMerge, Land, MarkMerged, DieProcessor, repo
    <2> QED
      BY <1>c, <2>1
  <1>3. ASSUME NEW a \in Attempts, Try(a)
        PROVE  HistoryBegins'
    <2>a. DOMAIN attempt[a] = {"phase", "to", "cur"}
      BY <1>a DEF Trying
    <2>b. ASSUME NEW phase, Phase(a, phase), head' # {},
                 phase = "anchor" => attempt[a].cur # {},
                 phase \in {"rollback", "keep", "reset", "event"} => attempt[a].to # {}
          PROVE  HistoryBegins'
      <3>1. /\ attempt'[a].phase = phase
            /\ attempt'[a].to = attempt[a].to /\ attempt'[a].cur = attempt[a].cur
            /\ \A o \in Attempts \ {a} : attempt'[o] = attempt[o]
        BY <1>a, <2>a, <2>b DEF Phase
      <3> QED
        BY <2>b, <3>1 DEF HistoryBegins
    <2>1. CASE ReadSnapshot(a)
      BY <1>a, <2>1 DEF ReadSnapshot, HistoryBegins, repo
    <2>2. CASE WriteSnapshot(a)
      BY <1>a, <2>2 DEF WriteSnapshot, HistoryBegins, repo
    <2>3. CASE SkipSnapshot(a)
      BY <2>b, <2>3 DEF SkipSnapshot, HistoryBegins, repo
    <2>4. CASE Work(a)
      <3>1. head' # {} /\ Phase(a, "worked")
        BY <2>4 DEF Work
      <3> QED
        BY <2>b, <3>1
    <2>5. CASE BeginRollback(a)
      BY <2>b, <2>5 DEF BeginRollback, HistoryBegins, repo
    <2>6. CASE ReadHead(a)
      <3>1. /\ attempt'[a].phase \in {"done", "keep"} /\ attempt'[a].to = attempt[a].to
            /\ \A o \in Attempts \ {a} : attempt'[o] = attempt[o]
        BY <1>a, <2>a, <2>6 DEF ReadHead
      <3>2. attempt[a].to # {} /\ UNCHANGED head
        BY <2>6 DEF ReadHead, HistoryBegins, repo
      <3> QED
        BY <3>1, <3>2 DEF HistoryBegins
    <2>7. CASE CreateBranch(a)
      BY <2>b, <2>7 DEF CreateBranch, HistoryBegins
    <2>8. CASE ResetHard(a)
      <3>1. attempt[a].to # {} /\ head' = attempt[a].to /\ Phase(a, "event")
        BY <2>8 DEF ResetHard, HistoryBegins
      <3> QED
        BY <2>b, <3>1
    <2>9. CASE WriteRollback(a)
      BY <2>b, <2>9 DEF WriteRollback, HistoryBegins, repo
    <2>10. CASE Redeliver(a)
      BY <2>b, <2>10 DEF Redeliver, HistoryBegins, repo
    <2>11. CASE GiveUp(a)
      BY <2>b, <2>11 DEF GiveUp, HistoryBegins, repo
    <2> QED
      BY <1>3, <2>1, <2>2, <2>3, <2>4, <2>5, <2>6, <2>7, <2>8, <2>9, <2>10, <2>11 DEF Try
  <1>4. CASE UNCHANGED vars \/ \E b \in Branches : Develop(b)
    BY <1>b, <1>4 DEF vars, repo, Develop
  <1> QED
    BY <1>1, <1>2, <1>3, <1>4 DEF Next

\* What a step that enters no row may do to the rows.
RowsStay ==
  \A b \in Branches :
    /\ (rows'[b].status = "none") <=> (rows[b].status = "none")
    /\ rows[b].status = "none" => rows'[b] = rows[b]

\* No request but the one that enters a row makes or unmakes one,
LEMMA RequestsKeepRows ==
  ASSUME TypeInv, CreatedOnce, NEW c \in Callers, WriteEnqueue(c) \/ WriteRelease(c) \/ DieCaller(c)
  PROVE  RowsStay
  <1>a. TableOK
    BY DEF TypeInv, TypeOK
  <1>1. CASE WriteEnqueue(c)
    <2>1. /\ caller[c].wt \in Branches /\ rows[caller[c].wt].status # "none"
          /\ rows' = With(caller[c].wt, [integ |-> "queued", pos |-> caller[c].pos])
      BY <1>1 DEF WriteEnqueue, CreatedOnce, TypeInv, BusyOK
    <2>2. /\ rows'[caller[c].wt].status = rows[caller[c].wt].status
          /\ \A o \in Branches \ {caller[c].wt} : rows'[o] = rows[o]
      BY <1>a, <2>1, PlaceField
    <2> QED
      BY <2>1, <2>2 DEF RowsStay
  <1>2. CASE WriteRelease(c)
    <2>1. /\ caller[c].wt \in Branches /\ rows[caller[c].wt].status # "none"
          /\ rows' = With(caller[c].wt, [status |-> "abandoned"])
      BY <1>2 DEF WriteRelease, CreatedOnce, TypeInv, BusyOK
    <2>2. /\ rows'[caller[c].wt].status = "abandoned"
          /\ \A o \in Branches \ {caller[c].wt} : rows'[o] = rows[o]
      BY <1>a, <2>1, StatusField
    <2> QED
      BY <2>1, <2>2 DEF RowsStay
  <1>3. CASE DieCaller(c)
    BY <1>3 DEF DieCaller, table, RowsStay
  <1> QED
    BY <1>1, <1>2, <1>3

\* nor does the processing of the queue.
LEMMA ProcessKeepsRows ==
  ASSUME TypeInv, CreatedOnce, NEW p \in Processors, Process(p)
  PROVE  RowsStay
  <1>a. TableOK
    BY DEF TypeInv, TypeOK
  <1>b. processor[p].pc # "idle" =>
          processor[p].wt \in Branches /\ rows[processor[p].wt].status # "none"
    BY DEF TypeInv, BusyOK, CreatedOnce
  <1>c. ASSUME NEW b \in Branches, rows[b].status # "none", NEW i,
               rows' = With(b, [integ |-> i, pos |-> 0])
        PROVE  RowsStay
    <2>1. rows'[b].status = rows[b].status /\ \A o \in Branches \ {b} : rows'[o] = rows[o]
      BY <1>a, <1>c, PlaceField
    <2> QED
      BY <1>c, <2>1 DEF RowsStay
  <1>1. CASE MarkIntegrating(p)
    BY <1>1, <1>b, <1>c DEF MarkIntegrating
  <1>2. CASE MarkConflict(p)
    BY <1>2, <1>b, <1>c DEF MarkConflict
  <1>3. CASE MarkMerged(p)
    <2>1. /\ processor[p].wt \in Branches /\ rows[processor[p].wt].status # "none"
          /\ rows' = With(processor[p].wt, [status |-> "merged", integ |-> "merged", pos |-> 0])
      BY <1>b, <1>3 DEF MarkMerged
    <2>2. /\ rows'[processor[p].wt].status = "merged"
          /\ \A o \in Branches \ {processor[p].wt} : rows'[o] = rows[o]
      BY <1>a, <2>1, MergedField
    <2> QED
      BY <2>1, <2>2 DEF RowsStay
  <1>4. CASE UNCHANGED rows
    BY <1>4 DEF RowsStay
  <1> QED
    BY <1>1, <1>2, <1>3, <1>4 DEF Process, Pick, GitMerge, AbortMerge, Commit, CommitMerge,
       DieProcessor, table

\* Every step keeps the branches created once.
LEMMA CreatedStep ==
  ASSUME TypeInv, HistoryBegins, CreatedOnce, [Next]_vars
  PROVE  CreatedOnce'
  <1>a. /\ TableOK /\ tips \in [Branches -> Histories] /\ caller \in [Callers -> Call]
        /\ processor \in [Processors -> Integrating]
    BY DEF TypeInv, TypeOK, RepoOK, ActorsOK
  <1>b. /\ \A c \in Callers : caller[c].pc # "idle" => caller[c].wt \in Branches
        /\ \A p \in Processors : processor[p].pc # "idle" => processor[p].wt \in Branches
    BY DEF TypeInv, BusyOK
  <1>c. \A b \in Branches : tips[b] # {} => tips'[b] # {}
    <2>1. CASE \E c \in Callers, b \in Branches : CreateGit(c, b)
      <3>1. PICK c \in Callers, b \in Branches : CreateGit(c, b)
        BY <2>1
      <3> QED
        BY <1>a, <3>1 DEF CreateGit
    <2>2. CASE \E b \in Branches : Develop(b)
      <3>1. PICK b \in Branches : Develop(b)
        BY <2>2
      <3> QED
        BY <1>a, <3>1 DEF Develop
    <2>3. CASE ~ (\E c \in Callers, b \in Branches : CreateGit(c, b)) /\ ~ \E b \in Branches : Develop(b)
      <3>1. ASSUME NEW c \in Callers, Request(c)
            PROVE  UNCHANGED tips
        BY <2>3, <3>1 DEF Request, ReadEnqueue, ReleaseGit, Register, WriteEnqueue, WriteRelease,
           DieCaller, repo
      <3>2. ASSUME NEW p \in Processors, Process(p)
            PROVE  UNCHANGED tips
        BY <3>2 DEF Process, Pick, MarkIntegrating, GitMerge, AbortMerge, MarkConflict, Commit,
           CommitMerge, MarkMerged, DieProcessor, repo
      <3>3. ASSUME NEW a \in Attempts, Try(a)
            PROVE  UNCHANGED tips
        BY <3>3 DEF Try, ReadSnapshot, WriteSnapshot, SkipSnapshot, Work, BeginRollback, ReadHead,
           CreateBranch, ResetHard, WriteRollback, Redeliver, GiveUp, repo
      <3>4. ASSUME UNCHANGED vars
            PROVE  UNCHANGED tips
        BY <3>4 DEF vars, repo
      <3>5. UNCHANGED tips
        BY <2>3, <3>1, <3>2, <3>3, <3>4 DEF Next
      <3> QED
        BY <3>5
    <2> QED
      BY <2>1, <2>2, <2>3
  \* whatever else goes on, a step that enters no row and begins no request
  <1>d. ASSUME RowsStay,
               \A c \in Callers : caller'[c].pc = "idle" \/
                 (caller'[c].pc = caller[c].pc /\ caller'[c].wt = caller[c].wt),
               \A p \in Processors : processor'[p].pc = "idle" \/
                 (processor[p].pc # "idle" /\ processor'[p].wt = processor[p].wt)
        PROVE  CreatedOnce'
    <2>1. \A b \in Branches :
            /\ rows'[b].status # "none" => tips'[b] # {}
            /\ rows'[b].status = "none" => rows'[b].integ = "none"
      BY <1>c, <1>d DEF CreatedOnce, RowsStay
    <2>2. \A c \in Callers :
            /\ caller'[c].pc = "register" => tips'[caller'[c].wt] # {} /\ rows'[caller'[c].wt].status = "none"
            /\ caller'[c].pc \in {"enqueue", "release"} => rows'[caller'[c].wt].status # "none"
      BY <1>b, <1>c, <1>d DEF CreatedOnce, RowsStay
    <2>3. \A c, d \in Callers :
            caller'[c].pc = "register" /\ caller'[d].pc = "register" /\ caller'[c].wt = caller'[d].wt => c = d
      BY <1>d DEF CreatedOnce
    <2>4. \A p \in Processors : processor'[p].pc # "idle" => rows'[processor'[p].wt].status # "none"
      BY <1>b, <1>d DEF CreatedOnce, RowsStay
    <2> QED
      BY <2>1, <2>2, <2>3, <2>4 DEF CreatedOnce
  <1>e. ASSUME NEW b, NEW c, Forget(b, c)
        PROVE  \A d \in Callers : caller'[d].pc = "idle" \/
                 (caller'[d].pc = caller[d].pc /\ caller'[d].wt = caller[d].wt)
    BY <1>a, <1>e DEF Forget, NoCall, Call
  <1>f. ASSUME NEW c \in Callers, caller' = [caller EXCEPT ![c] = NoCall]
        PROVE  \A d \in Callers : caller'[d].pc = "idle" \/
                 (caller'[d].pc = caller[d].pc /\ caller'[d].wt = caller[d].wt)
    BY <1>a, <1>f DEF NoCall
  <1>g. ASSUME NEW p \in Processors,
               Answer(p) \/ (processor[p].pc # "idle" /\ \E pc : Goto(p, pc))
        PROVE  \A q \in Processors : processor'[q].pc = "idle" \/
                 (processor[q].pc # "idle" /\ processor'[q].wt = processor[q].wt)
    <2>1. CASE Answer(p)
      BY <1>a, <2>1 DEF Answer, NoStep
    <2>2. ASSUME NEW pc, Goto(p, pc)
          PROVE  \A q \in Processors \ {p} : processor'[q] = processor[q]
      BY <1>a, <2>2 DEF Goto
    <2>3. ASSUME NEW pc, Goto(p, pc)
          PROVE  processor'[p].wt = processor[p].wt
      BY <1>a, <2>3 DEF Goto, Integrating
    <2> QED
      BY <1>g, <2>1, <2>2, <2>3
  <1>1. ASSUME NEW p \in Processors, Process(p)
        PROVE  CreatedOnce'
    <2>1. \A d \in Callers : caller'[d].pc = "idle" \/
            (caller'[d].pc = caller[d].pc /\ caller'[d].wt = caller[d].wt)
      BY <1>1, <1>e DEF Process, Pick, MarkIntegrating, GitMerge, AbortMerge, MarkConflict, Commit,
         CommitMerge, MarkMerged, DieProcessor
    <2>2. CASE Pick(p)
      <3>1. PICK b \in NextQueued : processor' = [processor EXCEPT ![p] = [pc |-> "mark", wt |-> b]]
        BY <2>2 DEF Pick
      <3>2. /\ b \in Branches /\ rows[b].status # "none"
            /\ UNCHANGED <<rows, tips, caller>>
        BY <2>2 DEF Pick, NextQueued, Queued, CreatedOnce, repo, table
      <3>3. \A q \in Processors : processor'[q].wt = b \/ processor'[q] = processor[q]
        BY <1>a, <3>1
      <3> QED
        BY <3>2, <3>3 DEF CreatedOnce
    <2>3. CASE ~ Pick(p)
      <3>1. Answer(p) \/ (processor[p].pc # "idle" /\ \E pc : Goto(p, pc))
        BY <1>1, <2>3 DEF Process, MarkIntegrating, GitMerge, AbortMerge, MarkConflict,
           Commit, CommitMerge, MarkMerged, DieProcessor
      <3>2. \A q \in Processors : processor'[q].pc = "idle" \/
              (processor[q].pc # "idle" /\ processor'[q].wt = processor[q].wt)
        BY <1>g, <3>1
      <3> QED
        BY <1>1, <1>d, <2>1, <3>2, ProcessKeepsRows
    <2> QED
      BY <2>2, <2>3
  <1>2. ASSUME NEW c \in Callers, Request(c)
        PROVE  CreatedOnce'
    <2>1. UNCHANGED processor
      BY <1>2 DEF Request, CreateGit, ReadEnqueue, ReleaseGit, Register, WriteEnqueue, WriteRelease,
         DieCaller
    <2>2. CASE \E b \in Branches : CreateGit(c, b)
      <3>1. PICK b \in Branches : CreateGit(c, b)
        BY <2>2
      <3>2. /\ rows[b].status # "active" /\ tips[b] = {} /\ UNCHANGED rows
            /\ tips' = [tips EXCEPT ![b] = head] /\ head # {}
            /\ caller' = [caller EXCEPT ![c] = [NoCall EXCEPT !.pc = "register", !.wt = b]]
        BY <3>1 DEF CreateGit, HistoryBegins, table
      <3>3. rows[b].status = "none" /\ tips'[b] # {}
        BY <1>a, <3>2 DEF CreatedOnce
      <3>4. /\ caller'[c].pc = "register" /\ caller'[c].wt = b
            /\ \A d \in Callers \ {c} : caller'[d] = caller[d]
        BY <1>a, <3>2 DEF NoCall
      <3>5. \A d \in Callers : caller[d].pc = "register" => caller[d].wt # b
        BY <3>2 DEF CreatedOnce
      <3>6. \A o \in Branches :
              /\ rows'[o].status # "none" => tips'[o] # {}
              /\ rows'[o].status = "none" => rows'[o].integ = "none"
        BY <1>c, <3>2 DEF CreatedOnce
      <3>7. \A d \in Callers :
              /\ caller'[d].pc = "register" =>
                   tips'[caller'[d].wt] # {} /\ rows'[caller'[d].wt].status = "none"
              /\ caller'[d].pc \in {"enqueue", "release"} => rows'[caller'[d].wt].status # "none"
        BY <1>b, <1>c, <3>2, <3>3, <3>4 DEF CreatedOnce
      <3>8. \A d, e \in Callers :
              caller'[d].pc = "register" /\ caller'[e].pc = "register" /\ caller'[d].wt = caller'[e].wt => d = e
        BY <3>4, <3>5 DEF CreatedOnce
      <3>9. \A p \in Processors : processor'[p].pc # "idle" => rows'[processor'[p].wt].status # "none"
        BY <2>1, <3>2 DEF CreatedOnce
      <3> QED
        BY <3>6, <3>7, <3>8, <3>9 DEF CreatedOnce
    <2>3. CASE \E b \in Branches : ReadEnqueue(c, b) \/ ReleaseGit(c, b)
      <3>1. PICK b \in Branches : ReadEnqueue(c, b) \/ ReleaseGit(c, b)
        BY <2>3
      <3>2. rows[b].status = "active" /\ UNCHANGED <<rows, tips>>
        BY <3>1 DEF ReadEnqueue, ReleaseGit, repo, table
      <3>3. /\ caller'[c].pc \in {"enqueue", "release"} /\ caller'[c].wt = b
            /\ \A d \in Callers \ {c} : caller'[d] = caller[d]
        <4>1. CASE ReadEnqueue(c, b)
          BY <1>a, <4>1 DEF ReadEnqueue
        <4>2. CASE ReleaseGit(c, b)
          BY <1>a, <4>2 DEF ReleaseGit, NoCall
        <4> QED
          BY <3>1, <4>1, <4>2
      <3> QED
        BY <2>1, <3>2, <3>3 DEF CreatedOnce
    <2>4. CASE Register(c)
      <3> DEFINE b == caller[c].wt
      <3>1. /\ b \in Branches /\ caller[c].pc = "register" /\ tips[b] # {} /\ rows[b].status = "none"
            /\ UNCHANGED tips
        BY <1>b, <2>4 DEF Register, CreatedOnce, repo
      <3>2. /\ \A o \in Branches \ {b} : rows'[o] = rows[o]
            /\ rows'[b] = rows[b] \/ rows'[b] = [NoRow EXCEPT !.status = "active"]
        BY <1>a, <2>4, <3>1 DEF Register, TableOK
      <3>3. caller'[c].pc = "idle" /\ \A d \in Callers \ {c} : caller'[d] = caller[d]
        BY <1>a, <2>4 DEF Register, NoCall
      <3>4. \A d \in Callers \ {c} : caller[d].pc = "register" => caller[d].wt # b
        BY <3>1 DEF CreatedOnce
      <3>5. \A o \in Branches : rows[o].status # "none" => rows'[o] = rows[o]
        BY <3>1, <3>2
      <3> HIDE DEF b
      <3>6. \A o \in Branches :
              /\ rows'[o].status # "none" => tips'[o] # {}
              /\ rows'[o].status = "none" => rows'[o].integ = "none"
        BY <3>1, <3>2 DEF CreatedOnce, NoRow
      <3>7. \A d \in Callers :
              /\ caller'[d].pc = "register" =>
                   tips'[caller'[d].wt] # {} /\ rows'[caller'[d].wt].status = "none"
              /\ caller'[d].pc \in {"enqueue", "release"} => rows'[caller'[d].wt].status # "none"
        BY <1>b, <3>1, <3>2, <3>3, <3>4, <3>5 DEF CreatedOnce
      <3>8. \A d, e \in Callers :
              caller'[d].pc = "register" /\ caller'[e].pc = "register" /\ caller'[d].wt = caller'[e].wt => d = e
        BY <3>3 DEF CreatedOnce
      <3>9. \A p \in Processors : processor'[p].pc # "idle" => rows'[processor'[p].wt].status # "none"
        BY <1>b, <2>1, <3>5 DEF CreatedOnce
      <3> QED
        BY <3>6, <3>7, <3>8, <3>9 DEF CreatedOnce
    <2>5. CASE WriteEnqueue(c) \/ WriteRelease(c) \/ DieCaller(c)
      <3>1. \A d \in Callers : caller'[d].pc = "idle" \/
              (caller'[d].pc = caller[d].pc /\ caller'[d].wt = caller[d].wt)
        BY <2>5, <1>e, <1>f DEF WriteEnqueue, WriteRelease, DieCaller
      <3>2. RowsStay
        BY <2>5, RequestsKeepRows
      <3> QED
        BY <1>d, <2>1, <3>1, <3>2
    <2> QED
      BY <1>2, <2>2, <2>3, <2>4, <2>5 DEF Request
  <1>3. ASSUME NEW a \in Attempts, Try(a)
        PROVE  CreatedOnce'
    BY <1>c, <1>3 DEF CreatedOnce, Try, ReadSnapshot, WriteSnapshot, SkipSnapshot, Work, BeginRollback,
       ReadHead, CreateBranch, ResetHard, WriteRollback, Redeliver, GiveUp, repo, table
  <1>4. CASE UNCHANGED vars \/ \E b \in Branches : Develop(b)
    <2>1. UNCHANGED <<rows, caller, processor>>
      BY <1>4 DEF vars, table, Develop
    <2> QED
      BY <1>b, <1>c, <2>1 DEF CreatedOnce
  <1> QED
    BY <1>1, <1>2, <1>3, <1>4 DEF Next

\* Whoever waits behind another waits with a higher position, and whoever is
\* about to join the queue was told one.
InLine ==
  /\ \A b \in Branches : behind[b] \subseteq Queued
  /\ \A b \in Queued : \A o \in behind[b] : rows[o].pos < rows[b].pos
  /\ \A c \in Callers :
       /\ caller[c].ahead \subseteq Queued
       /\ caller[c].pc = "enqueue" => \A o \in caller[c].ahead : rows[o].pos < caller[c].pos

\* A row that has been picked and still waits does so behind nobody.
FirstInLine == \A b \in Queued \ requeued : Picked(b) => behind[b] = {}

LineInv == CreatedOnce /\ HistoryBegins /\ InLine /\ FirstInLine

\* One row may change freely once it is forgotten.
LEMMA ForgottenLine ==
  ASSUME TypeInv, InLine, NEW b \in Branches, NEW c, Forget(b, c),
         \A o \in Branches \ {b} : rows'[o] = rows[o]
  PROVE  /\ InLine'
         /\ \A o \in Branches : behind'[o] \subseteq behind[o]
  <1>1. /\ behind'[b] = {}
        /\ \A o \in Branches \ {b} : behind'[o] = behind[o] \ {b}
    BY DEF Forget
  <1>2. \A d \in Callers :
          \/ caller'[d] = NoCall
          \/ /\ caller'[d].pc = caller[d].pc /\ caller'[d].pos = caller[d].pos
             /\ caller'[d].ahead = caller[d].ahead \ {b}
    <2>1. \A d \in Callers : caller[d] \in Call
      BY DEF TypeInv, TypeOK, ActorsOK
    <2>2. \A d \in Callers : caller'[d] = NoCall \/ caller'[d] = [caller[d] EXCEPT !.ahead = @ \ {b}]
      BY DEF Forget
    <2> QED
      BY <2>1, <2>2 DEF Call
  <1>3. Queued \ {b} \subseteq Queued' /\ Queued' \ {b} \subseteq Queued
    BY DEF Queued
  <1>4. \A o \in Branches : behind'[o] \subseteq Queued'
    BY <1>1, <1>3 DEF InLine
  <1>5. \A x \in Queued' : \A o \in behind'[x] : rows'[o].pos < rows'[x].pos
    <2>1. \A x \in Queued' : x \in Branches
      BY DEF Queued
    <2>2. ASSUME NEW x \in Queued', NEW o \in behind'[x]
          PROVE  rows'[o].pos < rows'[x].pos
      <3>1. x # b /\ x \in Queued /\ o \in behind[x] /\ o # b
        BY <1>1, <1>3, <2>1, <2>2
      <3>2. o \in Branches /\ x \in Branches
        BY <3>1, <2>1 DEF InLine, Queued
      <3> QED
        BY <3>1, <3>2 DEF InLine
    <2> QED
      BY <2>2
  <1>6. ASSUME NEW d \in Callers
        PROVE  /\ caller'[d].ahead \subseteq Queued'
               /\ caller'[d].pc = "enqueue" => \A o \in caller'[d].ahead : rows'[o].pos < caller'[d].pos
    <2>1. CASE caller'[d] = NoCall
      BY <2>1 DEF NoCall
    <2>2. CASE caller'[d] # NoCall
      <3>1. /\ caller'[d].pc = caller[d].pc /\ caller'[d].pos = caller[d].pos
            /\ caller'[d].ahead = caller[d].ahead \ {b}
        BY <1>2, <2>2
      <3>2. \A o \in caller'[d].ahead : o \in Branches /\ o # b /\ o \in caller[d].ahead
        BY <3>1 DEF InLine, Queued
      <3> QED
        BY <1>3, <3>1, <3>2 DEF InLine
    <2> QED
      BY <2>1, <2>2
  <1> QED
    BY <1>1, <1>4, <1>5, <1>6 DEF InLine

\* What leaves the places alone leaves the line alone.
LEMMA UnmovedLine ==
  ASSUME TypeInv, InLine, UNCHANGED behind,
         \A o \in Branches : rows'[o].integ = rows[o].integ /\ rows'[o].pos = rows[o].pos,
         \A d \in Callers :
           caller'[d] = caller[d] \/ (caller'[d].ahead = {} /\ caller'[d].pc # "enqueue")
  PROVE  InLine' /\ Queued' = Queued
  <1>1. Queued' = Queued
    BY DEF Queued
  <1>2. \A o \in Branches : behind[o] \subseteq Branches
    BY DEF InLine, Queued
  <1>3. \A x \in Queued' : \A o \in behind'[x] : rows'[o].pos < rows'[x].pos
    <2>1. \A x \in Queued : x \in Branches
      BY DEF Queued
    <2> QED
      BY <1>1, <1>2, <2>1 DEF InLine
  <1>4. ASSUME NEW d \in Callers
        PROVE  /\ caller'[d].ahead \subseteq Queued'
               /\ caller'[d].pc = "enqueue" => \A o \in caller'[d].ahead : rows'[o].pos < caller'[d].pos
    <2>1. caller[d].ahead \subseteq Branches
      BY DEF InLine, Queued
    <2> QED
      BY <1>1, <2>1 DEF InLine
  <1> QED
    BY <1>1, <1>3, <1>4 DEF InLine

\* A request joins the queue behind those that waited when it asked.
LEMMA JoinedLine ==
  ASSUME TypeInv, InLine, NEW c \in Callers, WriteEnqueue(c), caller[c].wt \notin Queued
  PROVE  /\ InLine' /\ Queued \subseteq Queued'
         /\ \A o \in Queued : behind'[o] = behind[o]
  <1> DEFINE b == caller[c].wt
  <1>a. /\ TableOK /\ b \in Branches /\ caller \in [Callers -> Call]
        /\ caller[c].pc = "enqueue"
    BY DEF TypeInv, TypeOK, ActorsOK, BusyOK, WriteEnqueue
  <1>1. rows' = With(b, [integ |-> "queued", pos |-> caller[c].pos])
    BY DEF WriteEnqueue
  <1>2. /\ behind' = [behind EXCEPT ![b] = caller[c].ahead]
        /\ caller' = [caller EXCEPT ![c] = NoCall]
    BY DEF WriteEnqueue
  <1>3. b \notin Queued
    OBVIOUS
  <1> HIDE DEF b
  <1>4. /\ rows'[b].integ = "queued" /\ rows'[b].pos = caller[c].pos
        /\ \A o \in Branches \ {b} : rows'[o] = rows[o]
    BY <1>a, <1>1, PlaceField
  <1>5. Queued' = Queued \union {b}
    BY <1>a, <1>4 DEF Queued
  <1>6. /\ behind'[b] = caller[c].ahead
        /\ \A o \in Branches \ {b} : behind'[o] = behind[o]
    BY <1>a, <1>2 DEF TableOK
  <1>7. \A o \in Queued : o \in Branches /\ o # b /\ rows'[o] = rows[o]
    BY <1>3, <1>4 DEF Queued
  <1>8. caller'[c] = NoCall /\ \A d \in Callers \ {c} : caller'[d] = caller[d]
    BY <1>a, <1>2
  <1>9. \A o \in Branches : behind'[o] \subseteq Queued'
    BY <1>5, <1>6 DEF InLine
  <1>10. ASSUME NEW x \in Queued', NEW o \in behind'[x]
         PROVE  rows'[o].pos < rows'[x].pos
    <2>1. CASE x = b
      <3>1. o \in caller[c].ahead /\ o \in Queued
        BY <1>6, <2>1, <1>10 DEF InLine
      <3>2. rows[o].pos < caller[c].pos
        BY <1>a, <3>1 DEF InLine
      <3> QED
        BY <1>4, <1>7, <2>1, <3>1, <3>2
    <2>2. CASE x # b
      <3>1. x \in Queued /\ x \in Branches
        BY <1>5, <2>2 DEF Queued
      <3>2. o \in behind[x] /\ o \in Queued
        BY <1>6, <1>10, <2>2, <3>1 DEF InLine
      <3> QED
        BY <1>7, <3>1, <3>2 DEF InLine
    <2> QED
      BY <2>1, <2>2
  <1>11. ASSUME NEW d \in Callers
         PROVE  /\ caller'[d].ahead \subseteq Queued'
                /\ caller'[d].pc = "enqueue" => \A o \in caller'[d].ahead : rows'[o].pos < caller'[d].pos
    <2>1. CASE d = c
      BY <1>8, <2>1 DEF NoCall
    <2>2. CASE d # c
      <3>1. \A o \in caller[d].ahead : o \in Queued
        BY DEF InLine
      <3> QED
        BY <1>5, <1>7, <1>8, <2>2, <3>1 DEF InLine
    <2> QED
      BY <2>1, <2>2
  <1>12. InLine'
    BY <1>9, <1>10, <1>11 DEF InLine
  <1> QED
    BY <1>5, <1>6, <1>7, <1>12

\* At first nobody waits.
LEMMA LineInit == Init => LineInv
  <1> SUFFICES ASSUME Init PROVE LineInv
    OBVIOUS
  <1>1. CreatedOnce
    BY DEF Init, CreatedOnce, NoRow, NoCall, NoStep
  <1>2. HistoryBegins
    BY DEF Init, HistoryBegins, Root
  <1>3. InLine /\ FirstInLine
    BY DEF Init, InLine, FirstInLine, NoRow, NoCall, Queued
  <1> QED
    BY <1>1, <1>2, <1>3 DEF LineInv

\* Every step keeps the line.
LEMMA LineStep ==
  ASSUME TypeInv, LineInv, [Next]_vars
  PROVE  /\ LineInv'
         /\ \A b \in Branches \ requeued :
              rows[b].integ = "queued" /\ rows'[b].integ = "integrating" => behind[b] \intersect Queued = {}
  <1> DEFINE Served ==
        \A b \in Branches \ requeued :
          rows[b].integ = "queued" /\ rows'[b].integ = "integrating" => behind[b] \intersect Queued = {}
  <1>a. /\ TableOK /\ caller \in [Callers -> Call] /\ processor \in [Processors -> Integrating]
        /\ InLine /\ FirstInLine /\ CreatedOnce /\ HistoryBegins
    BY DEF TypeInv, TypeOK, ActorsOK, LineInv
  <1>b. /\ \A c \in Callers : caller[c].pc # "idle" => caller[c].wt \in Branches
        /\ \A p \in Processors : processor[p].pc # "idle" => processor[p].wt \in Branches
    BY DEF TypeInv, BusyOK
  <1>c. CreatedOnce' /\ HistoryBegins'
    BY <1>a, CreatedStep, HistoryStep
  <1> SUFFICES InLine' /\ FirstInLine' /\ Served
    BY <1>c DEF LineInv
  <1>d. ASSUME UNCHANGED behind, FirstInLine',
               \A o \in Branches : rows'[o].integ = rows[o].integ /\ rows'[o].pos = rows[o].pos,
               \A d \in Callers :
                 caller'[d] = caller[d] \/ (caller'[d].ahead = {} /\ caller'[d].pc # "enqueue")
        PROVE  InLine' /\ FirstInLine' /\ Served
    BY <1>a, <1>d, UnmovedLine
  <1>e. ASSUME UNCHANGED table, FirstInLine',
               \A d \in Callers :
                 caller'[d] = caller[d] \/ (caller'[d].ahead = {} /\ caller'[d].pc # "enqueue")
        PROVE  InLine' /\ FirstInLine' /\ Served
    BY <1>d, <1>e DEF table
  <1>f. ASSUME \A o \in Branches : Picked(o)' => Picked(o), requeued \subseteq requeued',
               \A o \in Queued' \ requeued' : Picked(o) => o \in Queued /\ behind'[o] \subseteq behind[o]
        PROVE  FirstInLine'
    <2> SUFFICES ASSUME NEW o \in Queued', o \notin requeued', Picked(o)'
                 PROVE  behind'[o] = {}
      BY DEF FirstInLine
    <2>1. o \in Branches /\ Picked(o) /\ o \notin requeued
      BY <1>f DEF Queued
    <2>2. o \in Queued /\ behind'[o] \subseteq behind[o]
      BY <1>f, <2>1
    <2> QED
      BY <1>a, <2>1, <2>2 DEF FirstInLine
  <1>j. ASSUME UNCHANGED processor
        PROVE  \A o \in Branches : Picked(o)' => Picked(o)
    BY <1>j DEF Picked
  <1>g. ASSUME NEW p \in Processors, NEW pc, Goto(p, pc), pc # "mark"
        PROVE  \A o \in Branches : Picked(o)' => Picked(o)
    <2>1. processor'[p].pc = pc /\ \A q \in Processors \ {p} : processor'[q] = processor[q]
      BY <1>a, <1>g DEF Goto, Integrating
    <2>2. ASSUME NEW o, NEW q \in Processors, processor'[q] = [pc |-> "mark", wt |-> o]
          PROVE  processor[q] = [pc |-> "mark", wt |-> o]
      <3>1. processor'[q].pc = "mark"
        BY <2>2
      <3>2. q # p
        BY <1>g, <2>1, <3>1
      <3> QED
        BY <2>1, <2>2, <3>2
    <2> QED
      BY <2>2 DEF Picked
  <1>h. ASSUME NEW p \in Processors, Answer(p)
        PROVE  \A o \in Branches : Picked(o)' => Picked(o)
    <2>1. processor'[p] = NoStep /\ \A q \in Processors \ {p} : processor'[q] = processor[q]
      BY <1>a, <1>h DEF Answer
    <2> QED
      BY <2>1 DEF Picked, NoStep
  <1>k. ASSUME \A o \in Branches : Picked(o)' => Picked(o), UNCHANGED table
        PROVE  FirstInLine'
    BY <1>f, <1>k DEF table, Queued
  <1>l. ASSUME NEW b \in Branches, rows'[b].integ # "queued", Forget(b, NoCaller),
               \A o \in Branches \ {b} : rows'[o] = rows[o], UNCHANGED requeued,
               \A o \in Branches : Picked(o)' => Picked(o)
        PROVE  InLine' /\ FirstInLine'
    <2>1. InLine' /\ \A o \in Branches : behind'[o] \subseteq behind[o]
      BY <1>a, <1>l, ForgottenLine
    <2>2. \A o \in Queued' : o \in Queued /\ o \in Branches
      BY <1>l DEF Queued
    <2>3. FirstInLine'
      BY <1>f, <1>l, <2>1, <2>2
    <2> QED
      BY <2>1, <2>3
  <1>i. ASSUME NEW b \in Branches, NEW s, s \notin {"integrating", "queued"}, Forget(b, NoCaller),
               rows'[b].integ = s, \A o \in Branches \ {b} : rows'[o] = rows[o],
               UNCHANGED requeued, \A o \in Branches : Picked(o)' => Picked(o)
        PROVE  InLine' /\ FirstInLine' /\ Served
    BY <1>i, <1>l
  <1>1. ASSUME NEW p \in Processors, Pick(p)
        PROVE  InLine' /\ FirstInLine' /\ Served
    <2>1. PICK b \in NextQueued : processor' = [processor EXCEPT ![p] = [pc |-> "mark", wt |-> b]]
      BY <1>1 DEF Pick
    <2>2. UNCHANGED <<rows, behind, requeued, caller>>
      BY <1>1 DEF Pick, table
    <2>3. b \in Queued /\ \A o \in Queued : rows[b].pos <= rows[o].pos
      BY DEF NextQueued
    <2>4. behind[b] = {}
      <3>1. ASSUME NEW o \in behind[b]
            PROVE  FALSE
        <4>1. o \in Queued /\ rows[o].pos < rows[b].pos /\ rows[b].pos <= rows[o].pos
          BY <1>a, <2>3, <3>1 DEF InLine, Queued
        <4>2. rows[o].pos \in Nat /\ rows[b].pos \in Nat
          BY <1>a, <2>3, <4>1 DEF TableOK, Row, Queued
        <4> QED
          BY <4>1, <4>2
      <3> QED
        BY <3>1
    <2>5. \A o \in Branches : Picked(o)' => o = b \/ Picked(o)
      <3>1. processor'[p].wt = b /\ \A q \in Processors \ {p} : processor'[q] = processor[q]
        BY <1>a, <2>1
      <3> QED
        BY <3>1 DEF Picked
    <2>6. FirstInLine'
      <3>1. \A o \in Queued : o \in Branches
        BY DEF Queued
      <3>2. Queued' = Queued
        BY <2>2 DEF Queued
      <3> QED
        BY <1>a, <2>2, <2>4, <2>5, <3>1, <3>2 DEF FirstInLine
    <2> QED
      BY <1>e, <2>2, <2>6 DEF table
  <1>2. ASSUME NEW p \in Processors, MarkIntegrating(p)
        PROVE  InLine' /\ FirstInLine' /\ Served
    <2>1. /\ processor[p].wt \in Branches /\ UNCHANGED requeued
          /\ rows' = With(processor[p].wt, [integ |-> "integrating", pos |-> 0])
          /\ Forget(processor[p].wt, NoCaller) /\ Goto(p, "merge")
      BY <1>2, <1>b DEF MarkIntegrating
    <2>2. /\ rows'[processor[p].wt].integ = "integrating"
          /\ \A o \in Branches \ {processor[p].wt} : rows'[o] = rows[o]
      BY <1>a, <2>1, PlaceField
    <2>3. \A o \in Branches : Picked(o)' => Picked(o)
      BY <1>g, <2>1
    <2>4. InLine' /\ FirstInLine'
      BY <1>l, <2>1, <2>2, <2>3
    <2>5. Served
      <3>1. Picked(processor[p].wt)
        <4>1. processor[p] = [pc |-> "mark", wt |-> processor[p].wt]
          BY <1>2, <1>a DEF MarkIntegrating, Integrating
        <4> QED
          BY <4>1 DEF Picked
      <3>2. processor[p].wt \in Queued \ requeued => behind[processor[p].wt] = {}
        BY <1>a, <3>1 DEF FirstInLine
      <3> QED
        BY <2>2, <3>2 DEF Queued
    <2> QED
      BY <2>4, <2>5
  <1>3. ASSUME NEW p \in Processors, GitMerge(p) \/ AbortMerge(p) \/ Commit(p)
        PROVE  InLine' /\ FirstInLine' /\ Served
    <2>1. \A o \in Branches : Picked(o)' => Picked(o)
      BY <1>3, <1>g, <1>h DEF GitMerge, AbortMerge, Commit, CommitMerge
    <2>2. UNCHANGED <<table, caller>>
      BY <1>3 DEF GitMerge, AbortMerge, Commit, CommitMerge
    <2>3. FirstInLine'
      BY <1>k, <2>1, <2>2
    <2> QED
      BY <1>e, <2>2, <2>3
  <1>4. ASSUME NEW p \in Processors, MarkConflict(p)
        PROVE  InLine' /\ FirstInLine' /\ Served
    <2>1. /\ processor[p].wt \in Branches
          /\ rows' = With(processor[p].wt, [integ |-> "conflict", pos |-> 0])
          /\ Forget(processor[p].wt, NoCaller) /\ UNCHANGED requeued
          /\ \A o \in Branches : Picked(o)' => Picked(o)
      BY <1>4, <1>b, <1>h DEF MarkConflict
    <2>2. /\ rows'[processor[p].wt].integ = "conflict"
          /\ \A o \in Branches \ {processor[p].wt} : rows'[o] = rows[o]
      BY <1>a, <2>1, PlaceField
    <2> QED
      BY <1>i, <2>1, <2>2
  <1>5. ASSUME NEW p \in Processors, MarkMerged(p)
        PROVE  InLine' /\ FirstInLine' /\ Served
    <2>1. /\ processor[p].wt \in Branches
          /\ rows' = With(processor[p].wt, [status |-> "merged", integ |-> "merged", pos |-> 0])
          /\ Forget(processor[p].wt, NoCaller) /\ UNCHANGED requeued
          /\ \A o \in Branches : Picked(o)' => Picked(o)
      BY <1>5, <1>b, <1>h DEF MarkMerged
    <2>2. /\ rows'[processor[p].wt].integ = "merged"
          /\ \A o \in Branches \ {processor[p].wt} : rows'[o] = rows[o]
      BY <1>a, <2>1, MergedField
    <2> QED
      BY <1>i, <2>1, <2>2
  <1>6. ASSUME NEW p \in Processors, DieProcessor(p)
        PROVE  InLine' /\ FirstInLine' /\ Served
    BY <1>6, <1>e, <1>h, <1>k DEF DieProcessor
  <1>7. ASSUME NEW c \in Callers, \E b \in Branches : CreateGit(c, b) \/ ReleaseGit(c, b)
        PROVE  InLine' /\ FirstInLine' /\ Served
    <2>1. PICK b \in Branches : CreateGit(c, b) \/ ReleaseGit(c, b)
      BY <1>7
    <2>2. UNCHANGED <<table, processor>>
      BY <2>1 DEF CreateGit, ReleaseGit
    <2>3. caller' = [caller EXCEPT ![c] = [NoCall EXCEPT !.pc = "register", !.wt = b]] \/
          caller' = [caller EXCEPT ![c] = [NoCall EXCEPT !.pc = "release", !.wt = b]]
      BY <2>1 DEF CreateGit, ReleaseGit
    <2>4. /\ caller'[c].ahead = {} /\ caller'[c].pc # "enqueue"
          /\ \A d \in Callers \ {c} : caller'[d] = caller[d]
      BY <1>a, <2>3 DEF NoCall
    <2>5. FirstInLine'
      BY <1>j, <1>k, <2>2
    <2> QED
      BY <1>e, <2>2, <2>4, <2>5
  <1>8. ASSUME NEW c \in Callers, NEW b \in Branches, ReadEnqueue(c, b)
        PROVE  InLine' /\ FirstInLine' /\ Served
    <2>1. UNCHANGED <<rows, behind, requeued, processor>>
      BY <1>8 DEF ReadEnqueue, table
    <2>2. /\ caller'[c].ahead = Queued /\ caller'[c].pos = Position
          /\ \A d \in Callers \ {c} : caller'[d] = caller[d]
      BY <1>a, <1>8 DEF ReadEnqueue
    <2>3. \A o \in Queued : rows[o].pos < Position
      BY <1>a, PositionIsBehind
    <2>4. Queued' = Queued
      BY <2>1 DEF Queued
    <2>5. InLine'
      <3>1. \A d \in Callers :
              /\ caller'[d].ahead \subseteq Queued'
              /\ caller'[d].pc = "enqueue" => \A o \in caller'[d].ahead : rows'[o].pos < caller'[d].pos
        BY <1>a, <2>1, <2>2, <2>3, <2>4 DEF InLine
      <3> QED
        BY <1>a, <2>1, <2>4, <3>1 DEF InLine
    <2>6. FirstInLine'
      BY <1>f, <1>j, <2>1, <2>4
    <2> QED
      BY <2>1, <2>5, <2>6
  <1>9. ASSUME NEW c \in Callers, Register(c)
        PROVE  InLine' /\ FirstInLine' /\ Served
    <2> DEFINE b == caller[c].wt
    <2>1. /\ b \in Branches /\ rows[b].integ = "none"
          /\ UNCHANGED <<behind, requeued, processor>> /\ caller' = [caller EXCEPT ![c] = NoCall]
      BY <1>9, <1>a, <1>b DEF Register, CreatedOnce
    <2>2. \A o \in Branches : rows'[o] = rows[o] \/ (o = b /\ rows'[o].integ = "none")
      BY <1>9, <1>a, <2>1 DEF Register, TableOK, NoRow
    <2> HIDE DEF b
    <2>3. Queued' = Queued /\ \A o \in Queued : rows'[o] = rows[o]
      BY <2>1, <2>2 DEF Queued
    <2>4. caller'[c] = NoCall /\ \A d \in Callers \ {c} : caller'[d] = caller[d]
      BY <1>a, <2>1
    <2>5. InLine'
      <3>1. \A d \in Callers :
              /\ caller'[d].ahead \subseteq Queued'
              /\ caller'[d].pc = "enqueue" => \A o \in caller'[d].ahead : rows'[o].pos < caller'[d].pos
        BY <1>a, <2>3, <2>4 DEF InLine, NoCall
      <3>2. \A x \in Queued' : \A o \in behind'[x] : rows'[o].pos < rows'[x].pos
        <4>1. \A x \in Queued : x \in Branches
          BY DEF Queued
        <4>2. \A x \in Queued : \A o \in behind[x] : o \in Queued
          BY <1>a, <4>1 DEF InLine
        <4> QED
          BY <1>a, <2>1, <2>3, <4>2 DEF InLine
      <3> QED
        BY <1>a, <2>1, <2>3, <3>1, <3>2 DEF InLine
    <2>6. FirstInLine'
      BY <1>f, <1>j, <2>1, <2>3
    <2>7. Served
      BY <2>1, <2>2
    <2> QED
      BY <2>5, <2>6, <2>7
  <1>10. ASSUME NEW c \in Callers, WriteEnqueue(c)
         PROVE  InLine' /\ FirstInLine' /\ Served
    <2>1. /\ caller[c].wt \in Branches /\ UNCHANGED processor
          /\ rows' = With(caller[c].wt, [integ |-> "queued", pos |-> caller[c].pos])
      BY <1>10, <1>b DEF WriteEnqueue
    <2>2. /\ rows'[caller[c].wt].integ = "queued"
          /\ \A o \in Branches \ {caller[c].wt} : rows'[o] = rows[o]
      BY <1>a, <2>1, PlaceField
    <2>3. Served
      BY <2>1, <2>2
    <2>4. CASE caller[c].wt \in Queued
      <3>1. Forget(caller[c].wt, c)
        BY <1>10, <2>4 DEF WriteEnqueue
      <3>2. InLine' /\ \A o \in Branches : behind'[o] \subseteq behind[o]
        BY <1>a, <2>1, <2>2, <3>1, ForgottenLine
      <3>3. \A o \in Queued' : o \in Queued /\ o \in Branches
        BY <2>2, <2>4 DEF Queued
      <3>4. requeued \subseteq requeued'
        BY <1>10 DEF WriteEnqueue
      <3>5. FirstInLine'
        BY <1>f, <1>j, <2>1, <3>2, <3>3, <3>4
      <3> QED
        BY <2>3, <3>2, <3>5
    <2>5. CASE caller[c].wt \notin Queued
      <3>1. InLine' /\ Queued \subseteq Queued' /\ \A o \in Queued : behind'[o] = behind[o]
        BY <1>10, <1>a, <2>5, JoinedLine
      <3>2. \A o \in Queued' : o = caller[c].wt \/ o \in Queued
        BY <2>2 DEF Queued
      <3>3. /\ requeued \subseteq requeued'
            /\ Picked(caller[c].wt) => caller[c].wt \in requeued'
        BY <1>10, <2>5 DEF WriteEnqueue
      <3>4. FirstInLine'
        BY <1>f, <1>j, <2>1, <3>1, <3>2, <3>3
      <3> QED
        BY <2>3, <3>1, <3>4
    <2> QED
      BY <2>4, <2>5
  <1>11. ASSUME NEW c \in Callers, WriteRelease(c)
         PROVE  InLine' /\ FirstInLine' /\ Served
    <2>1. /\ caller[c].wt \in Branches /\ UNCHANGED <<behind, requeued, processor>>
          /\ rows' = With(caller[c].wt, [status |-> "abandoned"])
          /\ caller' = [caller EXCEPT ![c] = NoCall]
      BY <1>11, <1>b DEF WriteRelease
    <2>2. \A o \in Branches : rows'[o].integ = rows[o].integ /\ rows'[o].pos = rows[o].pos
      BY <1>a, <2>1, StatusField
    <2>3. FirstInLine'
      BY <1>f, <1>j, <2>1, <2>2 DEF Queued
    <2>4. \A d \in Callers :
            caller'[d] = caller[d] \/ (caller'[d].ahead = {} /\ caller'[d].pc # "enqueue")
      BY <1>a, <2>1 DEF NoCall
    <2> QED
      BY <1>d, <2>1, <2>2, <2>3, <2>4
  <1>12. ASSUME NEW c \in Callers, DieCaller(c)
         PROVE  InLine' /\ FirstInLine' /\ Served
    <2>1. UNCHANGED <<table, processor>> /\ caller' = [caller EXCEPT ![c] = NoCall]
      BY <1>12 DEF DieCaller
    <2>2. FirstInLine'
      BY <1>j, <1>k, <2>1
    <2>3. \A d \in Callers :
            caller'[d] = caller[d] \/ (caller'[d].ahead = {} /\ caller'[d].pc # "enqueue")
      BY <1>a, <2>1 DEF NoCall
    <2> QED
      BY <1>e, <2>1, <2>2, <2>3
  <1>13. CASE UNCHANGED <<table, caller, processor>>
    <2>1. FirstInLine'
      BY <1>j, <1>k, <1>13
    <2> QED
      BY <1>e, <1>13, <2>1
  <1>14. ASSUME NEW a \in Attempts, Try(a)
         PROVE  UNCHANGED <<table, caller, processor>>
    BY <1>14 DEF Try, ReadSnapshot, WriteSnapshot, SkipSnapshot, Work, BeginRollback, ReadHead,
       CreateBranch, ResetHard, WriteRollback, Redeliver, GiveUp, table
  <1>15. ASSUME UNCHANGED vars \/ \E b \in Branches : Develop(b)
         PROVE  UNCHANGED <<table, caller, processor>>
    BY <1>15 DEF vars, Develop
  <1>16. ASSUME NEW c \in Callers, Request(c)
         PROVE  InLine' /\ FirstInLine' /\ Served
    BY <1>7, <1>8, <1>9, <1>10, <1>11, <1>12, <1>16 DEF Request
  <1>17. ASSUME NEW p \in Processors, Process(p)
         PROVE  InLine' /\ FirstInLine' /\ Served
    BY <1>1, <1>2, <1>3, <1>4, <1>5, <1>6, <1>17 DEF Process
  <1> QED
    BY <1>13, <1>14, <1>15, <1>16, <1>17 DEF Next

\* No worktree overtakes one that was queued before it asked for its position,
\* unless a late enqueue put it back while a request held it as picked.
THEOREM QueueIsFair == Spec => FirstComeFirstServed
  <1> DEFINE Served ==
        \A b \in Branches \ requeued :
          rows[b].integ = "queued" /\ rows'[b].integ = "integrating" => behind[b] \intersect Queued = {}
  <1>1. TypeInv /\ LineInv /\ [Next]_vars => LineInv' /\ [Served]_vars
    BY LineStep
  <1> QED
    BY <1>1, LineInit, Typed, PTL DEF Spec, FirstComeFirstServed
=============================================================================
