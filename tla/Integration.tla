---------------------------- MODULE Integration ----------------------------
(***************************************************************************)
(* One project's repository and the three parties that write it: the       *)
(* worktrees of agents and the integration queue (services/orchestration/  *)
(* worktrees.py and its routes), and the snapshot and rollback of attempts *)
(* that work in the canonical checkout (durable/activities/recovery.py).   *)
(* Nothing serialises them: each git command is a process of its own, each *)
(* database write a transaction of its own.                                *)
(*                                                                         *)
(* A history is the set of the commits it holds; an agent's commit is      *)
(* named after its branch or attempt, and a merge unites two histories.    *)
(***************************************************************************)
EXTENDS Naturals, FiniteSets, FiniteSetsExt

CONSTANTS
  Branches,     \* branches worktrees are created on
  KeyOf,        \* the idempotency key a create sends with its branch
  Clashes,      \* pairs of commits whose merge conflicts
  Attempts,     \* attempts of tasks that work in the canonical checkout
  Callers,      \* requests that create, release or enqueue a worktree
  Processors,   \* POST .../integration/process requests open at once
  NoBranch, NoCaller,
  MaxFaults     \* bound: deaths of processes, redeliveries and git failures

Commits == Branches \union Attempts

ASSUME ConstantsAssumption ==
  /\ NoBranch \notin Branches /\ NoCaller \notin Callers /\ Branches \intersect Attempts = {}
  /\ IsFiniteSet(Branches) /\ DOMAIN KeyOf = Branches
  /\ Clashes \subseteq SUBSET Commits
  /\ MaxFaults \in Nat

VARIABLES
  head,      \* history of the canonical branch
  merging,   \* MERGE_HEAD of the canonical checkout
  tips,      \* history of each branch, {} before it exists
  paths,     \* branches with a worktree on disk
  landed,    \* what the merge commit of each branch brought in, {} if none
  reset,     \* some rollback has reset the canonical branch
  rows,      \* the worktrees table
  behind,    \* rows that were queued when this row took its position, and still are
  caller, processor,
  attempt,   \* phase of an attempt, its snapshot and the HEAD it has read
  kept,      \* evidence branches recovery/<task>-<attempt>
  committed, \* attempts that have committed work
  overlapped,\* history: attempts that committed while another one was rolled back
  disturbed, \* history: branches between whose merge and commit another request ran git
  requeued,  \* history: branches queued again while a request held them as picked
  faults

hist == <<overlapped, disturbed>>
repo == <<head, merging, tips, paths, landed, reset, kept, committed, hist>>
table == <<rows, behind, requeued>>
vars == <<repo, table, caller, processor, attempt, faults>>

NoRow == [status |-> "none", integ |-> "none", pos |-> 0]
NoCall == [pc |-> "idle", wt |-> NoBranch, pos |-> 0, ahead |-> {}]
NoStep == [pc |-> "idle", wt |-> NoBranch]
Root == {"root"}

With(b, values) == [rows EXCEPT ![b] = [f \in DOMAIN @ |-> IF f \in DOMAIN values THEN values[f] ELSE @[f]]]

Fail == faults < MaxFaults /\ faults' = faults + 1

----------------------------------------------------------------------------
(* Worktrees: each request reads its row, calls git, and writes the row.   *)

LiveByKey(k) == {b \in Branches : KeyOf[b] = k /\ rows[b].status = "active"}

CreateGit(c, b) ==
  /\ caller[c] = NoCall
  /\ LiveByKey(KeyOf[b]) = {} /\ rows[b].status # "active" /\ tips[b] = {}
  /\ tips' = [tips EXCEPT ![b] = head]
  /\ paths' = paths \union {b}
  /\ caller' = [caller EXCEPT ![c] = [NoCall EXCEPT !.pc = "register", !.wt = b]]
  /\ UNCHANGED <<head, merging, landed, reset, kept, committed, hist, table, processor, attempt, faults>>

\* The unique index on the key does not look at the status of its row.
KeyTaken(b) == \E o \in Branches \ {b} : KeyOf[o] = KeyOf[b] /\ rows[o].status # "none"

Register(c) ==
  LET b == caller[c].wt IN
  /\ caller[c].pc = "register"
  /\ rows' = IF KeyTaken(b) THEN rows ELSE [rows EXCEPT ![b] = [NoRow EXCEPT !.status = "active"]]
  /\ caller' = [caller EXCEPT ![c] = NoCall]
  /\ UNCHANGED <<repo, behind, requeued, processor, attempt, faults>>

Queued == {b \in Branches : rows[b].integ = "queued"}

NextPosition == IF Queued = {} THEN 1 ELSE Max({rows[b].pos : b \in Queued}) + 1
PositionBehindIntegrating == 1 + Cardinality({b \in Branches : rows[b].integ = "integrating"})
Position == NextPosition

ReadEnqueue(c, b) ==
  /\ caller[c] = NoCall /\ rows[b].status = "active" /\ rows[b].integ = "none"
  /\ caller' = [caller EXCEPT ![c] = [pc |-> "enqueue", wt |-> b, pos |-> Position, ahead |-> Queued]]
  /\ UNCHANGED <<repo, table, processor, attempt, faults>>

\* What has left its place in the queue is ahead of nobody any more.
Forget(b, c) ==
  /\ behind' = [o \in Branches |-> IF o = b THEN {} ELSE behind[o] \ {b}]
  /\ caller' = [d \in Callers |-> IF d = c THEN NoCall ELSE [caller[d] EXCEPT !.ahead = @ \ {b}]]

\* Some request has picked the branch and not marked it yet.
Picked(b) == \E p \in Processors : processor[p] = [pc |-> "mark", wt |-> b]

WriteEnqueue(c) ==
  LET b == caller[c].wt IN
  /\ caller[c].pc = "enqueue"
  /\ rows' = With(b, [integ |-> "queued", pos |-> caller[c].pos])
  /\ IF b \in Queued     \* by a second request that overtook this one
       THEN Forget(b, c)
       ELSE /\ behind' = [behind EXCEPT ![b] = caller[c].ahead]
            /\ caller' = [caller EXCEPT ![c] = NoCall]
  /\ requeued' = IF b \notin Queued /\ Picked(b) THEN requeued \union {b} ELSE requeued
  /\ UNCHANGED <<repo, processor, attempt, faults>>

\* A dirty tree is refused without force; with force a failing removal is ignored.
ReleaseGit(c, b) ==
  /\ caller[c] = NoCall /\ rows[b].status = "active"
  /\ paths' = paths \ {b}
  /\ caller' = [caller EXCEPT ![c] = [NoCall EXCEPT !.pc = "release", !.wt = b]]
  /\ UNCHANGED <<head, merging, tips, landed, reset, kept, committed, hist, table, processor, attempt, faults>>

\* The request checks the status on the copy it read before git ran.
WriteRelease(c) ==
  /\ caller[c].pc = "release"
  /\ rows' = With(caller[c].wt, [status |-> "abandoned"])
  /\ caller' = [caller EXCEPT ![c] = NoCall]
  /\ UNCHANGED <<repo, behind, requeued, processor, attempt, faults>>

\* An agent commits in its worktree.
Develop(b) ==
  /\ b \in paths /\ b \notin tips[b]
  /\ tips' = [tips EXCEPT ![b] = @ \union {b}]
  /\ UNCHANGED <<head, merging, paths, landed, reset, kept, committed, hist, table, caller, processor, attempt, faults>>

----------------------------------------------------------------------------
(* Processing the head of the queue.  Both transition checks look at the   *)
(* copy of the row the request picked, so neither ever refuses.            *)

ActiveQueued == {b \in Queued : rows[b].status = "active" /\ \A o \in Queued : rows[b].pos <= rows[o].pos}
NextQueued == {b \in Queued : \A o \in Queued : rows[b].pos <= rows[o].pos}

Pick(p) ==
  /\ processor[p] = NoStep
  /\ \E b \in NextQueued :
       processor' = [processor EXCEPT ![p] = [pc |-> "mark", wt |-> b]]
  /\ UNCHANGED <<repo, table, caller, attempt, faults>>

Goto(p, pc) == processor' = [processor EXCEPT ![p].pc = pc]
Answer(p) == processor' = [processor EXCEPT ![p] = NoStep]

MarkIntegrating(p) ==
  LET b == processor[p].wt IN
  /\ processor[p].pc = "mark"
  /\ rows' = With(b, [integ |-> "integrating", pos |-> 0])
  /\ Forget(b, NoCaller)
  /\ Goto(p, "merge")
  /\ UNCHANGED <<repo, requeued, attempt, faults>>

Conflicts(b) == \E x \in head, y \in tips[b] : {x, y} \in Clashes

\* A git command of one request disturbs those that have merged and not committed yet.
Disturb(p) ==
  /\ disturbed' = disturbed \union {processor[q].wt : q \in {o \in Processors \ {p} : processor[o].pc = "commit"}}
  /\ UNCHANGED overlapped

\* git merge --no-ff --no-commit: it refuses to start beside another merge,
\* stops at a conflict, and has nothing to do for a branch already merged.
GitMerge(p) ==
  LET b == processor[p].wt
      starts == merging = NoBranch /\ ~ tips[b] \subseteq head IN
  /\ processor[p].pc = "merge"
  /\ merging' = IF starts THEN b ELSE merging
  /\ Goto(p, IF merging = NoBranch /\ ~ (starts /\ Conflicts(b)) THEN "commit" ELSE "abort")
  /\ Disturb(p)
  /\ UNCHANGED <<head, tips, paths, landed, reset, kept, committed, table, caller, attempt, faults>>

\* git merge --abort ends whatever merge is in progress.
AbortMerge(p) ==
  /\ processor[p].pc = "abort"
  /\ merging' = NoBranch
  /\ Goto(p, "conflict")
  /\ Disturb(p)
  /\ UNCHANGED <<head, tips, paths, landed, reset, kept, committed, table, caller, attempt, faults>>

\* create_conflict_task, then mark_integration
MarkConflict(p) ==
  /\ processor[p].pc = "conflict"
  /\ rows' = With(processor[p].wt, [integ |-> "conflict", pos |-> 0])
  /\ Forget(processor[p].wt, NoCaller)
  /\ Answer(p)
  /\ UNCHANGED <<repo, requeued, attempt, faults>>

Concludes == merging # NoBranch /\ ~ Conflicts(merging)
Land ==
  /\ head' = head \union tips[merging]
  /\ landed' = [landed EXCEPT ![merging] = tips[merging]]
  /\ merging' = NoBranch

\* git commit concludes the merge that is in progress, or fails.
CommitMerge(p) ==
  /\ processor[p].pc = "commit"
  /\ IF Concludes THEN Land /\ Goto(p, "merged")
                  ELSE UNCHANGED <<head, landed, merging>> /\ Answer(p)
  /\ UNCHANGED <<tips, paths, reset, kept, committed, hist, table, caller, attempt, faults>>
CommitSuppressed(p) ==
  /\ processor[p].pc = "commit"
  /\ IF Concludes THEN Land ELSE UNCHANGED <<head, landed, merging>>
  /\ Goto(p, "merged")
  /\ UNCHANGED <<tips, paths, reset, kept, committed, hist, table, caller, attempt, faults>>
Commit(p) == CommitMerge(p)

MarkMerged(p) ==
  /\ processor[p].pc = "merged"
  /\ rows' = With(processor[p].wt, [status |-> "merged", integ |-> "merged", pos |-> 0])
  /\ Forget(processor[p].wt, NoCaller)
  /\ Answer(p)
  /\ UNCHANGED <<repo, requeued, attempt, faults>>

----------------------------------------------------------------------------
(* An attempt in the canonical checkout: snapshot, work, rollback.         *)

Phase(a, phase) == attempt' = [attempt EXCEPT ![a].phase = phase]

\* A recorded snapshot is never taken again.
ReadSnapshot(a) ==
  /\ attempt[a].phase = "new"
  /\ attempt' = [attempt EXCEPT ![a] = [phase |-> "anchor", to |-> {}, cur |-> head]]
  /\ UNCHANGED <<repo, table, caller, processor, faults>>

WriteSnapshot(a) ==
  /\ attempt[a].phase = "anchor"
  /\ attempt' = [attempt EXCEPT ![a] = [phase |-> "working", to |-> attempt[a].cur, cur |-> {}]]
  /\ UNCHANGED <<repo, table, caller, processor, faults>>

SkipSnapshot(a) ==
  /\ attempt[a].phase = "new" /\ Fail /\ Phase(a, "working")
  /\ UNCHANGED <<repo, table, caller, processor>>

RollingBack == {a \in Attempts : attempt[a].phase \in {"rollback", "keep", "reset", "event"}}

\* The agent commits; a commit during a merge concludes the merge.
Work(a) ==
  /\ attempt[a].phase = "working" /\ a \notin head /\ (merging = NoBranch \/ Concludes)
  /\ IF merging = NoBranch
       THEN head' = head \union {a} /\ UNCHANGED <<landed, merging>>
       ELSE /\ head' = head \union tips[merging] \union {a}
            /\ landed' = [landed EXCEPT ![merging] = tips[merging]]
            /\ merging' = NoBranch
  /\ committed' = committed \union {a}
  /\ overlapped' = IF RollingBack \ {a} = {} THEN overlapped ELSE overlapped \union {a}
  /\ Phase(a, "worked")
  /\ UNCHANGED <<tips, paths, reset, kept, disturbed, table, caller, processor, faults>>

\* The recovery of a failed attempt: without a snapshot there is nothing to do.
BeginRollback(a) ==
  /\ attempt[a].phase \in {"working", "worked"}
  /\ Phase(a, IF attempt[a].to = {} THEN "done" ELSE "rollback")
  /\ UNCHANGED <<repo, table, caller, processor, faults>>

ReadHead(a) ==
  /\ attempt[a].phase = "rollback"
  /\ attempt' = [attempt EXCEPT ![a].cur = head,
                   ![a].phase = IF head = attempt[a].to /\ merging = NoBranch THEN "done" ELSE "keep"]
  /\ UNCHANGED <<repo, table, caller, processor, faults>>

\* An evidence branch that already exists stays where it is.
KeepHead(a) == kept' = [kept EXCEPT ![a] = IF @ = {} THEN attempt[a].cur ELSE @]
KeepSnapshot(a) == kept' = [kept EXCEPT ![a] = IF @ = {} THEN attempt[a].to ELSE @]
Keep(a) == KeepHead(a)

CreateBranch(a) ==
  /\ attempt[a].phase = "keep"
  /\ Keep(a)
  /\ Phase(a, "reset")
  /\ UNCHANGED <<head, merging, tips, paths, landed, reset, committed, hist, table, caller, processor, faults>>

ResetHard(a) ==
  /\ attempt[a].phase = "reset"
  /\ head' = attempt[a].to /\ merging' = NoBranch /\ reset' = TRUE
  /\ Phase(a, "event")
  /\ UNCHANGED <<tips, paths, landed, kept, committed, hist, table, caller, processor, faults>>

WriteRollback(a) ==
  /\ attempt[a].phase = "event" /\ Phase(a, "done")
  /\ UNCHANGED <<repo, table, caller, processor, faults>>

----------------------------------------------------------------------------
(* A request or an activity dies between two steps; an activity is         *)
(* delivered again from its start, a request is not.                       *)

Redeliver(a) ==
  /\ attempt[a].phase \in {"anchor", "keep", "reset", "event"} /\ Fail
  /\ Phase(a, IF attempt[a].phase = "anchor" THEN "new" ELSE "rollback")
  /\ UNCHANGED <<repo, table, caller, processor>>

\* A git command of the rollback fails: it reports so and gives up.
GiveUp(a) ==
  /\ attempt[a].phase \in {"rollback", "keep", "reset"} /\ Fail /\ Phase(a, "done")
  /\ UNCHANGED <<repo, table, caller, processor>>

DieCaller(c) ==
  /\ caller[c] # NoCall /\ Fail
  /\ caller' = [caller EXCEPT ![c] = NoCall]
  /\ UNCHANGED <<repo, table, processor, attempt>>

DieProcessor(p) ==
  /\ processor[p] # NoStep /\ Fail /\ Answer(p)
  /\ UNCHANGED <<repo, table, caller, attempt>>

----------------------------------------------------------------------------
Init ==
  /\ head = Root /\ merging = NoBranch /\ reset = FALSE /\ paths = {}
  /\ tips = [b \in Branches |-> {}] /\ landed = [b \in Branches |-> {}]
  /\ kept = [a \in Attempts |-> {}] /\ committed = {}
  /\ overlapped = {} /\ disturbed = {} /\ requeued = {}
  /\ rows = [b \in Branches |-> NoRow] /\ behind = [b \in Branches |-> {}]
  /\ caller = [c \in Callers |-> NoCall] /\ processor = [p \in Processors |-> NoStep]
  /\ attempt = [a \in Attempts |-> [phase |-> "new", to |-> {}, cur |-> {}]]
  /\ faults = 0

Request(c) ==
  \/ \E b \in Branches : CreateGit(c, b) \/ ReadEnqueue(c, b) \/ ReleaseGit(c, b)
  \/ Register(c) \/ WriteEnqueue(c) \/ WriteRelease(c) \/ DieCaller(c)
Process(p) ==
  \/ Pick(p) \/ MarkIntegrating(p) \/ GitMerge(p) \/ AbortMerge(p) \/ MarkConflict(p)
  \/ Commit(p) \/ MarkMerged(p) \/ DieProcessor(p)
Try(a) ==
  \/ ReadSnapshot(a) \/ WriteSnapshot(a) \/ SkipSnapshot(a) \/ Work(a)
  \/ BeginRollback(a) \/ ReadHead(a) \/ CreateBranch(a) \/ ResetHard(a) \/ WriteRollback(a)
  \/ Redeliver(a) \/ GiveUp(a)

Next ==
  \/ \E c \in Callers : Request(c)
  \/ \E p \in Processors : Process(p)
  \/ \E a \in Attempts : Try(a)
  \/ \E b \in Branches : Develop(b)

Spec == Init /\ [][Next]_vars

\* Fairness: somebody keeps asking for the next integration, and a request
\* that has begun goes on.
Step(p) == Process(p) /\ faults' = faults
FairSpec == Spec /\ \A p \in Processors : WF_vars(Step(p))

----------------------------------------------------------------------------
\* Type invariant.
Histories == SUBSET (Commits \union Root)
Row == [status : {"none", "active", "merged", "abandoned"},
        integ : {"none", "queued", "integrating", "merged", "conflict"}, pos : Nat]
Call == [pc : {"idle", "register", "enqueue", "release"}, wt : Branches \union {NoBranch},
         pos : Nat, ahead : SUBSET Branches]
Integrating == [pc : {"idle", "mark", "merge", "abort", "conflict", "commit", "merged"},
                wt : Branches \union {NoBranch}]
Trying == [phase : {"new", "anchor", "working", "worked", "rollback", "keep", "reset", "event", "done"},
           to : Histories, cur : Histories]

RepoOK ==
  /\ head \in Histories /\ merging \in Branches \union {NoBranch} /\ reset \in BOOLEAN
  /\ tips \in [Branches -> Histories] /\ landed \in [Branches -> Histories]
  /\ kept \in [Attempts -> Histories] /\ paths \subseteq Branches
  /\ committed \subseteq Attempts /\ overlapped \subseteq Attempts /\ disturbed \subseteq Branches
TableOK ==
  rows \in [Branches -> Row] /\ behind \in [Branches -> SUBSET Branches] /\ requeued \subseteq Branches
ActorsOK ==
  /\ caller \in [Callers -> Call] /\ processor \in [Processors -> Integrating]
  /\ attempt \in [Attempts -> Trying]
TypeOK == RepoOK /\ TableOK /\ ActorsOK /\ faults \in 0..MaxFaults

\* A row says merged only if a merge commit of its branch was made, and what
\* that commit brought in leaves the canonical branch only through the reset
\* of a rollback (process_integration marks merged after merge_no_ff): unless
\* another request ran git between the merge and its commit, which then may
\* have concluded the other's merge.
MergedWasLanded ==
  \A b \in Branches \ disturbed : rows[b].integ = "merged" =>
    landed[b] # {} /\ (landed[b] \subseteq head \/ reset)

\* What an attempt has committed can be reached from the canonical branch or
\* from an evidence branch, across rollbacks, crashes, redeliveries and
\* merges (rollback_attempt_activity: "history and evidence are never
\* deleted"): unless it committed while another attempt was rolled back,
\* whose evidence branch may be older than the commit and its reset younger.
WorkKept == committed \ overlapped \subseteq head \union UNION {kept[a] : a \in Attempts}

\* No worktree overtakes one that was queued before it asked for its
\* position (enqueue and next_queued: the queue is FIFO): unless a late
\* enqueue put it back into the queue while a request held it as picked.
FirstComeFirstServed ==
  [][\A b \in Branches \ requeued :
       rows[b].integ = "queued" /\ rows'[b].integ = "integrating" => behind[b] \intersect Queued = {}]_vars

\* A queued worktree is taken in the end, released or not.
QueueDrains == \A b \in Branches : rows[b].integ = "queued" ~> rows[b].integ # "queued"
=============================================================================
