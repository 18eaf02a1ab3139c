# A TLA+ verification of the AI Harness

The AI Harness (a FastAPI service, a Temporal worker and a web UI) runs software
tasks with disposable agents, recovers from their failures, asks people before it
does anything risky, leases shared resources, integrates the agents' branches and
shows all of it live. This directory holds TLA+ modules of it, the TLC
configurations that check them, and machine-checked proofs. Source paths below are
relative to `services/api/app/` unless they begin with `docs/` or `apps/`.

Contents: [inventory](#inventory) · [modules](#modules-and-the-code-they-model) ·
[runs](#runs) · [divergences](#where-the-code-and-its-documents-differ) ·
[proofs](#proofs) · [not modelled](#not-modelled-and-why) · [plan](#plan)

## Inventory

State lives in PostgreSQL; Temporal's history owns the progress of a workflow;
blobs and worktrees live on disk; everything in memory can be lost. API handlers
and workflow activities run in threads of several processes and share nothing but
rows, files and the broker.

| Component | State | Operations | What makes it correct |
|---|---|---|---|
| Task execution workflow (`durable/`) | task status, attempts, agents, events; the run's position in Temporal's history | the attempt loop, the recovery ladder, pause/resume, reconciliation | bounded executions, attempts as a ledger, no task running with nobody running it, evidence for failures |
| Recovery policy (`services/orchestration/recovery.py`) | none (pure) | decide | every class ends |
| Task requests and scheduler (`api/routes/planning/tasks.py`, `services/orchestration/scheduler.py`) | task rows, leases | execute, tick, cancel, pause, resume; dependency wait and signals | limits, no starvation, waits end by completions |
| Agents and sessions (`services/orchestration/agents.py`) | agents, sessions | start, heartbeat, end, supervise | records loss without inventing it |
| Agent execution (`durable/activities/execution.py`, `agents_runtime/`) | ledger rows, slots | budget check, model call with fallback, commands through the gateway | budget, quota and approvals hold |
| Context broker (`agents_runtime/context_broker.py`) | none | assemble, truncate | the bundle stays within its budget |
| Approval gates (`services/orchestration/hitl.py`, `durable/activities/hitl.py`) | request row, its lock | create, decide, cancel, poll, time out | fail closed; one verdict; what was reported stays true |
| Leases and slots (`services/orchestration/leases.py`, `services/execution/executions.py`) | one row per (kind, key) | acquire, acquire many, renew, release, expire | one holder; batches all or nothing |
| Worktrees and integration (`services/orchestration/worktrees.py`, `durable/activities/recovery.py`) | worktree rows, git | create, enqueue, process, release; snapshot, rollback | merged means landed, FIFO, no work lost |
| Ports (`services/execution/ports.py`) | allocation rows | allocate, renew, release, expire | every call is answered; one holder per port |
| Messages (`services/orchestration/messages.py`, `messaging/broker.py`) | message rows, stream | send, fan out, acknowledge | at least once, none starves |
| Realtime events (`realtime/`, `apps/web-ui/src/state/`) | event rows, bounded queues, the page's copy | commit, publish, fan out, replay, resync, prune | a copy that missed an event learns it |
| Review (`services/quality/review.py`) | decisions, verdicts | review, adjudicate | fails closed |
| Oversight (`services/quality/overseer.py`) | requirements, criteria, validations | register, verify, report | a report rests on evidence |
| Quality gates (`services/quality/gates.py`, `services/quality/secrets.py`) | security validations | scan the tree, ask the gate | a gate sees what a scan found |
| Planning, export, import (`services/planning/`, `services/workspace/portability.py`) | projects, plans, tasks, edges | create, delete, export, import | acyclic, whole |
| Artifacts (`artifacts/store.py`, `realtime/retention.py`, `api/routes/core/artifacts.py`) | blobs, rows | put, prune, download | what is recorded stays readable |
| Terminals and browsers (`terminal/`, `browser/`) | bounded pools in memory | open, attach, close | places come back |
| Process runner (`runtime/`) | one process tree | run, time out, kill | it comes back |
| MCP (`mcp/`) | one server process per call | call, discover | it comes back and leaves nothing behind |
| Evaluation (`evaluation/`) | reports on disk | run a suite, audit, compare | budgets hold; nothing accepted regresses |
| Code index and files (`codeintel/indexer.py`, `files/service.py`) | rows, the tree | index, save, rename | the index settles on the tree |
| Rate limit (`api/middleware.py`) | buckets in memory | call, evict | fair |
| Everything else | — | parsing, retrieval, search, git routes, research, toolchains, knowledge, metrics, UI rendering | — |

How they interact: a route or a tick starts a workflow and then writes the task
row; the workflow calls activities, which write rows; the execution activity takes
a slot (a lease), spends budget, runs commands and may wait for an approval; people
decide approvals and cancel or pause tasks; a task's completion signals the runs
that wait for it; agents' branches queue to be integrated; evidence
goes to the artifact store, which retention prunes; committed events feed the
realtime pipeline and the UI.

What is hard here: an activity is delivered at least once, and its commit and the
recording of its result are two steps; nearly every writer of a row reads it,
checks it, and writes it back without a lock; a run can die at any call and is then
reconciled by calls that can fail as well; waits need something that ends them; a
timed-out execution may still be working; git, the broker and the disk are changed
in other steps than the rows about them; queues and pools have limits that are
checked before a place is taken. `PROJECT.json` lists each hazard at its line.

## Modules and the code they model

| Module | Models | In run |
|---|---|---|
| `Lifecycles`, `RecoveryPolicy` | transition tables; the decision table of recovery | with the next |
| `TaskExecution` (`MCTaskExecution`) | one task's workflow, activities, requests, supervision | `ladder`, `clients`, `evidence` |
| `AttemptLedger` | what the rows of a task promise; `TaskExecution` implements it | `clients` |
| `HitlGate` | one approval gate | `gate` |
| `Leases` (`MCLeases`) | lease rows, transactions, row locks | `leases` |
| `EventStream` (`MCEventStream`) | events from commit to page | `stream` |
| `Replica` | what a reader of the log is promised; `EventStream` implements it | `stream` |
| `Dispatch` (`MCDispatch`) | ticks over several tasks, dependency waits | `dispatch` |
| `Integration` (`MCIntegration`) | worktrees, the queue, snapshots and rollbacks | `integration` |
| `Ports`, `MessageOutbox`, `Review`, `BlobStore`, `Oversight`, `Downloads`, `ProcessRunner`, `Sessions`, `AgentExecution`, `AgentSessions`, `McpClient`, `Evaluation`, `Workspace`, `Planning`, `ContextBroker`, `RateLimit`, `CompletionGate` | the services of those names | `services`, through `MCServices` |
| `Sums` | sums of sequences, used by `Evaluation`, `ContextBroker`, `RateLimit` | `services` |
| `MCEvidence` | `Oversight` over `BlobStore`, with retention | `v_retention` |
| `TaskExecution_proofs`, `HitlGate_proofs`, `Leases_proofs`, `EventStream_proofs`, `Dispatch_proofs`, `Integration_proofs` | theorems about the module of that name | |
| `Services_proofs`, `Completion_proofs` | theorems about the services, each alone and all of them side by side in `MCServices` | |

`MCServices` puts the seventeen service modules side by side: `system` is chosen at
first and says which of them moves in a behaviour; the others stay as they are, so
one run checks each on its own (`Oversight` runs over `BlobStore`'s store; in it
one writer stores and nothing grows old).

What a property promises is sometimes not what the code ensures in every case. Where the
case is a known one, a history variable remembers that it has happened, and the property
makes an exception of exactly that: `overlapped`, `disturbed` and `requeued` in
`Integration`, `unclaimed` in `Dispatch`, `crowded` in `BlobStore`, `lapses` and
`overtaken` in `AgentExecution`, `spoiled` in `EventStream`. No action reads such a variable.

### TaskExecution

`pc` names the activity call the run waits for; the tables `StatusArg`, `AgentArg`
and `Follows` are the workflow's text (which status or state a call asks for, which
call comes next when nothing is decided), `Dispatch` and `OnError` are its branches.
`Deliver(effect, ack)` is one delivery: the effect commits, and then either the
result reaches the run (`ack`) or it is lost and `Redeliver` counts a failed
delivery, at most `MaxTries` in all (`RETRY_DB`; `RETRY_NONE` calls are in `Once`).
`CrashBefore` is a delivery that dies before its commit. `ReadStatus` and
`WriteStatus` are the two halves of `set_task_status_activity`, because a request
may write the row between them; requests have the same two halves (`Touch`,
`WriteBack`). An exhausted call leads to `_reconcile_terminal_failure` (the `r...`
calls). A request `Directs` is a start whose client writes nothing more (a direct
invocation, or an API process that died after the start).

`EvidencedFailure` excepts the two ways out that leave no evidence (`GaveUp`: a
human did not pay for the recovery, or a dependency did not finish in time, with attempts
left and no follow-up), and `NoOrphanedTask` a status that a request wrote behind the run it had
started (`Overwritten`) and a call that lost every delivery.

Abstracted: an attempt's outcome is success or failed (`timeout` is a failure whose
class was decided by the classifier); the class itself is chosen from `Classes`;
budget, approval and dependency answers are chosen freely (they are modelled in
`AgentExecution`, `HitlGate` and `Dispatch`); events are kept only where they carry
a key or a property needs them; backoff and deadlines are steps that may happen at
any time.

### HitlGate

`status` and `lock` are the row and its lock. People lock it, then refuse or settle
(`_request_locked_or_404`, `decide_request`, `cancel_request`); the worker polls it
without a lock (`SeeDecision`, `GiveUp`) and its timeout write waits for the lock
but does not read again (`WriteTimeout`). `Act` is the caller: the gated command runs,
or the recovery continues, only if the result said approved.

### Leases

A request works through the keys it has left (`todo`, a set of which it takes the least
first): it reads committed rows, flushes its writes one by one, each keeping the row
lock (or the unique-index entry of an insert) until its transaction ends, and
commits or rolls back. A write changes only the columns the request changed since it
read the row (SQLAlchemy), which matters for `released_at`. `holder` in a row is
the request the row was written for: for an execution slot, which has no
`holder_agent_id`, the code cannot see it, and `Anonymous` says where. `Abort` is
PostgreSQL's deadlock detector.

### EventStream and Replica

An event is its per-project sequence number; `Owner(s)` is the entity it changes. A
transaction takes the next number under the counter's row lock (so commits follow
the sequence) and stashes its envelope; after the commit the bridge puts the stash on
the bounded bus, which publishes to the stream, drops what does not fit, and may lose
a publish. The gateway's consumer acknowledges, redelivers up to `MaxDeliver` times
and dead-letters poison; the connection's queue is bounded, a first drop tries to put
RESYNC_REQUIRED on the full queue, and a client that drops too many is cut off. A
page that connects gets replay frames from the rows, or a resync when retention has
removed what it needs; it applies, ignores duplicates, notices gaps (`Verdict`) and
fetches (`Fetch`), cursor before entities, each of them read at some moment after.

Events of agents and tasks change the copy with the cursor (`Apply`). An event about a
request moves the cursor too, but leaves the list of requests to a read of its own
(`refreshHitl`, `officeStore.ts:129-137` and `208`; a decision and a review start one as
well): `asked` counts the reads the server has not answered, `answers` holds what is on
its way to the page. Answers land in any order, also after a fetch, and replace the list
(`LandRead`); a failure is swallowed (`FailRead`). `HITL_RESPONDED` takes the task's
requests off the list at once, so the entity is the set of pending requests of a task, and
it may show the event, nothing, or what it showed. The history variable `spoiled` says
that the list lacks something because a read was lost or overtaken; `NoSilentLoss`
and `SentIsShown` except exactly that, and `RequestsShow`, without the exception, fails
(see the divergences). `Replica` is the promise: a copy that follows the log one entry
after the other or knows that it cannot be trusted, with listed entities beside it that
show what they once were.

Abstracted: one gateway, one page on one project, no project filters, no connection
limit; `degraded` is configuration; events that the reducer keeps for the timeline (new
tasks, recoveries, model switches) have no owner among the entities. Known and outside
the promise: an event that is last and lost shows only with the next one; a page whose
rows were all pruned gets no resync (`realtime/route.py:163`, hence the second
alternative of `SentIsShown`); a page that is more than `Page` rows behind gets the first
of them and learns of the rest with the next event only, so the run's `Page` holds all rows.

### Dispatch

A tick counts what runs, plans within `MaxConcurrency` and `RoleLimits`, starts the
runs, and claims the rows it had planned; each is a step, and a tick may die between
them. A run loads, enters, works, checks its dependencies, parks, clears its flag and
waits; the completion of a task signals its dependents one by one, and nothing else
does (`completed` remembers who has completed). A wait ends by the flag or by its deadline. The claim is written over whatever
the row has become (`Overclaimed`), which is why `EventuallyStarted` has that way out.
The planner never consults dependencies (`services/orchestration/scheduler.py:155`).
Ticks may overlap; each keeps to the limits as far as it has counted, so `WithinLimits` has
one share of them for each tick that may be open. `unclaimed` are runs that a tick started and
never claimed, because it died or was not told of the run: their rows do not say running
when the next tick counts, and no limit covers them.

### Integration

A history is the set of its commits. Requests read their row, call git, and write the
row, each a step; `behind[b]` remembers who was queued before `b`. `process` marks
integrating, merges, on a conflict aborts and opens a task, marks merged. Attempts
snapshot the canonical branch, commit work, and on a rollback keep their work on an
evidence branch, abort a merge and reset. A death between a commit and a git call
leaves a row integrating and a checkout in a merge, as in the code. A row that was queued
again while it was being merged leaves the queue when the merge's outcome is written over
it (`Forget` in `MarkConflict` and `MarkMerged`). The transition
checks of the routes act on the request's own cached row and so never refuse.

Abstracted: one key per branch, no uncommitted edits. `MergedWasLanded` allows the reset of
a rollback: other tasks' merges are undone with it while their rows go on saying merged
(`durable/activities/recovery.py:456`). Nothing in the code serialises requests and
attempts, so the properties say where two of them break the promise:

- `disturbed`: between the merge of a branch and its commit another request ran git. It
  may abort the merge, which then commits nothing and is marked merged.
- `overlapped`: an attempt committed while another one was being rolled back, whose evidence
  branch may be older than that commit and its reset younger.
- `requeued`: a late enqueue put a branch back into the queue while a request held it as
  picked. It is integrated from the place it had before.

### The services

- `Ports`: a call reads the clock, looks for a replay of its key, reads the taken
  ports, inserts a candidate; only the unique index on the key refuses.
- `MessageOutbox`: passes read the oldest pending rows, publish one by one with the
  row's id as the stream's duplicate id, record attempts and mark what was
  acknowledged; several overlap, die, or lose an acknowledgement. Unpublishable rows
  can starve the rest when a pass reads nothing else; `Limit` leaves room for one more.
- `Review`: reviewers in parallel, then critic, evidence verifier and adjudicator;
  every verdict a commit, acceptance the last. The critic's summary is what the
  adjudicator gets as the verifier's (`services/quality/review.py:293`), and its
  approval alone accepts; the model says so.
- `BlobStore`: `put` as exists, open, write, replace on a temporary path all writers of
  a content share, with descriptors that follow the file; then the row, then the
  reference; the retention pass with its protected set read at its start. `crowded` are the
  contents that three writers have been storing at once: the second opens, and so empties, the
  temporary file, the third moves it into place.
- `Downloads`: the size is described, the header answered, then each chunk measured and
  read anew while the file under it is pruned or republished, whole or cut.
- `Oversight`: the report reads requirements, tasks, criteria and validations in
  separate statements.
- `ProcessRunner`: children inside the group, inside it without the pipes, or apart
  from it; the kill reaches the group if the first process is still there; the drain
  is cut off after its grace.
- `Sessions`: check, slow part, entry. A terminal's socket has a reader and a writer; the
  reader waits for each write (`api/routes/workspace/terminal.py:69`), and a write waits
  for a shell that does not read, so a disconnect behind it is not seen. A closed
  descriptor's number is given out again; the browser is launched lazily.
- `AgentExecution`: the budget is checked before a call and the ledger row written
  after it (or not), the registry retries and falls back; a slot is a lease without
  holder, read and then taken without a lock, that may lapse; `overtaken` counts the rows
  taken although they had changed since they were read. Each command passes the gateway,
  gated ones a human. An empty command list decides to the scripted `[[]]` and runs nothing
  (`durable/activities/execution.py:43`).
- `AgentSessions`: requests read rows and write what they changed of what they read;
  the sweep reads silent sessions and the agent, then writes both. An agent is
  failed although another of its sessions is alive; ending a session overwrites "lost".
- `McpClient`: one request to one stdio server, or a discovery over several; the
  server may answer, err, talk junk, stall, or end. stderr is never read although
  `mcp/protocol.py:7` says it is drained, so it can stall on it.
- `Evaluation`: suites with call limits, interruption and a report saved after every
  row; audits into a scorecard; what is compared with the last accepted report.
- `Workspace`: saves and renames as check and act over one temporary name; index passes
  row by row, overlapping, dying, conflicting on the unique path.
- `CompletionGate`: a scan reads the tree file by file while agents write to it and
  records its verdict for the task it was asked for, or for none; the gate reads the
  attempts, then the failed rows of its task. A task without requirement is only warned
  of, though `services/quality/gates.py:6` makes the link a condition; a later scan that
  passes takes no failed row away.
- `Planning`: rows with the foreign keys and cascades of the migrations; the plan's edges
  checked one by one; export read by read; an import gives every row an id of its own but
  leaves the ids it refers to, so that those rows must still be there.
- `ContextBroker`: texts as line lengths, tokens as a quarter of the characters,
  markers with their own cost.
- `RateLimit`: fixed windows, refused calls counted, eviction past a number of buckets.

## Runs

`CHECK_DEADLOCK FALSE` everywhere: requests, faults, edits and clocks are bounded, and
when they are used up the system has really come to rest.

| Run | Instance | States | Shows |
|---|---|---|---|
| `ladder` | all emitted classes, 3 attempts, 3 deliveries, 1 fault, 1 pause, 1 stale session, 1 start, fairness | 140 thousand | executions bounded, follow-ups final, the run closes |
| `clients` | execute, tick and cancel on one task, 2 attempts, 3 deliveries, 2 faults | 2.6 million | completed rests on a success, nobody's task is left running, the attempt ledger is implemented |
| `evidence` | two starts, a cancel, a pause, all emitted classes, 3 attempts, 3 deliveries, 1 fault | 3.5 million | evidence for failures, but for the two ways out |
| `gate` | 3 people, fairness | 9 thousand | fail closed, one decider, stable reports, an answer |
| `leases` | 2 batches of 2 keys in opposite orders, TTL 1, clock to 2, fairness | 69 thousand | all or nothing, every request answered |
| `stream` | 2 events, of a task (poison) and of a request, queues of 1, page and worker, lists of 1, 1 read of the requests at a time, 2 faults, fairness | 327 thousand | no silent loss, the replica is implemented, what was sent shows |
| `dispatch` | 4 tasks in a chain against the planner's order, limit 1, a role cap, a leased resource, 1 tick at a time, 1 cancel, lease or fault, fairness | 194 thousand | limits, waits end by completions, everybody starts |
| `integration` | 2 worktrees whose work conflicts, 1 attempt, 1 caller, 1 processor, 1 fault, fairness | 688 thousand | merged means landed, no work lost, FIFO, the queue drains |
| `services` | the instances below, one system per behaviour, fairness where a liveness property needs it | 213 thousand | see the properties' comments |
| `v_*` | the smallest instance of each divergence | | see below |

The instances of `services`: ports (2 ports, 2 calls, one with a key and a preference,
2 rows), messages (2, one of them unpublishable, 2 passes of 2 rows, 2 losses), review (2
reviewers, 1 request), artifacts (1 content, 3 writers, 1 death), oversight (2
requirements with a mandatory criterion each, 1 reporter), runner (2 children), terminals
(2 for 1 place), browsers (3 openers for 1 page), execution (2 lanes, budget 1, 2 tries, 1
slot, 1 upset), mcp (2 servers), suites (1 case twice, 2 calls per case, 3 per run), audits (2
keys, one optional security check), workspace (2 paths, room for 1, 2 editors, 2 edits, 2
passes), planning (4 ids, plans with a chain, a self-dependency, a later title, a double
one), context (3 texts per tier, budgets below, at and above a stub), limiter (2 clients,
limit 2, window 2, clock to 3), agents (2 sessions, 1 start and 1 end by hand, clock to 2),
downloads (a content of 3 bytes or none, chunks of 2, headers around every end, 2 changes), gates (2 files of which a scan reads 1, 2
scans, 1 question, 1 planted credential).

Why the bounds are enough. Three attempts reach every rung of the ladder (the
class action, the last-attempt action, the end); a fault changes the course at most
at the call it hits, and two faults cover a fault during reconciliation of another.
Two runs of one workflow id are the most that differ: a third meets the rows as the
second did. Three people show a winner, a loser who saw the winner, and one who
comes after the timeout. Two keys and two batches are the smallest deadlock; the
clock must pass one TTL to make a lease expire and be taken over. Queues of one make
every overflow happen with two events, and one entity of each kind shows the two ways the copy changes; one read of
the requests at a time is lost or answered late like any other. A chain of three with a limit of one makes every waiter stand between its
dependency and the slot; the fourth task is too deep and must never be started. Two
worktrees are a queue, and a conflict has two sides. What several ticks, integrations, callers or
attempts at once do to each other is too large for a run with fairness: it is
what the theorems cover, and their safety properties were model-checked
beside the runs, with two ticks over three tasks (5.4 million states; over four tasks by
simulation), with two integrations and two callers (2.9 million), and with two attempts (23 million states,
not all there are). Three writers of a content are the fewest that lose evidence, so
the run has three. Among the services, two of
everything that races (calls, writers, lanes, passes, editors) and limits one below
what is asked for make each limit and each overlap happen; a content of three bytes with
chunks of two has a full and a partial chunk.

Bounds that are not the program's: `MaxFaults`, `MaxPauses`, `MaxStale`, `MaxTime`,
`MaxSeq`, `MaxReads`, `MaxEvents`, `MaxRows`, `MaxLosses`, `MaxDeaths`, `MaxKills`, `MaxUpsets`,
`MaxEdits`, `MaxRowId`, `MaxClock`, `MaxSwaps`, `MaxPlants`, `MaxDigits` (of the number in a
marker), the finite sets of requests, and in
`MCServices` `Quiet`, `OneListener` and `RefusedOnce`. `MaxAttempts` and `MaxTries` are the program's own
(`retry_policy.max_attempts` clamped to 1..10; `RETRY_DB`, and `MaxTries` in `Leases`, the
three rounds of the insert race), and so are the sizes of queues, pools and windows,
made small.

Fairness. `TaskExecution!FairSpec` asks for weak fairness of the worker alone: a
polling worker, durable timers and gates with deadlines keep going; no client has to
resume, cancel or start anything, and a run may stay parked at a checkpoint, which
`RunCloses` says. `HitlGate!FairSpec`: the polling thread and the clock go on, and
whoever holds the row lock ends the transaction; nobody has to decide. `Leases!FairSpec`
asks for strong fairness of each request's next step, because a step that waits for
a row lock is enabled again and again only, and PostgreSQL serves lock waiters in
the order they came; weak fairness of the detector and the sweep. `EventStream!FairSpec`:
the page reconnects, reads and fetches, the server answers a read of the requests and the answer lands;
no publish, fetch or read has to succeed. `Dispatch!FairSpec`:
ticks are requests, so somebody keeps asking for them; runs go on and foreign leases end.
`Integration!FairSpec`: somebody keeps asking for the next integration, and a request
that has begun goes on. In the services: a call of `allocate` that has begun goes on; somebody
keeps asking for fan-out passes; the event loop runs the runner's timers, a terminal's
reader, the handler once a reader has ended, and the MCP client's tasks; a write to a shell that
reads again returns. No process outside (a shell, a command, an MCP server) is asked to do
anything.

## Where the code and its documents differ

Each `v_` run checks one sentence of the repository that the code does not keep.

| Run | The sentence | What happens |
|---|---|---|
| `v_lost_result` | `docs/RECOVERY.md:164` resumes "exactly where the history says" | an agent state write commits, its result is lost, the redelivery is refused as unlawful; the task fails after its work succeeded |
| `v_takeover` | `services/orchestration/leases.py:109` "the loser ... gets a 409" | both takers of an expired lease get it |
| `v_retention` | `realtime/retention.py:90` "retention must never delete final evidence" | the artifact a criterion was verified with is not among what is protected; its blob is deleted |

Stated in the modules and seen with TLC to be false, each with the sentence it
contradicts; the suite is kept small, so they have no runs of their own:

| Property | The sentence | What happens |
|---|---|---|
| `TaskExecution!NoSpuriousFailure` | `durable/activities/tasks.py:208` "pre-claims tasks ... before the workflow starts" | the tick claims afterwards, and can fail the run it started |
| `TaskExecution!TerminalIsTerminal` | `services/planning/tasks.py:16` "Terminal states are terminal" | an unlocked write overwrites a cancel |
| `TaskExecution!NoConcurrentExecution` | `docs/RECOVERY.md:133` duplicate concurrent execution "impossible by construction" | a timed-out execution works on beside the next run |
| `TaskExecution!FailureLeavesEvidence` | `durable/workflows.py:493` a rejected gate "fails the task terminally with evidence"; `docs/RECOVERY.md:139` the deadline "converts to terminal failure with evidence" | both leave the loop without any |
| `EventStream!RequestsShow` | `apps/web-ui/src/state/officeStore.ts:135` "the next resync covers it" | nothing calls for a resync after a failed read, and an older answer replaces a newer list |
| `AgentExecution!QuotaBinds` | `services/execution/executions.py:1` "bounded concurrency per project" | two executions read one released slot and both take it |
| `BlobStore!EvidenceAlwaysReadable` | `realtime/retention.py:90` "retention must never delete final evidence" | without any retention: a third writer publishes the temporary file that a second has emptied |
| `CompletionGate!AllowedWasClean` | `services/quality/gates.py:5` a task is complete only when "the security scan found no credentials in the project tree" | a scan requested for no task, the route's default, finds some; no task's gate looks at it |
| `HitlGate!NeverRedecided` | `services/orchestration/hitl.py:6` "never re-decided" | the worker's timeout overwrites an approval |
| `Dispatch!BoundedConcurrency` | `services/orchestration/scheduler.py:1` bounded concurrency | a task back from its wait runs beside the one that took its slot |
| `Ports!OneHolder` | `services/execution/ports.py:165` a collision "tries the next port" | migration 0009 has no unique index on the port, though `db/models/execution/execution.py:24` declares one |
| `ProcessRunner!NoneOutlivesTimeout` | `runtime/runner.py:138` "children cannot outlive a timeout" | a first process that has exited stops the kill; a container is not reached |
| `Sessions!GoneIsClosed` | — | behind a write to a shell that does not read, the reader never sees the disconnect and the place stays taken |
| `Sessions!InputGoesHome` | — | a closed terminal's socket writes to a descriptor the next terminal was given |
| `Planning!StandsAlone` | `services/workspace/portability.py:9` "new ids everywhere" | imported rows keep the foreign keys of the source |

Also met while modelling, without a property: a redelivered
`record_event_activity` writes its event twice (`docs/RECOVERY.md:146`); the budget
is checked after a replan was created, not before (`durable/workflows.py:432` and `464`); an approved `request_hitl` retries without RETRY_STARTED and backoff, though the
comment says it falls through to them (`durable/workflows.py:561`, `621`); a completion
signalled between the dependency check and the reset of the flag is lost
(`durable/workflows.py:121-127`), and failed dependencies never signal; the sweep takes row
locks in another order than batches (`services/orchestration/leases.py:223`); an
integration that dies leaves its row integrating for good, and `merge --abort` can abort
another's merge; a project with any dependency cannot be exported (`row.id` of a row without
one, `services/workspace/portability.py:99`), and one with any attempt cannot be imported; a
writer that dies after publishing a truncated blob leaves it for good, because its path
exists; arguments that fill the pipe of a deaf MCP server wait outside the timeout
(`mcp/protocol.py:107`), which `ToolCallsEnd` excludes; a case that was killed leaves no
metrics, so its calls are not counted, which `SuiteWithinBudget` says; leaving out a failing
mandatory check raises the coverage ratio; suite durations may creep; a replay that ends at
its limit announces no resync (`realtime/route.py:78-83`); a read of the requests of one project may land after the
page has gone to another, as it is not checked like that of messages
(`apps/web-ui/src/state/officeStore.ts:129`); `render` adds headers
the context budget does not count, and a budget below the marker's 7 to 9 tokens is exceeded; the
fixed window lets through twice the limit around its end.

## Proofs

Checked by TLAPS for every value of the constants, under the named assumptions the
modules put on their constants (`TaskExecution`: `BoundsAssumption`, `ClassesAssumption`,
`RequestsAssumption`; `HitlGate`: `NobodyAssumption`; `Leases`: `ActorsAssumption`,
`SizesAssumption`, `WantsAssumption`; `EventStream`: `ProcsAssumption`, `SizesAssumption`,
`RequestsAssumption`; `Dispatch`: `BoundsAssumption`, `TasksAssumption`, `PassesAssumption`
(finitely many ticks are open at once); `Integration`: `ConstantsAssumption`; each service's
own). They say of which kind a constant is, and no theorem but `RetriesAreAnnounced` has a hypothesis
beyond them: any number of requests, ticks, integrations, attempts and writers may be at work, and
what the code does not ensure among them is an exception in the property itself.

`TaskExecution_proofs`: `TypeCorrect`, `CompletionEarned`, `KeepsLedger`,
`ExecutionsBounded`, `KeysAreUnique`. `TypeOK` is not inductive: that the attempt the
run points at is open, finished with the run's own result, or a success depends on
where the run is, so the inductive invariant is `TypeOK /\ OutcomeTracked`, one conjunct
per phase of an iteration. It gives that a success is recorded before "completed" is
asked for, hence the ledger step by step (every action is an Open, Close or Move of
`AttemptLedger`, or a stutter). `ExecutionsTracked` strengthens the bound: before the
work of iteration n at most n - 1 executions have begun. Five further theorems share
that invariant:

- `FollowUpsReplace` (`FollowUpIsTerminal`), with `LadderInv`: a run that has closed is
  done, iteration n has begun n executions, and a follow-up that belongs to the present
  run belongs to its present iteration, was created after the work, and is recorded as
  terminal by the time the run leaves. The proof follows the calls of an iteration in
  their order (`LadderMove`).
- `NoTaskOrphaned` (`NoOrphanedTask`), with `SettlingInv`: at each call of the
  reconciliation the task is in the status that was loaded, has been settled since, or was written by
  a request that had started a run; and while fewer results were lost than a call has
  deliveries, the call has deliveries left unless its write is no longer lawful.
- `FailureIsEvidenced` (`EvidencedFailure`), with `EvidenceInv`: from the decision on
  the run is on its way to another attempt, which is there, or to the terminal event, or
  it gave up where `GaveUp` says, for every class.
- `OfficeIsTruthful` (`CheckpointTruthful`), with `CheckpointInv`: which state the agent row is
  in at each call between the start of an attempt and its end, whoever of the worker and the
  supervision wrote it last.
- `RetriesAreAnnounced` (`AnnouncedRetries`). Hypothesis: no class of `Unannounced`
  (`DEPENDENCY_FAILURE`, `RESOURCE_LIMIT`), whose retries go on after a wait or an approval
  without the event RETRY_STARTED; TLC finds a counterexample with either.

`HitlGate_proofs`: `TypeCorrect`, `GateFailsClosed`, `OneVerdict`, `ReportStands`,
`OnlyTimeoutRevokes`. The invariant adds `LockDiscipline` (who reads holds the lock, and
what it saw is still there, except that a timeout cannot slip under a held lock) and
`GateProgress` (what a gate in each phase has reported, and that the row then is terminal).

`Leases_proofs`: `LeasesTyped`, `BatchesAreAtomic`, `OrderPreventsDeadlock`. The invariant of
`BatchesAreAtomic` adds that whoever holds a row lock
has flushed a version of the row in its own name and has not been answered, that the sweep
never changes a holder, and that every pending write of the sweep or of a holder finds a row
that exists. Acquirers do not deadlock because what is left to flush is above what is locked
(`LocksAscend`): of those that would wait in a circle, whoever holds the highest awaited key
waits for a higher one. The sweep, and the renewals and releases, are outside that order.

`EventStream_proofs`: `StreamTyped`, `StreamSafe` (`NoSilentLoss`), `StreamFollowsTheLog`
(the refinement of `Replica`). `StreamInv` has a part for the log (numbers without holes up
to the last commit), for the bus and the stream (only what is committed, each part in
order of its own kind), for the connection (what is queued, dropped or asked for again), for
the list of requests (`ListInv`) and for the page: what it has not applied is either still to come
in order, or the page has noticed a gap or will be told to resync. The replay sorts row numbers with
`Sorted`, a definition about which something can be proved; an assumption of `MCEventStream` has TLC
compare it with the library's `SetToSortSeq`. Steps that a page does not see map to stutters of
`Replica`, an application to its next entry, a fetch to its jump, a decision and the answer to a
read of the requests to a change of what is listed, which leaves the position alone.

`Dispatch_proofs`, for any number of ticks at a time: `DispatchTyped`, `WaitsEndByCompletion`
(`WokenByCompletion`) and `LimitsHold` (`WithinLimits`). `WokenInv` says that every flag, and every signal
still to be sent, comes from a task in `completed`. The limits are proved for a class of tasks and
its number (all of them, or those of a role): the tasks that run for the first time fall into shares, one for each tick,
none larger than the limit. A tick's share holds what it has picked; while it plans, it is within what
the tick has counted and picked, unless it counted too many to pick any (`LimitsInv`). A new
count starts a share anew, because whoever was in the old one and still runs has been counted
by then.

`Integration_proofs`, for any number of requests, integrations and attempts: `IntegrationTyped`,
`CommittedWorkIsKept` (`WorkKept`), `MergedIsLanded` (`MergedWasLanded`), `QueueIsFair`
(`FirstComeFirstServed`). `LandedInv` says that a merge that a request is about to commit
is that of its own branch, unless this is `disturbed`, and that the branch has landed when it is marked. `KeptInv` says that what an attempt has committed, but for
those `overlapped`, is on an evidence branch, or on the canonical branch where no rollback under way can miss
it (`Safe`). `LineInv` says that whoever waits behind another has a higher position, that whoever is about to
join was told a higher one than all who were there, and that a row about to be integrated waits
behind nobody, unless it was `requeued` meanwhile. The exceptions are needed: TLC finds each
property violated without its own, by two integrations (18 steps), by two attempts (11 steps), and
by two integrations and two callers (15 steps).

`Services_proofs`, about each service on its own:

- `SupervisionSafe` (`LostWasSilent`): who ends a session has read it, and what the sweep
  holds to be lost was silent when it looked.
- `ReviewSafe` (`AcceptedWithRecord`): where the pipeline is decides which verdicts are on
  record (`Recorded`) and what the decision is (`Decided`).
- `EvidenceSafe` (`EvidenceReadable`), for any number of writers: of a content that is not
  `crowded`, those that are in `put` at once both came before the first blob, and one that is late
  replaces it with nothing that is cut.
- `SlicesAreServed` (`SliceServed`): the bytes served, the cursor and the range described
  agree unless the file was changed meanwhile.
- `WorkIsWithinBounds` (`WorkBounded`): calls are counted by rows of the ledger or by
  the lanes that are about to write one, whoever runs a command holds a slot, but for the leases lost (`lapses`)
  and one for each row taken that had changed since it was read (`overtaken`), an approval belongs to
  the gated command it was asked for.
- `PlansStayWhole` (`PlansWhole`): ids come from one counter, the tasks of a plan or an
  import are of one project and so go together, and an edge goes to a lower id, so no chain of
  edges returns.
- `IndexIsSettled` (`IndexSettles`): a pass that is alone, or the first to overlap others,
  knows the rows of the files it has not come to (`PassKnows`) and leaves right rows behind it
  (`PassSettles`).
- `LimitStaysFair` (`LimitIsFair`): a live bucket has counted what was served since its window
  began, and just before that its client was not served beyond the limit either (`Counted`);
  a span as long as a window meets two windows at most. Refused clients may go on calling here.
- `PromptsStayBounded` (`ContextBounded`): whatever is cut fits if its marker does, and the
  marker of a number of at most `MaxDigits` digits fits by the property's own condition.

Sums are values of a recursive function (`Sums!Total`), so that a step of an induction can be
taken where one is needed; where the library would ask for an induction over an operator, the
proofs take the least counterexample instead.

`Completion_proofs`, about what says that work is complete: `ReportsAreVerified`
(`ReportedWasVerified`: what a report has read of tasks and criteria is never taken back),
`GateIsClear` (`LetThroughWasClear`), `NothingCreepsIn` (`NothingCreeps`, each comparison bounds
the accepted report by the baseline and the order is transitive); `SuitesStayWithinBudget`
(`SuiteWithinBudget`: what the rows have measured is within the run's limit, because a case is
given no more than what is left; a row that was not measured costs a case's limit at most and is
an ERROR, so its report does not pass); `CompletionSafe`
(`CompletionRests`), `ServicesSafe` and `EvidenceStays` carry these and the theorems
about the services over to `MCServices`, where a step of one service leaves the others' variables alone.

Only model-checked: the liveness properties (`RunCloses`, `GateAnswers`, `RequestsAnswered`,
`SentIsShown`, `EventuallyStarted`, `QueueDrains`, `AllocateAnswers`, `MessagesGetThrough`,
`RunsEnd`, `PlacesComeBack`, `ToolCallsEnd`): fairness and ENABLED are out of the prover's reach.
Every safety and action property of the passing runs is a theorem. `CheckpointTruthful`,
`AnnouncedRetries`, `AcquirersNeverDeadlock`, `KeyedOnce`, `RevokedOnlyByTimeout` and the type
invariants are proved but in no run: they gave their place to deeper ones.

## Not modelled, and why

Pure transformations (the parser, embeddings and ranking, search, the patterns
of the secret scanner, metrics parsing, the envelope's validation, failure-text classification, backoff
arithmetic): nothing interleaves. One-row or read-only services (knowledge,
research, toolchains, health, diagnostics, configuration, logging, git routes, the UI's
components). The scripts are smoke tests of a running system.

Left out of the modelled parts: an activity delivery that commits after its own timeout;
`execute_work_activity`, called by tests only; the 30-second difference between a gate's
deadline and its activity's; workflow cancellation and termination, which go around
reconciliation, as the code says of itself; several gateways; the consumer side of the
message broker; drift alerts; page operations of a browser; the configuration of MCP
servers; the chaos faults of the evaluation.

## Plan

1. The evidence that `Review`, `CompletionGate` and `Oversight` rest on, as one chain from the
   attempt to the report, in a composed module.
2. Two pages or two gateways in `EventStream`.
