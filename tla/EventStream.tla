---------------------------- MODULE EventStream ----------------------------
(***************************************************************************)
(* The way of one project's events from the transaction that writes them   *)
(* to a browser: the per-project sequence and the bridge (services/core,   *)
(* realtime/bridge.py), the bounded publisher queue of each process        *)
(* (bus.py), JetStream, the gateway's consumer and its bounded queue per   *)
(* connection (gateway.py), the SSE generator with its replay (route.py),  *)
(* retention, and the store of the web UI that applies, deduplicates,      *)
(* notices gaps and fetches everything anew (eventReducer.ts,              *)
(* officeStore.ts, sse.ts).                                                *)
(*                                                                         *)
(* An event is its sequence number.  Owner(s) is the entity whose state    *)
(* event s changes: an agent, a task, or the pending requests of a task.   *)
(* The state of an entity is the number of the last event that changed it. *)
(* The page applies an event of an agent or a task to its copy; one about  *)
(* requests makes it read the list of requests, and the answer replaces    *)
(* the list whenever it lands.  An event that the page's reducer keeps for *)
(* the timeline has no owner among the entities.                           *)
(***************************************************************************)
EXTENDS Naturals, Sequences, FiniteSets, SequencesExt, FiniteSetsExt

CONSTANTS
  Procs,        \* processes that write events, each with a bus of its own
  Gateway,      \* the one of them that serves the stream (the API)
  Entities, Owner(_),
  Requests,     \* the entities that make up the list of pending requests
  Poison,       \* sequence numbers whose envelope the gateway cannot process
  MaxSeq,       \* bound: events written
  MaxFaults,    \* bound: crashes, disconnections, failed fetches, prunings
  MaxReads,     \* bound: reads of the list of requests told apart while they are under way
  BusSize,      \* realtime_publish_queue_size
  QueueSize,    \* realtime_connection_queue_size
  MaxDrops,     \* realtime_slow_client_max_drops
  MaxDeliver,   \* realtime_max_deliver
  Page,         \* rows of a replay (replay_limit)
  ListLimit     \* rows of GET /api/events

ASSUME ProcsAssumption == Gateway \in Procs
ASSUME SizesAssumption ==
  {MaxSeq, MaxFaults, MaxReads, BusSize, QueueSize, MaxDrops, MaxDeliver, Page, ListLimit}
    \subseteq Nat \ {0}
ASSUME RequestsAssumption == Requests \subseteq Entities

Events == 1..MaxSeq

\* RESYNC_REQUIRED, among the frames of a connection.
ResyncFrame == 0

VARIABLES
  counter,    \* event_sequences.last_seq as the next insert will find it
  committed,  \* events whose transaction committed
  rows,       \* those of them the events table still holds
  writer,     \* per process: phase of its transaction, and the event in it
  bus,        \* per process: EventBus._queue
  stream,     \* messages on JetStream the consumer has not acknowledged
  conn,       \* the server's side of the connection: "none", "opening", "live"
  replay,     \* replay frames the generator has still to yield
  queue,      \* Connection.queue
  drops,      \* Connection.drops, counted up to MaxDrops, where the client is dead
  need,       \* resyncRequired
  job,        \* syncJob: "none", "events" or "entities", the call it waits for
  snap,       \* the cursor of a job: the largest number in the list it got
  floor,      \* the last event committed when that list was read
  cursor,     \* lastEventSequence
  mirror,     \* the client's agents, tasks and requests
  asked,      \* reads of the list of requests (refreshHitl) the server has not answered
  answers,    \* answers under way to the page, by the last event about requests in them
  spoiled,    \* history: the list lacks something, and a read of it was lost or overtaken
  faults      \* faults so far

dbVars     == <<counter, committed, rows>>
busVars    == <<writer, bus, stream>>
connVars   == <<conn, replay, queue, drops>>
listVars   == <<asked, answers, spoiled>>
clientVars == <<need, job, snap, floor, cursor, mirror, listVars>>
vars       == <<dbVars, busVars, connVars, clientVars, faults>>

-----------------------------------------------------------------------------
(* Writers: the transaction, the bridge and the bus of a process.          *)

Idle == [phase |-> "idle", seq |-> 0]

\* The upsert of a flush keeps the counter's row locked until the transaction ends.
RowFree == \A p \in Procs : writer[p].phase # "flushed"

\* _assign_project_seq, and the envelope stashed by _on_after_insert.
Insert(p) ==
  /\ writer[p].phase = "idle" /\ RowFree /\ counter < MaxSeq
  /\ counter' = counter + 1
  /\ writer' = [writer EXCEPT ![p] = [phase |-> "flushed", seq |-> counter + 1]]
  /\ UNCHANGED <<committed, rows, bus, stream, connVars, clientVars, faults>>

Commit(p) ==
  /\ writer[p].phase = "flushed"
  /\ committed' = committed \cup {writer[p].seq}
  /\ rows' = rows \cup {writer[p].seq}
  /\ writer' = [writer EXCEPT ![p].phase = "committed"]
  /\ UNCHANGED <<counter, bus, stream, connVars, clientVars, faults>>

\* _on_after_rollback; the counter's row goes back with the rest.
Rollback(p) ==
  /\ writer[p].phase = "flushed"
  /\ counter' = counter - 1
  /\ writer' = [writer EXCEPT ![p] = Idle]
  /\ UNCHANGED <<committed, rows, bus, stream, connVars, clientVars, faults>>

\* _on_after_commit hands the stash to publish_nowait, which drops it when the
\* queue is full.
Hand(p) ==
  /\ writer[p].phase = "committed"
  /\ writer' = [writer EXCEPT ![p] = Idle]
  /\ bus' = IF Len(bus[p]) < BusSize
            THEN [bus EXCEPT ![p] = Append(@, writer[p].seq)] ELSE bus
  /\ UNCHANGED <<dbVars, stream, connVars, clientVars, faults>>

\* A message on the stream; dead: a copy on the dead-letter subject.
Message(s, n, dead) == [seq |-> s, tries |-> n, dead |-> dead]

\* _publish_one; a failed publication drops the live copy.
Drain(p) ==
  /\ bus[p] # <<>>
  /\ bus' = [bus EXCEPT ![p] = Tail(@)]
  /\ \/ stream' = Append(stream, Message(Head(bus[p]), 1, FALSE))
     \/ UNCHANGED stream
  /\ UNCHANGED <<dbVars, writer, connVars, clientVars, faults>>

-----------------------------------------------------------------------------
(* The gateway.                                                            *)

\* _deliver.  _handle_slow_client would put its control frames on the queue it has
\* just found full, in the same turn of the event loop, so they never get there.
Broadcast(s) ==
  IF conn = "none" THEN UNCHANGED <<queue, drops>>
  ELSE IF Len(queue) < QueueSize
  THEN queue' = Append(queue, s) /\ UNCHANGED drops
  ELSE drops' = Min({drops + 1, MaxDrops}) /\ UNCHANGED queue

\* Whatever is not acknowledged comes again, up to max_deliver times.
Redelivered(m) ==
  IF m.tries < MaxDeliver
  THEN Append(Tail(stream), [m EXCEPT !.tries = @ + 1]) ELSE Tail(stream)

\* _dispatch_message of an envelope that decodes: fan out, then acknowledge, and
\* the acknowledgement may be lost (its failure is suppressed).
Dispatch ==
  /\ stream # <<>> /\ Head(stream).seq \notin Poison
  /\ Broadcast(Head(stream).seq)
  /\ \/ stream' = Tail(stream)
     \/ stream' = Redelivered(Head(stream))
  /\ UNCHANGED <<dbVars, writer, bus, conn, replay, clientVars, faults>>

\* _dispatch_message of one that does not: dead-lettered and acknowledged, at once
\* when it is no envelope, after the last delivery when it crashed the processing.
\* The dead letter's subject belongs to the subjects the consumer reads.
DeadLetter ==
  /\ stream # <<>> /\ Head(stream).seq \in Poison
  /\ \/ stream' = Append(Tail(stream), Message(Head(stream).seq, 1, TRUE))
     \/ stream' = Tail(stream)       \* dead_letter_publish_failed
     \/ Head(stream).tries < MaxDeliver /\ stream' = Redelivered(Head(stream))
  /\ UNCHANGED <<dbVars, writer, bus, connVars, clientVars, faults>>

NoConnection == conn' = "none" /\ replay' = <<>> /\ queue' = <<>> /\ drops' = 0

\* register, from the client's fetch with since = cursor.
Open ==
  /\ conn = "none" /\ ~need /\ job = "none"
  /\ conn' = "opening"
  /\ UNCHANGED <<dbVars, busVars, replay, queue, drops, clientVars, faults>>

\* The members of a set of numbers in their order.
Sorted(S) == [i \in 1..Cardinality(S) |-> CHOOSE x \in S : Cardinality({y \in S : y < x}) = i - 1]

\* Mutant of ReplayFrames: a reconnecting page gets live frames only.
ReplayNothing(n) == <<>>

\* The frames of a replay: the first Page rows after n, after a RESYNC_REQUIRED if
\* the oldest row left is not the next one.
ReplayFrames(n) ==
  LET after == Sorted({s \in rows : s > n})
      gone  == rows # {} /\ Min(rows) > n + 1
  IN (IF gone THEN <<ResyncFrame>> ELSE <<>>) \o SubSeq(after, 1, Min({Page, Len(after)}))

\* _replay_rows.  The connection was registered before: what is published from
\* now on waits in its queue.
ReadReplay ==
  /\ conn = "opening"
  /\ conn' = "live" /\ replay' = ReplayFrames(cursor)
  /\ UNCHANGED <<dbVars, busVars, queue, drops, clientVars, faults>>

\* The generator finds the connection dead and ends the response.
DropSlowClient ==
  /\ conn = "live" /\ replay = <<>> /\ drops = MaxDrops
  /\ NoConnection
  /\ UNCHANGED <<dbVars, busVars, clientVars, faults>>

-----------------------------------------------------------------------------
(* The client.                                                             *)

\* resync(): a new job; the live connection is aborted.
StartJob ==
  /\ need' = TRUE /\ job' = "events" /\ snap' = 0 /\ floor' = 0
  /\ NoConnection /\ UNCHANGED <<cursor, mirror, listVars>>

\* The last event of entity e among the first n of the log.
Latest(e, n) == Max({0} \cup {s \in committed : s <= n /\ Owner(s) = e})

\* Mutant of Verdict: a gap is not noticed.
VerdictWithoutGap(s) == IF s = ResyncFrame THEN "gap" ELSE IF s > cursor THEN "apply" ELSE "duplicate"

\* sequenceCheck.
Verdict(s) ==
  IF s = ResyncFrame \/ s > cursor + 1 THEN "gap"
  ELSE IF s <= cursor THEN "duplicate" ELSE "apply"

\* refreshHitl is called.
Ask == asked' = Min({asked + 1, MaxReads})

\* applyEnvelope.  The cursor moves with every event.  An event about requests leaves
\* the list to a read; but an answer (HITL_RESPONDED) takes the task's requests off
\* the list at once, the answered one and any other.
Apply(s) ==
  /\ cursor' = s
  /\ IF Owner(s) \in Requests
     THEN Ask /\ \E shown \in {mirror[Owner(s)], s, 0} : mirror' = [mirror EXCEPT ![Owner(s)] = shown]
     ELSE mirror' = [mirror EXCEPT ![Owner(s)] = s] /\ UNCHANGED asked
  /\ UNCHANGED <<need, job, snap, floor, answers, spoiled>>

\* applyEnvelopeToStore, applyControl.
Take(s) ==
  \/ Verdict(s) = "duplicate" /\ UNCHANGED <<clientVars, conn, drops>>
  \/ Verdict(s) = "apply" /\ Apply(s) /\ UNCHANGED <<conn, drops>>
  \/ Verdict(s) = "gap" /\ StartJob

\* The generator yields the next frame and the client takes it.
Receive ==
  /\ conn = "live"
  /\ \/ /\ replay # <<>> /\ Take(Head(replay))
        /\ Verdict(Head(replay)) # "gap" => replay' = Tail(replay) /\ UNCHANGED queue
     \/ /\ replay = <<>> /\ queue # <<>> /\ drops < MaxDrops
        /\ Take(Head(queue))
        /\ Verdict(Head(queue)) # "gap" => queue' = Tail(queue) /\ UNCHANGED replay
  /\ UNCHANGED <<dbVars, busVars, faults>>

\* The first load, a refresh by the user, the poll of a degraded client, and the
\* loop's new attempt after a failed job.
Refresh ==
  /\ job = "none" /\ StartJob
  /\ UNCHANGED <<dbVars, busVars, faults>>

\* The cursor of a list of events.  The list is ordered by occurred_at, the start of
\* the writing transaction, which need not follow the sequence.
ListCursors ==
  {Max({0} \cup page) : page \in kSubset(Min({ListLimit, Cardinality(rows)}), rows)}

Adopt(n, image) ==
  /\ need' = FALSE /\ job' = "none" /\ snap' = 0 /\ floor' = 0
  /\ cursor' = n /\ mirror' = image
  /\ spoiled' = FALSE /\ UNCHANGED <<asked, answers>>

\* Mutant of Fetch: the entities are read before the events, not after them.
FetchEntitiesFirst ==
  /\ \/ /\ job = "events" /\ job' = "entities"
        /\ mirror' = [e \in Entities |-> Latest(e, MaxSeq)]
        /\ UNCHANGED <<need, snap, floor, cursor, listVars>>
     \/ job = "entities" /\ \E n \in ListCursors : Adopt(n, mirror)
  /\ UNCHANGED <<dbVars, busVars, connVars, faults>>

\* The two awaits of a job: the list of events, then the entities, each read at some
\* moment after the list of events was.
Fetch ==
  /\ \/ /\ job = "events" /\ job' = "entities" /\ snap' \in ListCursors
        /\ floor' = Cardinality(committed)
        /\ UNCHANGED <<need, cursor, mirror, listVars>>
     \/ /\ job = "entities"
        /\ \E read \in [Entities -> floor..Cardinality(committed)] :
             Adopt(snap, [e \in Entities |-> Latest(e, read[e])])
  /\ UNCHANGED <<dbVars, busVars, connVars, faults>>

\* The user decides a request or has a task reviewed that the page shows, which reads
\* the list once more.
DecideOrReview ==
  /\ \E e \in Entities : mirror[e] > 0
  /\ Ask
  /\ UNCHANGED <<dbVars, busVars, connVars, need, job, snap, floor, cursor, mirror, answers, spoiled, faults>>

\* The server reads the list of requests.
AnswerRead ==
  /\ asked > 0 /\ asked' = asked - 1
  /\ LET last == Max({0} \cup {s \in committed : Owner(s) \in Requests})
     IN answers' = [answers EXCEPT ![last] = Min({@ + 1, MaxReads})]
  /\ UNCHANGED <<dbVars, busVars, connVars, need, job, snap, floor, cursor, mirror, spoiled, faults>>

\* A list that lacks an event the cursor has passed.
Lacks(list) == \E s \in committed : s <= cursor /\ Owner(s) \in Requests /\ list[Owner(s)] < s

\* An answer lands, whatever landed before it, and replaces the list.
LandRead ==
  /\ \E n \in 0..MaxSeq :
       /\ answers[n] > 0 /\ answers' = [answers EXCEPT ![n] = @ - 1]
       /\ mirror' = [e \in Entities |-> IF e \in Requests THEN Latest(e, n) ELSE mirror[e]]
       /\ spoiled' = (Lacks(mirror') /\ (spoiled \/ \E e \in Requests : Latest(e, n) < mirror[e]))
  /\ UNCHANGED <<dbVars, busVars, connVars, need, job, snap, floor, cursor, asked, faults>>

-----------------------------------------------------------------------------
(* Faults.                                                                 *)

Fault == faults < MaxFaults /\ faults' = faults + 1

\* A process dies: an open transaction is rolled back, a stash and a bus are lost,
\* and with the API its connections.
CrashProc(p) ==
  /\ Fault
  /\ counter' = IF writer[p].phase = "flushed" THEN counter - 1 ELSE counter
  /\ writer' = [writer EXCEPT ![p] = Idle]
  /\ bus' = [bus EXCEPT ![p] = <<>>]
  /\ IF p = Gateway THEN NoConnection ELSE UNCHANGED connVars
  /\ UNCHANGED <<committed, rows, stream, clientVars>>

\* The network between browser and API breaks the stream.
Disconnect ==
  /\ conn # "none" /\ Fault /\ NoConnection
  /\ UNCHANGED <<dbVars, busVars, clientVars>>

\* A call of a job fails: resyncRequired stays.
FailFetch ==
  /\ job # "none" /\ Fault /\ job' = "none" /\ snap' = 0 /\ floor' = 0
  /\ UNCHANGED <<dbVars, busVars, connVars, need, cursor, mirror, listVars>>

\* A read of the list fails on its way or on its way back, and nobody is told.
FailRead ==
  /\ Fault
  /\ \/ asked > 0 /\ asked' = asked - 1 /\ UNCHANGED answers
     \/ /\ UNCHANGED asked
        /\ \E n \in 0..MaxSeq : answers[n] > 0 /\ answers' = [answers EXCEPT ![n] = @ - 1]
  /\ spoiled' = (spoiled \/ Lacks(mirror))
  /\ UNCHANGED <<dbVars, busVars, connVars, need, job, snap, floor, cursor, mirror>>

\* A batch of prune_events: rows older than the cutoff, in no order.
Prune ==
  /\ Fault
  /\ \E gone \in SUBSET rows : gone # {} /\ rows' = rows \ gone
  /\ UNCHANGED <<counter, committed, busVars, connVars, clientVars>>

-----------------------------------------------------------------------------
Init ==
  /\ counter = 0 /\ committed = {} /\ rows = {}
  /\ writer = [p \in Procs |-> Idle] /\ bus = [p \in Procs |-> <<>>] /\ stream = <<>>
  /\ conn = "none" /\ replay = <<>> /\ queue = <<>> /\ drops = 0
  /\ need = TRUE /\ job = "events" /\ snap = 0 /\ floor = 0 /\ cursor = 0
  /\ mirror = [e \in Entities |-> 0]
  /\ asked = 0 /\ answers = [n \in 0..MaxSeq |-> 0] /\ spoiled = FALSE
  /\ faults = 0

Next ==
  \/ \E p \in Procs : Insert(p) \/ Commit(p) \/ Rollback(p) \/ Hand(p) \/ Drain(p) \/ CrashProc(p)
  \/ Dispatch \/ DeadLetter \/ Open \/ ReadReplay \/ DropSlowClient
  \/ Receive \/ Refresh \/ Fetch \/ DecideOrReview \/ AnswerRead \/ LandRead
  \/ Disconnect \/ FailFetch \/ FailRead \/ Prune

Spec == Init /\ [][Next]_vars

\* The event loops of the gateway and of the page go on, and a page that must fetch
\* tries again, and a read of the list is answered or fails; nobody has to write,
\* publish or deliver.
FairSpec ==
  /\ Spec
  /\ WF_vars(Open) /\ WF_vars(ReadReplay) /\ WF_vars(DropSlowClient) /\ WF_vars(Receive)
  /\ WF_vars(need /\ Refresh) /\ WF_vars(Fetch)
  /\ WF_vars(AnswerRead) /\ WF_vars(LandRead)

-----------------------------------------------------------------------------
(* Properties.                                                             *)

TypeOK ==
  /\ counter \in 0..MaxSeq /\ committed \subseteq Events /\ rows \subseteq committed
  /\ writer \in [Procs -> [phase : {"idle", "flushed", "committed"}, seq : 0..MaxSeq]]
  /\ bus \in [Procs -> Seq(Events)] /\ \A p \in Procs : Len(bus[p]) <= BusSize
  /\ stream \in Seq([seq : Events, tries : 1..MaxDeliver, dead : BOOLEAN])
  /\ conn \in {"none", "opening", "live"}
  /\ replay \in Seq(Events \cup {ResyncFrame}) /\ queue \in Seq(Events)
  /\ Len(queue) <= QueueSize /\ drops \in 0..MaxDrops
  /\ need \in BOOLEAN /\ job \in {"none", "events", "entities"}
  /\ snap \in 0..MaxSeq /\ floor \in 0..MaxSeq /\ cursor \in 0..MaxSeq /\ mirror \in [Entities -> 0..MaxSeq]
  /\ asked \in 0..MaxReads /\ answers \in [0..MaxSeq -> 0..MaxReads] /\ spoiled \in BOOLEAN
  /\ faults \in 0..MaxFaults

\* Event s shows in the page, as what its entity was then or has become since.
Shows(s) == Owner(s) \in Entities => mirror[Owner(s)] >= s

\* A read of the list of requests is under way that will show event s.
ReadComes(s) == asked > 0 \/ \E n \in s..MaxSeq : answers[n] > 0

\* While the page does not know that it must fetch, nothing it missed is at or below
\* its cursor: of each agent and task it shows a state at least as new as the last
\* committed event up to there, and so the requests, unless a read of the list is
\* under way that will show them, or the page has lost a read, or an older answer
\* has landed over a newer one, and no read since has made up for it
\* (officeStore.ts:346: the cursor is captured before the entities are read;
\* models/core/events.py: commits follow the sequence; officeStore.ts:129-137).
NoSilentLoss ==
  ~need => \A s \in committed :
             s <= cursor => Shows(s) \/ (Owner(s) \in Requests /\ (ReadComes(s) \/ spoiled))

\* What one would expect of the list of requests, and does not hold: reads are not put
\* in order, and nothing follows one that fails but "the next resync"
\* (officeStore.ts:135), which nothing calls for.
RequestsShow ==
  ~need => \A s \in committed : s <= cursor /\ Owner(s) \in Requests => Shows(s) \/ ReadComes(s)

\* The page implements the abstract replica: it follows the committed events one by
\* one or fetches; only the list of requests comes and goes beside them, in a state
\* it once had.  The log is what has committed: commits follow the sequence.
AsReplica == INSTANCE Replica WITH
  head <- Cardinality(committed), trusted <- ~need, position <- cursor, copy <- mirror,
  Listed <- Requests

FollowsTheLog == AsReplica!Spec

\* Event s is on its way to the page.
Sent(s) == conn # "none" /\ (Contains(queue, s) \/ Contains(replay, s))

\* An event that got as far as the page's connection shows in the page in the end,
\* though the queue overflows, the page is cut off or its fetches fail, unless
\* retention has removed it meanwhile (route.py:163 sees no gap before no row) or it
\* is about a request and the reads of the list were lost or overtaken.
SentIsShown ==
  \A s \in Events :
    Sent(s) ~> (Shows(s) \/ s \notin rows \/ (Owner(s) \in Requests /\ spoiled))
=============================================================================
