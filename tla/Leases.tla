------------------------------- MODULE Leases -------------------------------
(***************************************************************************)
(* Resource leases (services/orchestration/leases.py): one row per         *)
(* (kind, key), a TTL instead of a lock.  Every request is a transaction:  *)
(* it reads committed rows, its writes are flushed one by one, each taking *)
(* the lock of its row (or of its unique index entry, for an INSERT) until *)
(* the transaction ends.  An UPDATE waits for the lock, then changes the   *)
(* columns the request changed since it read the row, and only those.      *)
(***************************************************************************)
EXTENDS Naturals, Sequences, FiniteSets, FiniteSetsExt, SequencesExt

CONSTANTS
  NKeys,      \* resources, numbered in (kind, key) order
  Requests,   \* calls of acquire and acquire_many, each by its own holder
  Batches,    \* those of acquire_many
  Wants,      \* the keys each asks for, in the order of the request body
  Anonymous,  \* those without holder_agent_id, as the execution slots
  Sweeper,    \* the transaction of expire_stale
  Nobody,     \* no holder of a row lock
  Ttl,        \* ttl_seconds, the same for all
  MaxTime     \* bound: the clock

Keys      == 1..NKeys
Actors    == Requests \cup {Sweeper}
MaxTries  == 3

ASSUME ActorsAssumption == Sweeper \notin Requests /\ Nobody \notin Actors
ASSUME SizesAssumption  == NKeys \in Nat /\ Ttl \in Nat \ {0} /\ MaxTime \in Nat
ASSUME WantsAssumption  ==
  /\ Batches \subseteq Requests /\ Anonymous \subseteq Requests
  /\ Wants \in [Requests -> Seq(Keys)]
  /\ \A r \in Requests : Wants[r] # <<>> /\ IsInjective(Wants[r])

VARIABLES
  row,      \* committed rows: holder, exp(ires_at), released
  lock,     \* who holds the lock of each row
  draft,    \* the version of the row its lock holder has flushed
  clock,
  pc,       \* progress of each request
  todo,     \* keys it has not flushed yet
  got,      \* the row it read for the next of them
  at,       \* its "now"
  tries,    \* attempts of its retry loop
  answer,   \* what it was told
  until,    \* per key, the expires_at it was told, 0 if it holds no lease
  op,       \* the renewal or release it has read the row for
  sweep     \* rows expire_stale has still to flush

reqVars == <<pc, todo, got, at, tries, answer>>
dbVars  == <<row, lock, draft>>
vars    == <<dbVars, reqVars, clock, until, op, sweep>>

NoRow == [holder |-> Nobody, exp |-> 0, released |-> FALSE]
NoOp  == [kind |-> "none", key |-> 0, now |-> 0]

Exists(r)   == r # NoRow
Active(r, now) == Exists(r) /\ ~r.released /\ now < r.exp

Idle(r) == op[r] = NoOp

-----------------------------------------------------------------------------
(* Transactions.                                                           *)

\* Flush one write: wait for the row lock, then keep it.
Flush(a, k, version) ==
  /\ lock[k] = Nobody
  /\ lock'  = [lock EXCEPT ![k] = a]
  /\ draft' = [draft EXCEPT ![k] = version]
  /\ UNCHANGED row

Unlock(a) ==
  /\ lock'  = [k \in Keys |-> IF lock[k] = a THEN Nobody ELSE lock[k]]
  /\ draft' = [k \in Keys |-> IF lock[k] = a THEN NoRow ELSE draft[k]]

\* Mutant of CommitAll: the writes are flushed, the transaction stays open.
CommitNothing(a) == UNCHANGED dbVars

CommitAll(a) ==
  /\ row' = [k \in Keys |-> IF lock[k] = a THEN draft[k] ELSE row[k]]
  /\ Unlock(a)

\* Mutant of Rollback: what was flushed is kept.
RollbackCommits(a) == CommitAll(a)

Rollback(a) == Unlock(a) /\ UNCHANGED row

-----------------------------------------------------------------------------
(* acquire and acquire_many.                                               *)

\* Deterministic (kind, key) order: of what is left, the first.
Turn(r) == Min(todo[r])

Goto(r, l) == pc' = [pc EXCEPT ![r] = l]

Restart(r, now) ==
  /\ todo' = [todo EXCEPT ![r] = ToSet(Wants[r])]
  /\ got' = [got EXCEPT ![r] = NoRow] /\ at' = [at EXCEPT ![r] = now]
  /\ Goto(r, "read")

\* The call returns (or raises), and what it knew is gone.
Answer(r, a) ==
  /\ answer' = [answer EXCEPT ![r] = a] /\ Goto(r, "done")
  /\ todo' = [todo EXCEPT ![r] = {}] /\ got' = [got EXCEPT ![r] = NoRow]
  /\ at' = [at EXCEPT ![r] = 0] /\ tries' = [tries EXCEPT ![r] = 0]

Begin(r) ==
  /\ pc[r] = "new" /\ Restart(r, clock)
  /\ UNCHANGED <<dbVars, tries, answer, clock, until, op, sweep>>

\* Read the next row: an active one abandons the whole batch.
Read(r) ==
  /\ pc[r] = "read"
  /\ LET found == row[Turn(r)]
     IN  IF Active(found, at[r])
         THEN Rollback(r) /\ Answer(r, "refused")
         ELSE /\ got' = [got EXCEPT ![r] = found] /\ Goto(r, "flush")
              /\ UNCHANGED <<dbVars, todo, at, tries, answer>>
  /\ UNCHANGED <<clock, until, op, sweep>>

\* _apply_holding: released_at is written only if it was set when read.
Holding(r, current) ==
  [holder |-> r, exp |-> at[r] + Ttl,
   released |-> current.released /\ ~got[r].released]

\* Flush the write (by the autoflush of the next read, or by the commit).  An
\* INSERT that meets a row somebody else has inserted is an IntegrityError:
\* roll back and read again, three times in all.
Write(r) ==
  LET k == Turn(r)
  IN  /\ pc[r] = "flush" /\ lock[k] = Nobody
      /\ \/ /\ Exists(got[r]) \/ ~Exists(row[k])
            /\ Flush(r, k, Holding(r, row[k]))
            /\ todo' = [todo EXCEPT ![r] = @ \ {k}]
            /\ Goto(r, IF todo[r] = {k} THEN "commit" ELSE "read")
            /\ UNCHANGED <<got, at, tries, answer>>
         \/ /\ ~Exists(got[r]) /\ Exists(row[k])
            /\ Rollback(r)
            /\ IF tries[r] + 1 < MaxTries
               THEN /\ tries' = [tries EXCEPT ![r] = @ + 1] /\ UNCHANGED answer
                    /\ Restart(r, IF r \in Batches THEN at[r] ELSE clock)
               ELSE Answer(r, "refused")
      /\ UNCHANGED <<clock, until, op, sweep>>

Commit(r) ==
  /\ pc[r] = "commit" /\ CommitAll(r) /\ Answer(r, "granted")
  /\ until' = [until EXCEPT ![r] = [k \in Keys |->
                  IF k \in ToSet(Wants[r]) THEN at[r] + Ttl ELSE 0]]
  /\ UNCHANGED <<clock, op, sweep>>

Acquire(r) == Begin(r) \/ Read(r) \/ Write(r) \/ Commit(r)

-----------------------------------------------------------------------------
(* renew, release and expire_stale: read the row, then write one column.   *)

\* renew: the lease is active, and a caller that names itself is its holder.
ReadRenew(r, k) ==
  /\ Idle(r) /\ until[r][k] # 0
  /\ Active(row[k], clock) /\ (r \in Anonymous \/ row[k].holder = r)
  /\ op' = [op EXCEPT ![r] = [kind |-> "renew", key |-> k, now |-> clock]]
  /\ UNCHANGED <<dbVars, reqVars, clock, until, sweep>>

\* release: the client is done with the lease; the row is written if it is
\* still active and nobody else is known to hold it.
ReadRelease(r, k) ==
  /\ Idle(r) /\ until[r][k] # 0
  /\ until' = [until EXCEPT ![r][k] = 0]
  /\ op' = IF /\ Active(row[k], clock)
              /\ row[k].holder = r \/ r \in Anonymous \/ row[k].holder \in Anonymous
           THEN [op EXCEPT ![r] = [kind |-> "release", key |-> k, now |-> clock]]
           ELSE op
  /\ UNCHANGED <<dbVars, reqVars, clock, sweep>>

WriteOp(r) ==
  LET k == op[r].key
  IN  /\ ~Idle(r) /\ lock[k] = Nobody
      /\ op' = [op EXCEPT ![r] = NoOp]
      /\ \/ /\ op[r].kind = "renew"
            /\ row' = [row EXCEPT ![k].exp = op[r].now + Ttl]
            /\ until' = [until EXCEPT ![r][k] = op[r].now + Ttl]
         \/ /\ op[r].kind = "release"
            /\ row' = [row EXCEPT ![k].released = TRUE]
            /\ UNCHANGED until
      /\ UNCHANGED <<lock, draft, reqVars, clock, sweep>>

Stale == {k \in Keys : Exists(row[k]) /\ ~row[k].released /\ row[k].exp <= clock}

Sweeping == \E k \in Keys : lock[k] = Sweeper

\* expire_stale selects the stale rows; the flush writes them in the order of
\* their (random) primary keys.
ReadStale ==
  /\ sweep = <<>> /\ ~Sweeping /\ Stale # {}
  /\ sweep' \in SetToSeqs(Stale)
  /\ UNCHANGED <<dbVars, reqVars, clock, until, op>>

WriteStale ==
  /\ sweep # <<>>
  /\ LET k == Head(sweep) IN Flush(Sweeper, k, [row[k] EXCEPT !.released = TRUE])
  /\ sweep' = Tail(sweep)
  /\ UNCHANGED <<reqVars, clock, until, op>>

CommitStale ==
  /\ sweep = <<>> /\ Sweeping /\ CommitAll(Sweeper)
  /\ UNCHANGED <<reqVars, clock, until, op, sweep>>

Sweep == ReadStale \/ WriteStale \/ CommitStale

-----------------------------------------------------------------------------
(* The database: who waits for whom, and the deadlock detector, which ends *)
(* one of the transactions of a cycle with an error.                       *)

\* The row a transaction would write next.
Awaits(a, k) ==
  \/ a = Sweeper /\ sweep # <<>> /\ Head(sweep) = k
  \/ a # Sweeper /\ pc[a] = "flush" /\ Turn(a) = k
  \/ a # Sweeper /\ op[a].key = k

WaitsFor(a, b) == \E k \in Keys : Awaits(a, k) /\ lock[k] = b

\* Each waits for one of them and is waited for by one.
Cyclic(S) ==
  /\ S # {}
  /\ \A a \in S : (\E b \in S : WaitsFor(a, b)) /\ (\E b \in S : WaitsFor(b, a))

Abort(a) ==
  /\ \E S \in SUBSET Actors : a \in S /\ Cyclic(S)
  /\ Rollback(a)
  /\ IF a = Sweeper THEN sweep' = <<>> /\ UNCHANGED reqVars
     ELSE Answer(a, "failed") /\ UNCHANGED sweep
  /\ UNCHANGED <<clock, until, op>>

Tick ==
  /\ clock < MaxTime /\ clock' = clock + 1
  /\ UNCHANGED <<dbVars, reqVars, until, op, sweep>>

-----------------------------------------------------------------------------
Init ==
  /\ row = [k \in Keys |-> NoRow] /\ lock = [k \in Keys |-> Nobody]
  /\ draft = [k \in Keys |-> NoRow] /\ clock = 0
  /\ pc = [r \in Requests |-> "new"] /\ todo = [r \in Requests |-> {}]
  /\ got = [r \in Requests |-> NoRow] /\ at = [r \in Requests |-> 0]
  /\ tries = [r \in Requests |-> 0] /\ answer = [r \in Requests |-> "none"]
  /\ until = [r \in Requests |-> [k \in Keys |-> 0]]
  /\ op = [r \in Requests |-> NoOp] /\ sweep = <<>>

Holder(r) == (\E k \in Keys : ReadRenew(r, k) \/ ReadRelease(r, k)) \/ WriteOp(r)

Next ==
  \/ \E r \in Requests : Acquire(r) \/ Holder(r)
  \/ Sweep \/ Tick
  \/ \E a \in Actors : Abort(a)

Spec == Init /\ [][Next]_vars

\* Threads run, transactions end, the database breaks cycles of waiters and
\* grants a row lock in the order it was asked for (hence SF); no client has to
\* come, to renew or to release, and time need not pass.
FairSpec ==
  /\ Spec
  /\ \A r \in Requests : SF_vars(Read(r) \/ Write(r) \/ Commit(r)) /\ WF_vars(Abort(r))
  /\ WF_vars(WriteStale \/ CommitStale)

-----------------------------------------------------------------------------
Row == [holder : Requests \cup {Nobody}, exp : 0..(MaxTime + Ttl), released : BOOLEAN]

\* Every variable keeps to its kind.
TypeOK ==
  /\ row \in [Keys -> Row] /\ lock \in [Keys -> Actors \cup {Nobody}]
  /\ draft \in [Keys -> Row] /\ clock \in 0..MaxTime
  /\ pc \in [Requests -> {"new", "read", "flush", "commit", "done"}]
  /\ todo \in [Requests -> SUBSET Keys]
  /\ got \in [Requests -> Row] /\ at \in [Requests -> 0..MaxTime]
  /\ tries \in [Requests -> 0..MaxTries]
  /\ answer \in [Requests -> {"none", "granted", "refused", "failed"}]
  /\ until \in [Requests -> [Keys -> 0..(MaxTime + Ttl)]]
  /\ op \in [Requests -> [kind : {"none", "renew", "release"}, key : Keys \cup {0},
                         now : 0..MaxTime]]
  /\ ToSet(sweep) \subseteq Keys

\* A batch is all or nothing: a request that was refused, failed or is still
\* under way has left no row in its name, whatever it had flushed.
AllOrNothing == \A k \in Keys : Exists(row[k]) => answer[row[k].holder] = "granted"

\* Acquirers never wait for each other in a circle (spec section 18: the
\* deterministic acquisition order).
AcquirersNeverDeadlock == \A S \in SUBSET Requests : ~Cyclic(S)

\* What a client believes: the expires_at it was told has not come.
Holds(r, k) == clock < until[r][k]

\* Every acquisition that has begun is answered: granted, refused after three
\* tries at most, or failed by the database.
RequestsAnswered ==
  \A r \in Requests : pc[r] = "read" ~> answer[r] # "none"

\* Two clients never hold the same lease at the same time.
MutualExclusion ==
  \A r, s \in Requests, k \in Keys : Holds(r, k) /\ Holds(s, k) => r = s
=============================================================================
