--------------------------- MODULE Leases_proofs ---------------------------
(***************************************************************************)
(* Proofs about Leases for any resources, requests and batches: a batch is *)
(* all or nothing, acquirers never deadlock, and every variable keeps its  *)
(* kind.  The first argument is that a row exists, or is about to, only in *)
(* the name of a request that owns it: what is flushed under a row lock    *)
(* carries the name of the request that holds the lock, and whoever holds  *)
(* a lock has not been answered.                                           *)
(***************************************************************************)
EXTENDS Leases, FiniteSetTheorems, WellFoundedInduction, TLAPS

Version == [holder : Requests \cup {Nobody}, exp : Nat, released : BOOLEAN]

\* What the argument needs of the kinds of the variables.
Kinds ==
  /\ row \in [Keys -> Version] /\ lock \in [Keys -> Actors \cup {Nobody}]
  /\ draft \in [Keys -> Version] /\ clock \in Nat
  /\ pc \in [Requests -> {"new", "read", "flush", "commit", "done"}]
  /\ at \in [Requests -> Nat]
  /\ answer \in [Requests -> {"none", "granted", "refused", "failed"}]
  /\ op \in [Requests -> [kind : {"none", "renew", "release"}, key : Keys \cup {0}, now : Nat]]
  /\ sweep \in Seq(Keys)

\* Who holds a lock has flushed a version in its own name, and is under way.
LocksAreOwned ==
  \A k \in Keys :
    /\ lock[k] \in Requests => draft[k].holder = lock[k] /\ pc[lock[k]] \in {"read", "flush", "commit"}
    /\ lock[k] = Sweeper => Exists(row[k]) /\ draft[k].holder = row[k].holder

Unanswered == \A r \in Requests : pc[r] # "done" => answer[r] = "none"

\* Every existing row belongs to a request that was told so.
RowsAreOwned ==
  \A k \in Keys : Exists(row[k]) => row[k].holder \in Requests /\ answer[row[k].holder] = "granted"

\* What is about to be rewritten exists.
WritesFindRows ==
  /\ \A i \in 1..Len(sweep) : Exists(row[sweep[i]])
  /\ \A r \in Requests : ~Idle(r) => op[r].key \in Keys /\ Exists(row[op[r].key])

Inv == Kinds /\ LocksAreOwned /\ Unanswered /\ RowsAreOwned /\ WritesFindRows

USE ActorsAssumption, SizesAssumption

-----------------------------------------------------------------------------
LEMMA InitInv == Init => Inv
<1> SUFFICES ASSUME Init PROVE Inv
  OBVIOUS
<1> USE DEF Init, NoRow, NoOp
<1>1. Kinds          BY DEF Kinds, Version
<1>2. LocksAreOwned  BY DEF LocksAreOwned, Actors
<1>3. Unanswered     BY DEF Unanswered
<1>4. RowsAreOwned   BY DEF RowsAreOwned, Exists
<1>5. WritesFindRows BY DEF WritesFindRows, Idle
<1> QED BY <1>1, <1>2, <1>3, <1>4, <1>5 DEF Inv

-----------------------------------------------------------------------------
(* Transactions.                                                           *)

\* The kinds of a row and a lock, taken apart.
LEMMA RowKinds ==
  ASSUME Inv, NEW k \in Keys
  PROVE  /\ row[k] \in Version /\ draft[k] \in Version
         /\ lock[k] \in Requests \cup {Sweeper, Nobody}
  BY DEF Inv, Kinds, Actors

\* What a lock holder has flushed would exist if it committed.
LEMMA DraftsExist ==
  ASSUME Inv, NEW k \in Keys, lock[k] # Nobody
  PROVE  /\ Exists(draft[k]) /\ draft[k].holder \in Requests
         /\ lock[k] \in Requests => draft[k].holder = lock[k]
         /\ lock[k] = Sweeper => draft[k].holder = row[k].holder /\ Exists(row[k])
<1>1. lock[k] \in Requests \/ lock[k] = Sweeper
  BY RowKinds
<1>2. draft[k].holder \in Requests
  BY <1>1 DEF Inv, LocksAreOwned, RowsAreOwned
<1>3. NoRow.holder = Nobody /\ Nobody \notin Requests
  BY DEF NoRow, Actors
<1> QED BY <1>1, <1>2, <1>3 DEF Inv, LocksAreOwned, Exists

LEMMA NoRowKind == NoRow \in Version
  BY DEF NoRow, Version

\* A transaction that ends with nothing written: its locks are free, its row
\* versions are gone, the rest of the database is as it was.
LEMMA RolledBack ==
  ASSUME Inv, NEW a \in Actors, Rollback(a)
  PROVE  /\ row' = row
         /\ lock' \in [Keys -> Actors \cup {Nobody}] /\ draft' \in [Keys -> Version]
         /\ \A k \in Keys : lock'[k] # Nobody =>
              lock'[k] = lock[k] /\ draft'[k] = draft[k] /\ lock[k] # a
  BY NoRowKind DEF Rollback, Unlock, Inv, Kinds

LEMMA Committed ==
  ASSUME Inv, NEW a \in Actors, CommitAll(a)
  PROVE  /\ row' \in [Keys -> Version]
         /\ lock' \in [Keys -> Actors \cup {Nobody}] /\ draft' \in [Keys -> Version]
         /\ \A k \in Keys : lock'[k] # Nobody =>
              lock'[k] = lock[k] /\ draft'[k] = draft[k] /\ lock[k] # a
         /\ \A k \in Keys : row'[k] = IF lock[k] = a THEN draft[k] ELSE row[k]
         /\ \A k \in Keys : Exists(row[k]) => Exists(row'[k])
<1>1. \A k \in Keys : lock[k] = a => Exists(draft[k])
  BY DraftsExist DEF Actors
<1> QED BY <1>1, NoRowKind DEF CommitAll, Unlock, Inv, Kinds

\* The claims about the queues of writes only depend on which rows exist.
LEMMA StillFound ==
  ASSUME Inv, UNCHANGED <<op, sweep>>, \A k \in Keys : Exists(row[k]) => Exists(row'[k])
  PROVE  WritesFindRows'
<1>1. sweep \in Seq(Keys)
  BY DEF Inv, Kinds
<1>2. \A i \in 1..Len(sweep) : sweep[i] \in Keys
  BY <1>1
<1> QED BY <1>2 DEF Inv, WritesFindRows, Idle

-----------------------------------------------------------------------------
(* acquire and acquire_many.                                               *)

\* What a request flushes under a lock carries its name.
LEMMA RequestFlushes ==
  ASSUME Inv, NEW r \in Requests, NEW k, NEW v \in Version, v.holder = r,
         Flush(r, k, v), pc[r] \in {"read", "flush", "commit"},
         pc' \in [Requests -> {"new", "read", "flush", "commit", "done"}],
         pc'[r] \in {"read", "flush", "commit"}, \A s \in Requests \ {r} : pc'[s] = pc[s],
         UNCHANGED <<got, at, tries, answer, clock, until, op, sweep>>
  PROVE  Inv'
<1>1. Kinds'
  BY DEF Inv, Kinds, Flush, Actors
<1>2. LocksAreOwned'
  BY DEF Inv, Kinds, LocksAreOwned, Flush, Actors
<1>3. Unanswered'
  BY DEF Inv, Unanswered
<1>4. RowsAreOwned'
  BY DEF Inv, RowsAreOwned, Flush
<1>5. WritesFindRows'
  BY StillFound DEF Flush
<1> QED BY <1>1, <1>2, <1>3, <1>4, <1>5 DEF Inv

\* Rolling back to start again, or to be told that it did not work out.
LEMMA RequestGivesUp ==
  ASSUME Inv, NEW r \in Requests, Rollback(r), pc[r] # "done",
         pc' \in [Requests -> {"new", "read", "flush", "commit", "done"}],
         answer' \in [Requests -> {"none", "granted", "refused", "failed"}],
         at' \in [Requests -> Nat],
         \A s \in Requests \ {r} : pc'[s] = pc[s] /\ answer'[s] = answer[s],
         pc'[r] # "done" => answer'[r] = answer[r],
         UNCHANGED <<clock, op, sweep>>
  PROVE  Inv'
<1>1. Kinds'
  BY RolledBack DEF Inv, Kinds, Actors
<1>2. LocksAreOwned'
  <2>1. SUFFICES ASSUME NEW k \in Keys, lock'[k] # Nobody
                 PROVE  /\ lock'[k] \in Requests =>
                             draft'[k].holder = lock'[k] /\ pc'[lock'[k]] \in {"read", "flush", "commit"}
                        /\ lock'[k] = Sweeper => Exists(row'[k]) /\ draft'[k].holder = row'[k].holder
    BY DEF LocksAreOwned, Exists, Actors
  <2>2. lock'[k] = lock[k] /\ draft'[k] = draft[k] /\ row'[k] = row[k] /\ lock[k] # r
    BY <2>1, RolledBack DEF Actors
  <2> QED BY <2>2 DEF Inv, LocksAreOwned, Exists
<1>3. Unanswered'
  BY DEF Inv, Unanswered
<1>4. answer[r] = "none"
  BY DEF Inv, Unanswered
<1>5. RowsAreOwned'
  BY <1>4, RolledBack DEF Inv, RowsAreOwned, Actors
<1>6. WritesFindRows'
  BY StillFound, RolledBack DEF Actors
<1> QED BY <1>1, <1>2, <1>3, <1>5, <1>6 DEF Inv

LEMMA AcquireInv ==
  ASSUME Inv, NEW r \in Requests, Acquire(r)
  PROVE  Inv'
<1> USE DEF Goto, Answer, Restart
<1>k. /\ pc \in [Requests -> {"new", "read", "flush", "commit", "done"}]
      /\ answer \in [Requests -> {"none", "granted", "refused", "failed"}]
      /\ at \in [Requests -> Nat] /\ clock \in Nat /\ row \in [Keys -> Version]
  BY DEF Inv, Kinds
<1>1. CASE Begin(r)
  <2>1. Kinds'
    BY <1>1, <1>k DEF Begin, Inv, Kinds, dbVars
  <2>2. LocksAreOwned'
    BY <1>1, <1>k DEF Begin, Inv, LocksAreOwned, dbVars
  <2>3. Unanswered'
    BY <1>1, <1>k DEF Begin, Inv, Unanswered
  <2>4. RowsAreOwned' /\ WritesFindRows'
    BY <1>1 DEF Begin, Inv, RowsAreOwned, WritesFindRows, dbVars, Idle
  <2> QED BY <2>1, <2>2, <2>3, <2>4 DEF Inv
<1>2. CASE Read(r)
  <2>1. CASE Rollback(r) /\ Answer(r, "refused")
    BY <1>2, <1>k, <2>1, RequestGivesUp DEF Read
  <2>2. CASE UNCHANGED <<dbVars, todo, at, tries, answer>> /\ Goto(r, "flush")
    <3> USE <1>2, <1>k, <2>2 DEF Read, dbVars
    <3>1. Kinds'
      BY DEF Inv, Kinds
    <3>2. LocksAreOwned'
      BY DEF Inv, LocksAreOwned
    <3>3. Unanswered'
      BY DEF Inv, Unanswered
    <3>4. RowsAreOwned' /\ WritesFindRows'
      BY DEF Inv, RowsAreOwned, WritesFindRows, Idle
    <3> QED BY <3>1, <3>2, <3>3, <3>4 DEF Inv
  <2> QED BY <1>2, <2>1, <2>2 DEF Read
<1>3. CASE Write(r)
  <2> DEFINE k == Turn(r)
  <2>a. pc[r] = "flush" /\ UNCHANGED <<clock, until, op, sweep>>
    BY <1>3 DEF Write
  <2>1. CASE /\ Flush(r, k, Holding(r, row[k])) /\ UNCHANGED <<got, at, tries, answer>>
             /\ Goto(r, IF todo[r] = {k} THEN "commit" ELSE "read")
    <3>1. Holding(r, row[k]) \in Version /\ Holding(r, row[k]).holder = r
      BY <1>k DEF Holding, Version
    <3>2. /\ pc' \in [Requests -> {"new", "read", "flush", "commit", "done"}]
          /\ pc'[r] \in {"read", "flush", "commit"}
          /\ \A s \in Requests \ {r} : pc'[s] = pc[s]
      BY <1>k, <2>1
    <3> HIDE DEF k
    <3> QED BY <2>1, <2>a, <3>1, <3>2, RequestFlushes
  <2>2. CASE /\ Rollback(r)
             /\ \/ UNCHANGED answer /\ Restart(r, IF r \in Batches THEN at[r] ELSE clock)
                \/ Answer(r, "refused")
    <3>1. /\ pc' \in [Requests -> {"new", "read", "flush", "commit", "done"}]
          /\ answer' \in [Requests -> {"none", "granted", "refused", "failed"}]
          /\ at' \in [Requests -> Nat]
          /\ \A s \in Requests \ {r} : pc'[s] = pc[s] /\ answer'[s] = answer[s]
          /\ pc'[r] # "done" => answer'[r] = answer[r]
      <4>1. CASE UNCHANGED answer /\ Restart(r, IF r \in Batches THEN at[r] ELSE clock)
        <5>1. (IF r \in Batches THEN at[r] ELSE clock) \in Nat
          BY <1>k
        <5> QED BY <1>k, <4>1, <5>1
      <4>2. CASE Answer(r, "refused")
        BY <1>k, <4>2
      <4> QED BY <2>2, <4>1, <4>2
    <3> QED BY <2>a, <2>2, <3>1, RequestGivesUp
  <2> QED BY <1>3, <2>1, <2>2 DEF Write
<1>4. CASE Commit(r)
  <2> USE <1>4, <1>k DEF Commit
  <2>1. Kinds'
    <3>1. /\ pc' \in [Requests -> {"new", "read", "flush", "commit", "done"}]
          /\ answer' \in [Requests -> {"none", "granted", "refused", "failed"}]
          /\ at' \in [Requests -> Nat]
      OBVIOUS
    <3>2. CommitAll(r) /\ UNCHANGED <<clock, op, sweep>>
      OBVIOUS
    <3> HIDE DEF Commit, Goto, Answer, Restart
    <3> QED BY <3>1, <3>2, Committed DEF Inv, Kinds, Actors
  <2>2. LocksAreOwned'
    <3>1. CommitAll(r) /\ \A s \in Requests : s # r => pc'[s] = pc[s]
      OBVIOUS
    <3> HIDE DEF Commit, Goto, Answer, Restart
    <3>2. SUFFICES ASSUME NEW k \in Keys, lock'[k] # Nobody
                   PROVE  /\ lock'[k] \in Requests =>
                               draft'[k].holder = lock'[k] /\ pc'[lock'[k]] \in {"read", "flush", "commit"}
                          /\ lock'[k] = Sweeper => Exists(row'[k]) /\ draft'[k].holder = row'[k].holder
      BY DEF LocksAreOwned, Exists, Actors
    <3>3. lock'[k] = lock[k] /\ draft'[k] = draft[k] /\ row'[k] = row[k] /\ lock[k] # r
      BY <3>1, <3>2, Committed DEF Actors
    <3> QED BY <3>1, <3>3 DEF Inv, LocksAreOwned, Exists
  <2>3. Unanswered'
    BY DEF Inv, Unanswered
  <2>4. RowsAreOwned'
    BY Committed, DraftsExist, SMTT(30) DEF Inv, RowsAreOwned, Actors
  <2>5. WritesFindRows'
    BY StillFound, Committed DEF Actors
  <2> QED BY <2>1, <2>2, <2>3, <2>4, <2>5 DEF Inv
<1> QED BY <1>1, <1>2, <1>3, <1>4 DEF Acquire

-----------------------------------------------------------------------------
(* renew, release, expire_stale and the deadlock detector.                 *)

LEMMA HolderInv ==
  ASSUME Inv, NEW r \in Requests, Holder(r)
  PROVE  Inv'
<1>k. /\ row \in [Keys -> Version] /\ clock \in Nat
      /\ op \in [Requests -> [kind : {"none", "renew", "release"}, key : Keys \cup {0}, now : Nat]]
  BY DEF Inv, Kinds
<1>1. ASSUME NEW k \in Keys, ReadRenew(r, k) \/ ReadRelease(r, k)
      PROVE  Inv'
  <2>1. /\ UNCHANGED <<dbVars, reqVars, clock, sweep>>
        /\ \/ UNCHANGED op
           \/ /\ Exists(row[k])
              /\ \E kind \in {"renew", "release"} :
                   op' = [op EXCEPT ![r] = [kind |-> kind, key |-> k, now |-> clock]]
    BY <1>1 DEF ReadRenew, ReadRelease, Active
  <2>a. \A kind \in {"renew", "release"} :
          [kind |-> kind, key |-> k, now |-> clock]
            \in [kind : {"none", "renew", "release"}, key : Keys \cup {0}, now : Nat]
    BY <1>k
  <2>b. op' \in [Requests -> [kind : {"none", "renew", "release"}, key : Keys \cup {0}, now : Nat]]
    BY <2>1, <2>a, <1>k
  <2>2. Kinds'
    BY <2>1, <2>b DEF Inv, Kinds, dbVars, reqVars
  <2>3. LocksAreOwned' /\ Unanswered' /\ RowsAreOwned'
    BY <2>1 DEF Inv, LocksAreOwned, Unanswered, RowsAreOwned, dbVars, reqVars
  <2>4. WritesFindRows'
    BY <2>1, <1>k DEF Inv, WritesFindRows, dbVars, Idle
  <2> QED BY <2>2, <2>3, <2>4 DEF Inv
<1>2. CASE WriteOp(r)
  <2> DEFINE k == op[r].key
  <2>1. /\ k \in Keys /\ Exists(row[k]) /\ lock[k] = Nobody
        /\ UNCHANGED <<lock, draft, reqVars, clock, sweep>>
        /\ op' = [op EXCEPT ![r] = NoOp]
    BY <1>2 DEF WriteOp, Inv, WritesFindRows
  <2>2. \E v \in Version : row' = [row EXCEPT ![k] = v] /\ v.holder = row[k].holder
    <3>1. CASE row' = [row EXCEPT ![k].exp = op[r].now + Ttl]
      <4>1. [row[k] EXCEPT !.exp = op[r].now + Ttl] \in Version
        BY <1>k, <2>1 DEF Version
      <4> QED BY <1>k, <2>1, <3>1, <4>1 DEF Version
    <3>2. CASE row' = [row EXCEPT ![k].released = TRUE]
      <4>1. [row[k] EXCEPT !.released = TRUE] \in Version
        BY <1>k, <2>1, ZenonT(40) DEF Version
      <4> QED BY <1>k, <2>1, <3>2, <4>1 DEF Version
    <3> QED BY <1>2, <3>1, <3>2 DEF WriteOp
  <2>3. PICK v \in Version : row' = [row EXCEPT ![k] = v] /\ v.holder = row[k].holder
    BY <2>2
  <2>4. row[k].holder \in Requests /\ NoRow.holder = Nobody
    BY <2>1 DEF Inv, RowsAreOwned, NoRow
  <2>5. Exists(v)
    BY <2>3, <2>4 DEF Exists, Actors
  <2> HIDE DEF k
  <2>6. Kinds'
    BY <1>k, <2>1, <2>3 DEF Inv, Kinds, reqVars, NoOp
  <2>7. LocksAreOwned' /\ Unanswered'
    BY <1>k, <2>1, <2>3, <2>5 DEF Inv, LocksAreOwned, Unanswered, reqVars
  <2>8. RowsAreOwned'
    BY <1>k, <2>1, <2>3, <2>4 DEF Inv, RowsAreOwned, reqVars
  <2>9. \A j \in Keys : Exists(row[j]) => Exists(row'[j])
    BY <1>k, <2>1, <2>3, <2>5
  <2>10. WritesFindRows'
    <3>1. \A i \in 1..Len(sweep) : sweep[i] \in Keys
      BY DEF Inv, Kinds
    <3> QED BY <1>k, <2>1, <2>9, <3>1 DEF Inv, WritesFindRows, Idle
  <2> QED BY <2>6, <2>7, <2>8, <2>10 DEF Inv
<1> QED BY <1>1, <1>2 DEF Holder

\* What expire_stale selects exists, and stays.
LEMMA SelectedExist ==
  ASSUME Inv, NEW s \in SetToSeqs(Stale)
  PROVE  s \in Seq(Keys) /\ \A i \in 1..Len(s) : Exists(row[s[i]])
<1>1. IsFiniteSet(Stale)
  <2>1. IsFiniteSet(Keys)
    BY FS_Interval DEF Keys
  <2> QED BY <2>1, FS_Subset DEF Stale
<1>2. Cardinality(Stale) \in Nat
  BY <1>1, FS_CardinalityType
<1>3. s \in [1..Cardinality(Stale) -> Stale]
  BY DEF SetToSeqs
<1>4. \A i \in 1..Cardinality(Stale) : s[i] \in Keys /\ Exists(row[s[i]])
  BY <1>3 DEF Stale
<1>5. s \in [1..Cardinality(Stale) -> Keys]
  BY <1>3, <1>4
<1>6. s \in Seq(Keys) /\ Len(s) = Cardinality(Stale)
  BY <1>2, <1>5
<1> QED BY <1>4, <1>6

LEMMA SweepInv == Inv /\ Sweep => Inv'
<1> SUFFICES ASSUME Inv, Sweep PROVE Inv'
  OBVIOUS
<1>1. CASE ReadStale
  <2>1. WritesFindRows'
    BY <1>1, SelectedExist DEF ReadStale, Inv, WritesFindRows, dbVars, Idle
  <2>2. Kinds'
    BY <1>1, SelectedExist DEF ReadStale, Inv, Kinds, dbVars, reqVars
  <2>3. LocksAreOwned' /\ Unanswered' /\ RowsAreOwned'
    BY <1>1 DEF ReadStale, Inv, LocksAreOwned, Unanswered, RowsAreOwned, dbVars, reqVars
  <2> QED BY <2>1, <2>2, <2>3 DEF Inv
<1>2. CASE WriteStale
  <2> DEFINE k == Head(sweep)
             v == [row[k] EXCEPT !.released = TRUE]
  <2>1. sweep \in Seq(Keys) /\ sweep # <<>>
    BY <1>2 DEF WriteStale, Inv, Kinds
  <2>2. k \in Keys /\ Exists(row[k])
    BY <2>1 DEF Inv, WritesFindRows
  <2>3. v \in Version /\ v.holder = row[k].holder
    <3> HIDE DEF k
    <3>1. row[k] \in Version
      BY <2>2, RowKinds
    <3> QED BY <3>1 DEF Version
  <2>4. Flush(Sweeper, k, v) /\ sweep' = Tail(sweep) /\ UNCHANGED <<reqVars, clock, op>>
    BY <1>2 DEF WriteStale
  <2>5. /\ Tail(sweep) \in Seq(Keys) /\ Len(Tail(sweep)) = Len(sweep) - 1
        /\ \A i \in 1..Len(Tail(sweep)) : Tail(sweep)[i] = sweep[i + 1] /\ i + 1 \in 1..Len(sweep)
    BY <2>1
  <2> HIDE DEF k, v
  <2>6. Kinds'
    BY <2>2, <2>3, <2>4, <2>5 DEF Inv, Kinds, Flush, Actors, reqVars
  <2>7. LocksAreOwned'
    BY <2>2, <2>3, <2>4 DEF Inv, Kinds, LocksAreOwned, Flush, Actors, reqVars
  <2>8. Unanswered' /\ RowsAreOwned'
    BY <2>4 DEF Inv, Unanswered, RowsAreOwned, Flush, reqVars
  <2>9. WritesFindRows'
    BY <2>4, <2>5 DEF Inv, WritesFindRows, Flush, Idle
  <2> QED BY <2>6, <2>7, <2>8, <2>9 DEF Inv
<1>3. CASE CommitStale
  <2>1. CommitAll(Sweeper) /\ UNCHANGED <<reqVars, clock, op, sweep>>
    BY <1>3 DEF CommitStale
  <2>2. Kinds'
    BY <2>1, Committed DEF Inv, Kinds, Actors, reqVars
  <2>3. LocksAreOwned'
    <3>1. SUFFICES ASSUME NEW k \in Keys, lock'[k] # Nobody
                   PROVE  /\ lock'[k] \in Requests => draft'[k].holder = lock'[k]
                                /\ pc[lock'[k]] \in {"read", "flush", "commit"}
                          /\ lock'[k] # Sweeper
      BY <2>1 DEF LocksAreOwned, Actors, reqVars
    <3>2. lock'[k] = lock[k] /\ draft'[k] = draft[k] /\ lock[k] # Sweeper
      BY <2>1, <3>1, Committed DEF Actors
    <3> QED BY <3>2 DEF Inv, LocksAreOwned
  <2>4. RowsAreOwned'
    BY <2>1, Committed, DraftsExist DEF Inv, RowsAreOwned, Actors, reqVars
  <2>5. Unanswered' /\ WritesFindRows'
    BY <2>1, StillFound, Committed DEF Inv, Unanswered, Actors, reqVars
  <2> QED BY <2>2, <2>3, <2>4, <2>5 DEF Inv
<1> QED BY <1>1, <1>2, <1>3 DEF Sweep

\* The detector only ends who is waited for: a lock holder, still under way.
LEMMA AbortInv ==
  ASSUME Inv, NEW a \in Actors, Abort(a)
  PROVE  Inv'
<1>1. Rollback(a) /\ UNCHANGED <<clock, op>>
  BY DEF Abort
<1>2. CASE a = Sweeper
  <2>1. sweep' = <<>> /\ UNCHANGED reqVars
    BY <1>2 DEF Abort
  <2>2. Kinds'
    BY <1>1, <2>1, RolledBack DEF Inv, Kinds, reqVars
  <2>3. LocksAreOwned'
    BY <1>1, <2>1, RolledBack DEF Inv, LocksAreOwned, reqVars, Actors
  <2>4. Unanswered' /\ RowsAreOwned' /\ WritesFindRows'
    BY <1>1, <2>1, RolledBack DEF Inv, Unanswered, RowsAreOwned, WritesFindRows, reqVars, Idle
  <2> QED BY <2>2, <2>3, <2>4 DEF Inv
<1>3. CASE a \in Requests
  <2>1. \E k \in Keys : lock[k] = a
    BY DEF Abort, Cyclic, WaitsFor
  <2>2. pc[a] # "done"
    BY <1>3, <2>1 DEF Inv, LocksAreOwned
  <2>3. Answer(a, "failed") /\ UNCHANGED sweep
    BY <1>3 DEF Abort
  <2>4. /\ pc' \in [Requests -> {"new", "read", "flush", "commit", "done"}]
        /\ answer' \in [Requests -> {"none", "granted", "refused", "failed"}]
        /\ at' \in [Requests -> Nat] /\ pc'[a] = "done"
        /\ \A s \in Requests \ {a} : pc'[s] = pc[s] /\ answer'[s] = answer[s]
    BY <1>3, <2>3 DEF Answer, Goto, Inv, Kinds
  <2> QED BY <1>1, <1>3, <2>2, <2>3, <2>4, RequestGivesUp
<1> QED BY <1>2, <1>3 DEF Actors

LEMMA StepInv == Inv /\ [Next]_vars => Inv'
<1> SUFFICES ASSUME Inv, [Next]_vars PROVE Inv'
  OBVIOUS
<1>1. CASE UNCHANGED vars
  BY <1>1 DEF vars, dbVars, reqVars, Inv, Kinds, LocksAreOwned, Unanswered, RowsAreOwned,
              WritesFindRows, Idle
<1>2. CASE Tick
  <2>1. clock' \in Nat
    BY <1>2 DEF Tick, Inv, Kinds
  <2> QED
    BY <1>2, <2>1 DEF Tick, dbVars, reqVars, Inv, Kinds, LocksAreOwned, Unanswered,
                      RowsAreOwned, WritesFindRows, Idle
<1> QED BY <1>1, <1>2, AcquireInv, HolderInv, SweepInv, AbortInv DEF Next

THEOREM Invariance == Spec => []Inv
  BY InitInv, StepInv, PTL DEF Spec

-----------------------------------------------------------------------------
\* A batch is all or nothing for any number of resources and of concurrent
\* requests, sweeps and aborts: whatever a request has flushed, a row is left
\* in its name only if it was granted.
THEOREM BatchesAreAtomic == Spec => []AllOrNothing
<1>1. Inv => AllOrNothing
  BY DEF Inv, RowsAreOwned, AllOrNothing
<1> QED BY <1>1, Invariance, PTL

-----------------------------------------------------------------------------
(* Deadlocks: acquirers flush in the order of the keys, so whoever waits   *)
(* waits for a key above all those it has locked.                          *)

\* Who has been answered has no key left to flush; a lease is renewed or released
\* only by who was granted it.
UnderWay ==
  /\ todo \in [Requests -> SUBSET Keys] /\ until \in [Requests -> [Keys -> Nat]]
  /\ \A r \in Requests :
       /\ pc[r] \in {"read", "flush"} => todo[r] # {}
       /\ pc[r] # "done" => Idle(r) /\ \A k \in Keys : until[r][k] = 0

\* What is left to flush is above what is locked.
LocksAscend == \A k \in Keys : lock[k] \in Requests => \A j \in todo[lock[k]] : k < j

OrderInv == UnderWay /\ LocksAscend

\* The next key is one of those left, and no other is below it.
LEMMA TurnIsLeast ==
  ASSUME NEW r \in Requests, todo[r] \in SUBSET Keys, todo[r] # {}
  PROVE  Turn(r) \in todo[r] /\ \A j \in todo[r] : Turn(r) <= j
<1>1. \A j \in todo[r] : j \in Nat BY DEF Keys
<1>2. PICK k \in todo[r] : \A j \in todo[r] : <<j, k>> \notin OpToRel(<, Nat)
  BY <1>1, NatLessThanWellFounded, WFMin
<1>3. \A j \in todo[r] : ~ (j < k) BY <1>1, <1>2 DEF OpToRel
<1>4. \A j \in todo[r] : k <= j BY <1>1, <1>3
<1> QED BY <1>4 DEF Turn, Min

LEMMA OrderStarts == Init => OrderInv
<1> SUFFICES ASSUME Init PROVE OrderInv
  OBVIOUS
<1> QED BY DEF Init, OrderInv, UnderWay, LocksAscend, Idle, NoOp, Actors

LEMMA OrderStep == Inv /\ OrderInv /\ [Next]_vars => OrderInv'
<1> SUFFICES ASSUME Inv, OrderInv, [Next]_vars PROVE OrderInv'
  OBVIOUS
<1>k. /\ todo \in [Requests -> SUBSET Keys] /\ until \in [Requests -> [Keys -> Nat]]
      /\ pc \in [Requests -> {"new", "read", "flush", "commit", "done"}]
      /\ op \in [Requests -> [kind : {"none", "renew", "release"}, key : Keys \cup {0}, now : Nat]]
      /\ at \in [Requests -> Nat] /\ clock \in Nat /\ lock \in [Keys -> Actors \cup {Nobody}]
  BY DEF Inv, Kinds, OrderInv, UnderWay
\* Locks that a step leaves or gives back, and keys that it leaves or drops, stay in order.
<1>a. ASSUME \A k \in Keys : lock'[k] \in Requests => lock'[k] = lock[k] /\ todo'[lock[k]] \subseteq todo[lock[k]]
      PROVE  LocksAscend'
  BY <1>a DEF OrderInv, LocksAscend
<1>1. ASSUME NEW r \in Requests, Acquire(r) PROVE OrderInv'
  <2>w. \A k \in ToSet(Wants[r]) : k \in Keys
    BY WantsAssumption DEF ToSet
  <2>n. ToSet(Wants[r]) # {}
    BY WantsAssumption DEF ToSet
  <2>1. CASE Begin(r)
    <3>1. UnderWay'
      BY <1>k, <2>1, <2>w, <2>n DEF Begin, Restart, Goto, OrderInv, UnderWay, Idle
    <3>2. LocksAscend'
      <4>1. \A k \in Keys : lock[k] # r BY <2>1 DEF Begin, Inv, LocksAreOwned
      <4>2. lock' = lock /\ \A s \in Requests : s # r => todo'[s] = todo[s]
        BY <1>k, <2>1 DEF Begin, Restart, dbVars
      <4> QED BY <1>a, <4>1, <4>2
    <3> QED BY <3>1, <3>2 DEF OrderInv
  <2>2. CASE Read(r)
    <3>1. UnderWay'
      BY <1>k, <2>2 DEF Read, Answer, Goto, OrderInv, UnderWay, Idle
    <3>2. \A k \in Keys : lock'[k] \in Requests => lock'[k] = lock[k]
      BY <1>k, <2>2 DEF Read, Rollback, Unlock, dbVars, Actors
    <3>3. \A s \in Requests : todo'[s] \subseteq todo[s]
      BY <1>k, <2>2 DEF Read, Answer
    <3> QED BY <1>a, <3>1, <3>2, <3>3 DEF OrderInv
  <2>3. CASE Write(r)
    <3> DEFINE k == Turn(r)
    <3>1. pc[r] = "flush" /\ UNCHANGED <<until, op>> /\ todo[r] # {}
      BY <2>3 DEF Write, OrderInv, UnderWay
    <3>2. k \in todo[r] /\ \A j \in todo[r] : k <= j
      BY <1>k, <3>1, TurnIsLeast
    <3>3. CASE /\ lock' = [lock EXCEPT ![k] = r] /\ todo' = [todo EXCEPT ![r] = @ \ {k}]
               /\ pc' = [pc EXCEPT ![r] = IF todo[r] = {k} THEN "commit" ELSE "read"]
      <4> HIDE DEF k
      <4>1. UnderWay'
        BY <1>k, <3>1, <3>3 DEF OrderInv, UnderWay, Idle
      <4>2. ASSUME NEW i \in Keys, lock'[i] \in Requests, NEW j \in todo'[lock'[i]] PROVE i < j
        <5>1. CASE i = k
          <6>1. lock'[i] = r /\ j \in todo[r] /\ j # k BY <1>k, <3>3, <4>2, <5>1
          <6> QED BY <1>k, <3>2, <5>1, <6>1 DEF Keys
        <5>2. CASE i # k
          <6>1. lock'[i] = lock[i] /\ j \in todo[lock[i]] BY <1>k, <3>3, <4>2, <5>2
          <6> QED BY <4>2, <6>1 DEF OrderInv, LocksAscend
        <5> QED BY <5>1, <5>2
      <4> QED BY <4>1, <4>2 DEF OrderInv, LocksAscend
    <3>4. CASE /\ Rollback(r)
               /\ \/ Restart(r, IF r \in Batches THEN at[r] ELSE clock)
                  \/ Answer(r, "refused")
      <4>1. UnderWay'
        <5>1. CASE Restart(r, IF r \in Batches THEN at[r] ELSE clock)
          BY <1>k, <2>w, <2>n, <3>1, <5>1 DEF Restart, Goto, OrderInv, UnderWay, Idle
        <5>2. CASE Answer(r, "refused")
          BY <1>k, <3>1, <5>2 DEF Answer, Goto, OrderInv, UnderWay, Idle
        <5> QED BY <3>4, <5>1, <5>2
      <4>2. \A i \in Keys : lock'[i] \in Requests => lock'[i] = lock[i] /\ lock[i] # r
        BY <1>k, <3>4 DEF Rollback, Unlock, Actors
      <4>3. \A s \in Requests : s # r => todo'[s] = todo[s]
        BY <1>k, <3>4 DEF Restart, Answer
      <4> QED BY <1>a, <4>1, <4>2, <4>3 DEF OrderInv
    <3> QED BY <2>3, <3>3, <3>4 DEF Write, Flush, Goto
  <2>4. CASE Commit(r)
    <3>1. UnderWay'
      <4>1. until' \in [Requests -> [Keys -> Nat]] /\ \A s \in Requests : s # r => until'[s] = until[s]
        <5> DEFINE told == [k \in Keys |-> IF k \in ToSet(Wants[r]) THEN at[r] + Ttl ELSE 0]
        <5>1. at[r] + Ttl \in Nat BY <1>k
        <5>2. told \in [Keys -> Nat] BY <5>1
        <5>3. until' = [until EXCEPT ![r] = told] BY <2>4 DEF Commit
        <5> HIDE DEF told
        <5> QED BY <1>k, <5>2, <5>3
      <4>2. todo' = [todo EXCEPT ![r] = {}] /\ pc' = [pc EXCEPT ![r] = "done"] /\ op' = op
        BY <2>4 DEF Commit, Answer, Goto
      <4> QED BY <1>k, <4>1, <4>2 DEF OrderInv, UnderWay, Idle
    <3>2. \A k \in Keys : lock'[k] \in Requests => lock'[k] = lock[k]
      BY <1>k, <2>4 DEF Commit, CommitAll, Unlock, Actors
    <3>3. \A s \in Requests : todo'[s] \subseteq todo[s]
      BY <1>k, <2>4 DEF Commit, Answer
    <3> QED BY <1>a, <3>1, <3>2, <3>3 DEF OrderInv
  <2> QED BY <1>1, <2>1, <2>2, <2>3, <2>4 DEF Acquire
<1>2. ASSUME NEW r \in Requests, Holder(r) PROVE OrderInv'
  <2>1. UNCHANGED <<lock, todo, pc>>
    BY <1>2 DEF Holder, ReadRenew, ReadRelease, WriteOp, dbVars, reqVars
  <2>2. LocksAscend' BY <1>a, <2>1
  <2>3. pc[r] = "done"
    BY <1>2 DEF Holder, ReadRenew, ReadRelease, WriteOp, OrderInv, UnderWay
  <2> DEFINE Mine == /\ \A s \in Requests : s # r => op'[s] = op[s] /\ until'[s] = until[s]
                     /\ until' \in [Requests -> [Keys -> Nat]]
  <2>4. Mine
    <3>1. ASSUME NEW k \in Keys, ReadRenew(r, k) \/ ReadRelease(r, k) PROVE Mine
      <4>1. \A s \in Requests : s # r => op'[s] = op[s]
        BY <1>k, <3>1 DEF ReadRenew, ReadRelease
      <4>2. until' = until \/ until' = [until EXCEPT ![r][k] = 0]
        BY <3>1 DEF ReadRenew, ReadRelease
      <4>3. until' \in [Requests -> [Keys -> Nat]] /\ \A s \in Requests : s # r => until'[s] = until[s]
        <5>1. CASE until' = until BY <1>k, <5>1
        <5>2. CASE until' = [until EXCEPT ![r][k] = 0]
          <6>1. [until[r] EXCEPT ![k] = 0] \in [Keys -> Nat] BY <1>k
          <6> QED BY <1>k, <5>2, <6>1
        <5> QED BY <4>2, <5>1, <5>2
      <4> QED BY <4>1, <4>3
    <3>2. CASE WriteOp(r)
      <4>1. \A s \in Requests : s # r => op'[s] = op[s]
        BY <1>k, <3>2 DEF WriteOp
      <4>2. PICK n \in Nat : n = op[r].now + Ttl BY <1>k
      <4>3. PICK k : until' = until \/ until' = [until EXCEPT ![r][k] = n]
        BY <3>2, <4>2 DEF WriteOp
      <4>4. until' \in [Requests -> [Keys -> Nat]] /\ \A s \in Requests : s # r => until'[s] = until[s]
        <5>1. CASE until' = until BY <1>k, <5>1
        <5>2. CASE until' = [until EXCEPT ![r][k] = n]
          <6>1. [until[r] EXCEPT ![k] = n] \in [Keys -> Nat] BY <1>k
          <6> QED BY <1>k, <5>2, <6>1
        <5> QED BY <4>3, <5>1, <5>2
      <4> QED BY <4>1, <4>4
    <3> QED BY <1>2, <3>1, <3>2 DEF Holder
  <2>5. UnderWay' BY <1>k, <2>1, <2>3, <2>4 DEF OrderInv, UnderWay, Idle
  <2> QED BY <2>2, <2>5 DEF OrderInv
<1>3. CASE Sweep
  <2>1. UNCHANGED <<pc, todo, until, op>>
    BY <1>3 DEF Sweep, ReadStale, WriteStale, CommitStale, reqVars
  <2>2. UnderWay' BY <2>1 DEF OrderInv, UnderWay, Idle
  <2>3. \A k \in Keys : lock'[k] \in Requests => lock'[k] = lock[k]
    BY <1>k, <1>3 DEF Sweep, ReadStale, WriteStale, CommitStale, Flush, CommitAll, Unlock, dbVars, Actors
  <2> QED BY <1>a, <2>1, <2>2, <2>3 DEF OrderInv
<1>4. ASSUME NEW a \in Actors, Abort(a) PROVE OrderInv'
  <2>1. UNCHANGED <<until, op>> /\ \A k \in Keys : lock'[k] \in Requests => lock'[k] = lock[k]
    BY <1>k, <1>4 DEF Abort, Rollback, Unlock, Actors
  <2>2. UnderWay' /\ \A s \in Requests : todo'[s] \subseteq todo[s]
    <3>1. CASE UNCHANGED reqVars BY <2>1, <3>1 DEF reqVars, OrderInv, UnderWay, Idle
    <3>2. CASE a \in Requests /\ Answer(a, "failed")
      BY <1>k, <2>1, <3>2 DEF Answer, Goto, OrderInv, UnderWay, Idle
    <3> QED BY <1>4, <3>1, <3>2 DEF Abort, Actors
  <2> QED BY <1>a, <2>1, <2>2 DEF OrderInv
<1>5. CASE Tick \/ UNCHANGED vars
  <2>1. UNCHANGED <<pc, todo, until, op, lock>> BY <1>5 DEF Tick, vars, dbVars, reqVars
  <2> QED BY <2>1 DEF OrderInv, UnderWay, LocksAscend, Idle
<1> QED BY <1>1, <1>2, <1>3, <1>4, <1>5 DEF Next

\* Acquirers never wait for each other in a circle, for any number of them and of
\* keys: of the keys they would wait for, whoever holds the highest waits for a higher one.
THEOREM OrderPreventsDeadlock == Spec => []AcquirersNeverDeadlock
<1>1. ASSUME Inv, OrderInv PROVE AcquirersNeverDeadlock
  <2> SUFFICES ASSUME NEW S \in SUBSET Requests, Cyclic(S) PROVE FALSE
    BY DEF AcquirersNeverDeadlock
  <2> DEFINE K == {k \in Keys : lock[k] \in S /\ \E a \in S : Awaits(a, k)}
             D == {NKeys - k : k \in K}
  <2>1. ASSUME NEW a \in S PROVE \E k \in K : Awaits(a, k)
    BY DEF Cyclic, WaitsFor
  <2>2. K # {} BY <2>1 DEF Cyclic
  <2>3. \A d \in D : d \in Nat BY DEF Keys
  <2>4. D # {} BY <2>2
  <2> HIDE DEF K
  <2>5. PICK d \in D : \A e \in D : <<e, d>> \notin OpToRel(<, Nat)
    <3> HIDE DEF D
    <3> QED BY <2>3, <2>4, NatLessThanWellFounded, WFMin
  <2>6. PICK k \in K : d = NKeys - k OBVIOUS
  <2>7. k \in Keys /\ lock[k] \in S BY DEF K
  <2>8. PICK j \in K : Awaits(lock[k], j) BY <2>1, <2>7
  <2>9. j \in Keys BY DEF K
  <2>10. pc[lock[k]] \in {"read", "flush", "commit"} BY <1>1, <2>7 DEF Inv, LocksAreOwned
  <2>11. lock[k] \in Requests /\ Idle(lock[k]) BY <1>1, <2>7, <2>10 DEF OrderInv, UnderWay
  <2>12. op[lock[k]].key = 0 BY <2>11 DEF Idle, NoOp
  <2>13. pc[lock[k]] = "flush" /\ Turn(lock[k]) = j BY <2>8, <2>9, <2>11, <2>12 DEF Awaits, Keys
  <2>14. j \in todo[lock[k]] BY <1>1, <2>11, <2>13, TurnIsLeast DEF OrderInv, UnderWay
  <2>15. k < j BY <1>1, <2>7, <2>11, <2>14 DEF OrderInv, LocksAscend
  <2>16. NKeys - j \in D /\ NKeys - j \in Nat /\ d \in Nat BY <2>3
  <2>17. NKeys - j < d BY <2>6, <2>7, <2>9, <2>15 DEF Keys
  <2> QED BY <2>5, <2>16, <2>17 DEF OpToRel
<1> QED BY <1>1, OrderStarts, OrderStep, Invariance, PTL DEF Spec

-----------------------------------------------------------------------------
(* The type invariant: times stay within the clock and one ttl.            *)

Now == 0..MaxTime
Times == 0..(MaxTime + Ttl)
Ops == [kind : {"none", "renew", "release"}, key : Keys \cup {0}, now : Now]
Pcs == {"new", "read", "flush", "commit", "done"}
Answers == {"none", "granted", "refused", "failed"}

DbTyped == row \in [Keys -> Row] /\ lock \in [Keys -> Actors \cup {Nobody}] /\ draft \in [Keys -> Row]

ReqTyped ==
  /\ pc \in [Requests -> Pcs] /\ todo \in [Requests -> SUBSET Keys]
  /\ got \in [Requests -> Row] /\ at \in [Requests -> Now]
  /\ tries \in [Requests -> 0..MaxTries] /\ answer \in [Requests -> Answers]

LeaseTyped == until \in [Requests -> [Keys -> Times]] /\ op \in [Requests -> Ops]

TypeParts == DbTyped /\ ReqTyped /\ LeaseTyped /\ clock \in Now

\* A ttl after any time of the clock is a time an expiry may have.
LEMMA ExpiryIsATime ==
  /\ \A n \in Now : n + Ttl \in Times
  /\ 0 \in Now /\ 0 \in Times /\ NoRow \in Row /\ NoOp \in Ops
  BY DEF Now, Times, NoRow, NoOp, Row, Ops

\* What transactions do to the database keeps its kinds.
LEMMA TransactionsTyped ==
  ASSUME DbTyped, NEW a \in Actors,
         Rollback(a) \/ CommitAll(a) \/ UNCHANGED dbVars \/ \E k \in Keys, v \in Row : Flush(a, k, v)
  PROVE  DbTyped'
<1>1. CASE Rollback(a) \/ CommitAll(a)
  BY <1>1, ExpiryIsATime DEF Rollback, CommitAll, Unlock, DbTyped
<1>2. CASE UNCHANGED dbVars
  BY <1>2 DEF dbVars, DbTyped
<1>3. ASSUME NEW k \in Keys, NEW v \in Row, Flush(a, k, v) PROVE DbTyped'
  BY <1>3 DEF Flush, DbTyped
<1> QED BY <1>1, <1>2, <1>3

\* So do the beginnings and ends of a call with what is known of it.
LEMMA CallsTyped ==
  ASSUME ReqTyped, NEW r \in Requests
  PROVE  /\ \A now \in Now : Restart(r, now) /\ UNCHANGED answer
                /\ (UNCHANGED tries \/ (tries[r] + 1 < MaxTries /\ tries' = [tries EXCEPT ![r] = @ + 1]))
              => ReqTyped'
         /\ \A a \in Answers : Answer(r, a) => ReqTyped'
<1>1. \A k \in ToSet(Wants[r]) : k \in Keys
  BY WantsAssumption DEF ToSet
<1>2. ASSUME NEW now \in Now, Restart(r, now), UNCHANGED answer,
             UNCHANGED tries \/ (tries[r] + 1 < MaxTries /\ tries' = [tries EXCEPT ![r] = @ + 1])
      PROVE  ReqTyped'
  <2>1. tries' \in [Requests -> 0..MaxTries]
    BY <1>2 DEF ReqTyped, MaxTries
  <2> QED BY <1>1, <1>2, <2>1, ExpiryIsATime DEF Restart, Goto, ReqTyped, Pcs
<1>3. ASSUME NEW a \in Answers, Answer(r, a) PROVE ReqTyped'
  BY <1>3, ExpiryIsATime DEF Answer, Goto, ReqTyped, Pcs, MaxTries
<1> QED BY <1>2, <1>3

LEMMA AcquireTyped ==
  ASSUME Inv, UnderWay, TypeParts, NEW r \in Requests, Acquire(r)
  PROVE  TypeParts'
<1>0. DbTyped /\ ReqTyped /\ LeaseTyped /\ clock \in Now /\ r \in Actors
  BY DEF TypeParts, Actors
<1>1. UNCHANGED <<clock, op>>
  BY DEF Acquire, Begin, Read, Write, Commit
<1>2. CASE Begin(r)
  <2>1. DbTyped' BY <1>0, <1>2, TransactionsTyped DEF Begin
  <2>2. ReqTyped' BY <1>0, <1>2, CallsTyped DEF Begin
  <2>3. UNCHANGED until BY <1>2 DEF Begin
  <2> QED BY <1>0, <1>1, <2>1, <2>2, <2>3 DEF TypeParts, LeaseTyped
<1>3. CASE Read(r)
  <2>0. todo[r] \in SUBSET Keys /\ todo[r] # {} BY <1>3 DEF Read, UnderWay
  <2>1. Turn(r) \in Keys BY <2>0, TurnIsLeast
  <2>2. DbTyped' BY <1>0, <1>3, TransactionsTyped DEF Read
  <2>3. ReqTyped'
    <3>1. CASE Answer(r, "refused") BY <1>0, <3>1, CallsTyped DEF Answers
    <3>2. CASE /\ got' = [got EXCEPT ![r] = row[Turn(r)]] /\ Goto(r, "flush")
               /\ UNCHANGED <<todo, at, tries, answer>>
      BY <1>0, <2>1, <3>2 DEF ReqTyped, DbTyped, Goto, Pcs
    <3> QED BY <1>3, <3>1, <3>2 DEF Read
  <2>4. UNCHANGED until BY <1>3 DEF Read
  <2> QED BY <1>0, <1>1, <2>2, <2>3, <2>4 DEF TypeParts, LeaseTyped
<1>4. CASE Write(r)
  <2>0. todo[r] \in SUBSET Keys /\ todo[r] # {} BY <1>4 DEF Write, UnderWay
  <2>1. PICK k \in Keys : k = Turn(r) BY <2>0, TurnIsLeast
  <2>2. Holding(r, row[k]) \in Row
    <3>1. at[r] + Ttl \in Times BY <1>0, ExpiryIsATime DEF ReqTyped
    <3>2. row[k].released \in BOOLEAN /\ got[r].released \in BOOLEAN
      BY <1>0, <2>1 DEF DbTyped, ReqTyped, Row
    <3> QED BY <3>1, <3>2 DEF Holding, Row, Times
  <2>3. CASE /\ Flush(r, k, Holding(r, row[k])) /\ todo' = [todo EXCEPT ![r] = @ \ {k}]
             /\ Goto(r, IF todo[r] = {k} THEN "commit" ELSE "read") /\ UNCHANGED <<got, at, tries, answer>>
    <3>1. DbTyped' BY <1>0, <2>2, <2>3, TransactionsTyped
    <3>2. ReqTyped' BY <1>0, <2>3 DEF ReqTyped, Goto, Pcs
    <3> QED BY <3>1, <3>2, <1>0, <1>1, <1>4 DEF Write, TypeParts, LeaseTyped
  <2>4. CASE /\ Rollback(r)
             /\ IF tries[r] + 1 < MaxTries
                THEN /\ tries' = [tries EXCEPT ![r] = @ + 1] /\ UNCHANGED answer
                     /\ Restart(r, IF r \in Batches THEN at[r] ELSE clock)
                ELSE Answer(r, "refused")
    <3>1. DbTyped' BY <1>0, <2>4, TransactionsTyped
    <3>2. (IF r \in Batches THEN at[r] ELSE clock) \in Now BY <1>0 DEF ReqTyped
    <3>3. ReqTyped' BY <1>0, <2>4, <3>2, CallsTyped DEF Answers
    <3> QED BY <3>1, <3>3, <1>0, <1>1, <1>4 DEF Write, TypeParts, LeaseTyped
  <2> QED BY <1>4, <2>1, <2>3, <2>4 DEF Write
<1>5. CASE Commit(r)
  <2>1. DbTyped' BY <1>0, <1>5, TransactionsTyped DEF Commit
  <2>2. ReqTyped' BY <1>0, <1>5, CallsTyped DEF Commit, Answers
  <2> DEFINE told == [k \in Keys |-> IF k \in ToSet(Wants[r]) THEN at[r] + Ttl ELSE 0]
  <2>3. at[r] + Ttl \in Times BY <1>0, ExpiryIsATime DEF ReqTyped
  <2>4. told \in [Keys -> Times] BY <2>3, ExpiryIsATime
  <2>5. until' = [until EXCEPT ![r] = told] BY <1>5 DEF Commit
  <2> HIDE DEF told
  <2> QED BY <1>0, <1>1, <2>1, <2>2, <2>4, <2>5 DEF TypeParts, LeaseTyped
<1> QED BY <1>2, <1>3, <1>4, <1>5 DEF Acquire

LEMMA HolderTyped ==
  ASSUME Inv, TypeParts, NEW r \in Requests, Holder(r)
  PROVE  TypeParts'
<1>0. DbTyped /\ ReqTyped /\ LeaseTyped /\ clock \in Now
  BY DEF TypeParts
<1>1. ReqTyped' /\ clock' \in Now
  BY <1>0 DEF Holder, ReadRenew, ReadRelease, WriteOp, reqVars, ReqTyped
<1>2. ASSUME NEW k \in Keys, ReadRenew(r, k) \/ ReadRelease(r, k) PROVE TypeParts'
  <2>1. \A kind \in {"renew", "release"} : [kind |-> kind, key |-> k, now |-> clock] \in Ops
    BY <1>0 DEF Ops
  <2>2. op' = op \/ \E kind \in {"renew", "release"} :
                      op' = [op EXCEPT ![r] = [kind |-> kind, key |-> k, now |-> clock]]
    BY <1>2 DEF ReadRenew, ReadRelease
  <2>3. op' \in [Requests -> Ops] BY <1>0, <2>1, <2>2 DEF LeaseTyped
  <2>4. until' = until \/ until' = [until EXCEPT ![r][k] = 0]
    BY <1>2 DEF ReadRenew, ReadRelease
  <2>5. [until[r] EXCEPT ![k] = 0] \in [Keys -> Times] BY <1>0, ExpiryIsATime DEF LeaseTyped
  <2>6. until' \in [Requests -> [Keys -> Times]] BY <1>0, <2>4, <2>5 DEF LeaseTyped
  <2>7. UNCHANGED dbVars BY <1>2 DEF ReadRenew, ReadRelease
  <2> QED BY <1>0, <1>1, <2>3, <2>6, <2>7 DEF TypeParts, LeaseTyped, DbTyped, dbVars
<1>3. CASE WriteOp(r)
  <2>1. PICK k \in Keys : k = op[r].key
    BY <1>3 DEF WriteOp, Inv, WritesFindRows
  <2>2. PICK n \in Times : n = op[r].now + Ttl
    BY <1>0, ExpiryIsATime DEF LeaseTyped, Ops
  <2>3. op' \in [Requests -> Ops]
    BY <1>0, <1>3, ExpiryIsATime DEF WriteOp, LeaseTyped
  <2>4. row[k] \in Row BY <1>0 DEF DbTyped
  <2>5. [row[k] EXCEPT !.exp = n] \in Row BY <2>4 DEF Row, Times
  <2>6. [row[k] EXCEPT !.released = TRUE] \in Row BY <2>4, ZenonT(40) DEF Row
  <2>7. row' = [row EXCEPT ![k] = [row[k] EXCEPT !.exp = n]]
        \/ row' = [row EXCEPT ![k] = [row[k] EXCEPT !.released = TRUE]]
    BY <1>0, <1>3, <2>1, <2>2 DEF WriteOp, DbTyped
  <2>8. row' \in [Keys -> Row]
    BY <1>0, <2>5, <2>6, <2>7 DEF DbTyped
  <2>9. until' = until \/ until' = [until EXCEPT ![r][k] = n]
    BY <1>3, <2>1, <2>2 DEF WriteOp
  <2>10. [until[r] EXCEPT ![k] = n] \in [Keys -> Times] BY <1>0 DEF LeaseTyped
  <2>11. until' \in [Requests -> [Keys -> Times]] BY <1>0, <2>9, <2>10 DEF LeaseTyped
  <2>12. UNCHANGED <<lock, draft>> BY <1>3 DEF WriteOp
  <2> QED BY <1>0, <1>1, <2>3, <2>8, <2>11, <2>12 DEF TypeParts, LeaseTyped, DbTyped
<1> QED BY <1>2, <1>3 DEF Holder

LEMMA OthersTyped ==
  ASSUME Inv, TypeParts, Sweep \/ Tick \/ UNCHANGED vars \/ \E a \in Actors : Abort(a)
  PROVE  TypeParts'
<1>0. DbTyped /\ ReqTyped /\ LeaseTyped /\ clock \in Now /\ Sweeper \in Actors
  BY DEF TypeParts, Actors
<1>1. CASE Sweep
  <2>1. UNCHANGED <<reqVars, until, op, clock>>
    BY <1>1 DEF Sweep, ReadStale, WriteStale, CommitStale
  <2>2. CASE WriteStale
    <3>1. PICK k \in Keys : k = Head(sweep)
      BY <2>2 DEF WriteStale, Inv, Kinds
    <3>2. row[k] \in Row BY <1>0 DEF DbTyped
    <3>3. [row[k] EXCEPT !.released = TRUE] \in Row BY <3>2, ZenonT(40) DEF Row
    <3>4. Flush(Sweeper, k, [row[k] EXCEPT !.released = TRUE]) BY <2>2, <3>1 DEF WriteStale
    <3>5. DbTyped' BY <1>0, <3>3, <3>4, TransactionsTyped
    <3> QED BY <1>0, <2>1, <3>5 DEF TypeParts, ReqTyped, LeaseTyped, reqVars
  <2>3. CASE ReadStale \/ CommitStale
    <3>1. DbTyped' BY <1>0, <2>3, TransactionsTyped DEF ReadStale, CommitStale
    <3> QED BY <1>0, <2>1, <3>1 DEF TypeParts, ReqTyped, LeaseTyped, reqVars
  <2> QED BY <1>1, <2>2, <2>3 DEF Sweep
<1>2. CASE Tick \/ UNCHANGED vars
  <2>1. clock' \in Now BY <1>0, <1>2 DEF Tick, vars, Now
  <2>2. UNCHANGED <<dbVars, reqVars, until, op>> BY <1>2 DEF Tick, vars
  <2> QED BY <1>0, <2>1, <2>2 DEF TypeParts, DbTyped, ReqTyped, LeaseTyped, dbVars, reqVars
<1>3. ASSUME NEW a \in Actors, Abort(a) PROVE TypeParts'
  <2>1. DbTyped' BY <1>0, <1>3, TransactionsTyped DEF Abort
  <2>2. ReqTyped'
    <3>1. CASE UNCHANGED reqVars BY <1>0, <3>1 DEF ReqTyped, reqVars
    <3>2. CASE a \in Requests /\ Answer(a, "failed") BY <1>0, <3>2, CallsTyped DEF Answers
    <3> QED BY <1>3, <3>1, <3>2 DEF Abort, Actors
  <2>3. UNCHANGED <<clock, until, op>> BY <1>3 DEF Abort
  <2> QED BY <1>0, <2>1, <2>2, <2>3 DEF TypeParts, LeaseTyped
<1> QED BY <1>1, <1>2, <1>3

\* Every variable of the leases keeps its kind: expiries are at most one ttl after the
\* clock, and the loop of an insert that loses its race ends after its three tries.
THEOREM LeasesTyped == Spec => []TypeOK
<1>1. Init => TypeParts
  <2> SUFFICES ASSUME Init PROVE TypeParts OBVIOUS
  <2>1. DbTyped BY ExpiryIsATime DEF Init, DbTyped
  <2>2. ReqTyped BY ExpiryIsATime DEF Init, ReqTyped, Pcs, Answers, MaxTries
  <2>3. LeaseTyped BY ExpiryIsATime DEF Init, LeaseTyped
  <2>4. clock \in Now BY ExpiryIsATime DEF Init
  <2> QED BY <2>1, <2>2, <2>3, <2>4 DEF TypeParts
<1>2. Inv /\ OrderInv /\ TypeParts /\ [Next]_vars => TypeParts'
  BY AcquireTyped, HolderTyped, OthersTyped DEF Next, OrderInv
<1>3. Inv /\ TypeParts => TypeOK
  <2> SUFFICES ASSUME Inv, TypeParts PROVE TypeOK OBVIOUS
  <2>1. ToSet(sweep) \subseteq Keys BY DEF Inv, Kinds, ToSet
  <2> QED BY <2>1 DEF TypeParts, DbTyped, ReqTyped, LeaseTyped, TypeOK,
                      Now, Times, Ops, Pcs, Answers
<1> QED BY <1>1, <1>2, <1>3, OrderStarts, OrderStep, Invariance, PTL DEF Spec
=============================================================================
