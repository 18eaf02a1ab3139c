------------------------- MODULE EventStream_proofs -------------------------
(***************************************************************************)
(* Proofs about EventStream for any processes, entities and sizes: the page*)
(* misses nothing without knowing that it must fetch, and it implements the*)
(* abstract Replica step by step.  The argument has three parts: commits   *)
(* follow the sequence, so the log has no holes; only committed events are *)
(* under way; and the page is never ahead of the log, and disconnected     *)
(* while it must fetch.                                                    *)
(***************************************************************************)
EXTENDS EventStream, FiniteSetTheorems, SequenceTheorems, WellFoundedInduction, TLAPS

-----------------------------------------------------------------------------
(* Numbers: the operators the model takes from sets of them.               *)

\* A set of natural numbers that has a member has a least one.
LEMMA LeastOf ==
  ASSUME NEW S \in SUBSET Nat, S # {}
  PROVE  \E x \in S : \A y \in S : x <= y
<1>1. \E R : IsWellFoundedOn(R, Nat) /\ \A x, y \in Nat : <<y, x>> \in R <=> y < x
  <2>1. \A x, y \in Nat : <<y, x>> \in {ss \in Nat \X Nat : ss[1] < ss[2]} <=> y < x OBVIOUS
  <2>2. IsWellFoundedOn({ss \in Nat \X Nat : ss[1] < ss[2]}, Nat) BY NatLessThanWellFounded DEF OpToRel
  <2> QED BY <2>1, <2>2
<1>2. PICK R : IsWellFoundedOn(R, Nat) /\ \A x, y \in Nat : <<y, x>> \in R <=> y < x BY <1>1
<1>3. PICK x \in S : \A y \in S : <<y, x>> \notin R BY <1>2, WFMin
<1>4. \A y \in S : ~ (y < x) BY <1>2, <1>3
<1>5. \A y \in S : x <= y BY <1>4
<1> QED BY <1>5

\* Max is what its name says on a bounded set that has a member.
LEMMA MaxOf ==
  ASSUME NEW n \in Nat, NEW S \in SUBSET (0..n), S # {}
  PROVE  Max(S) \in S /\ \A y \in S : y <= Max(S)
<1> DEFINE T == {n - x : x \in S}
<1>1. (\A t \in T : t \in Nat) /\ T # {}
  <2>1. \A t \in T : t \in Nat OBVIOUS
  <2>2. T # {} OBVIOUS
  <2> QED BY <2>1, <2>2
<1>2. PICK t \in T : \A u \in T : t <= u BY <1>1, LeastOf
<1>3. PICK x \in S : t = n - x OBVIOUS
<1>4. \A y \in S : n - y \in T OBVIOUS
<1> HIDE DEF T
<1>5. \A y \in S : x >= y BY <1>2, <1>3, <1>4
<1> QED BY <1>5 DEF Max

\* Min of two numbers is one of them, and not more than either.
LEMMA MinOfTwo ==
  ASSUME NEW a \in Nat, NEW b \in Nat
  PROVE  Min({a, b}) \in {a, b} /\ Min({a, b}) <= a /\ Min({a, b}) <= b
<1>1. \E x \in {a, b} : \A y \in {a, b} : x =< y OBVIOUS
<1> QED BY <1>1 DEF Min

\* A bounded set of n numbers has for each i up to n a member with i - 1 below it.
LEMMA NthExists ==
  ASSUME NEW n \in Nat, NEW S \in SUBSET (0..n), NEW i \in 1..Cardinality(S)
  PROVE  \E x \in S : Cardinality({y \in S : y < x}) = i - 1
<1> DEFINE Below(x) == {y \in S : y < x}
           T == {x \in S : Cardinality(Below(x)) >= i - 1}
<1>1. IsFiniteSet(S)
  <2>1. IsFiniteSet(0..n) BY FS_Interval
  <2> QED BY <2>1, FS_Subset
<1>2. Cardinality(S) \in Nat /\ i \in Nat \ {0} /\ i <= Cardinality(S) BY <1>1, FS_CardinalityType
<1>3. \A x \in S : IsFiniteSet(Below(x)) /\ Cardinality(Below(x)) \in Nat
  BY <1>1, FS_Subset, FS_CardinalityType
<1>4. ASSUME NEW U \in SUBSET S, NEW x \in U, \A y \in U : y <= x, \A y \in S \ U : x < y
      PROVE  Cardinality(Below(x)) = Cardinality(U) - 1
  <2>1. Below(x) = U \ {x}
    <3>1. \A y \in U \ {x} : y < x BY <1>4
    <3>2. \A y \in S : y < x => y \in U \ {x} BY <1>4
    <3> QED BY <3>1, <3>2
  <2>2. IsFiniteSet(U) BY <1>1, FS_Subset
  <2> QED BY <2>1, <2>2, FS_RemoveElement
<1>5. T # {}
  <2>1. S # {} BY <1>2, FS_EmptySet
  <2>2. Max(S) \in S /\ \A y \in S : y <= Max(S) BY <2>1, MaxOf
  <2>3. Cardinality(Below(Max(S))) = Cardinality(S) - 1 BY <1>4, <2>2
  <2> QED BY <1>2, <2>2, <2>3
<1>6. PICK x \in T : \A y \in T : x <= y
  <2>1. \A y \in T : y \in Nat OBVIOUS
  <2> HIDE DEF T
  <2> QED BY <1>5, <2>1, LeastOf
<1>7. ASSUME Cardinality(Below(x)) # i - 1 PROVE FALSE
  <2>1. Cardinality(Below(x)) >= i BY <1>2, <1>3, <1>6, <1>7
  <2>2. Below(x) # {} BY <1>2, <2>1, FS_EmptySet
  <2>3. PICK z \in Below(x) : \A y \in Below(x) : y <= z BY <2>2, MaxOf
  <2>4. Cardinality(Below(z)) = Cardinality(Below(x)) - 1
    <3>1. \A y \in S \ Below(x) : z < y
      <4>1. z \in Nat /\ z < x /\ x \in Nat OBVIOUS
      <4>2. \A y \in S \ Below(x) : y \in Nat /\ x <= y OBVIOUS
      <4> QED BY <4>1, <4>2
    <3> QED BY <1>4, <2>3, <3>1
  <2>5. z \in T BY <1>2, <1>3, <1>6, <2>1, <2>3, <2>4
  <2>6. z \in Nat /\ x \in Nat /\ z < x OBVIOUS
  <2>7. x <= z BY <1>6, <2>5
  <2> QED BY <2>6, <2>7
<1> QED BY <1>6, <1>7

\* What is sorted is a sequence of the set's members.
LEMMA SortedIsSeq ==
  ASSUME NEW n \in Nat, NEW S \in SUBSET (0..n)
  PROVE  Sorted(S) \in Seq(S) /\ Len(Sorted(S)) = Cardinality(S)
<1>1. Cardinality(S) \in Nat
  <2>1. IsFiniteSet(0..n) BY FS_Interval
  <2> QED BY <2>1, FS_Subset, FS_CardinalityType
<1>2. \A i \in 1..Cardinality(S) : Sorted(S)[i] \in S BY NthExists DEF Sorted
<1>3. Sorted(S) \in [1..Cardinality(S) -> S] BY <1>2 DEF Sorted
<1> QED BY <1>1, <1>3, SeqDef

-----------------------------------------------------------------------------
(* The log: commits follow the sequence, so there are no holes in it.      *)

WriterState == [phase : {"idle", "flushed", "committed"}, seq : 0..MaxSeq]

\* One transaction at a time has the counter's row; what it is about to commit is
\* the event after the last that committed.
CommitsFollow ==
  /\ \A p, q \in Procs : writer[p].phase = "flushed" /\ writer[q].phase = "flushed" => p = q
  /\ \A p \in Procs : writer[p].phase = "flushed" =>
       counter # 0 /\ writer[p].seq = counter /\ committed = 1..(counter - 1)
  /\ RowFree => committed = 1..counter

LogInv ==
  /\ counter \in 0..MaxSeq /\ rows \subseteq committed
  /\ writer \in [Procs -> WriterState]
  /\ \A p \in Procs : writer[p].phase = "committed" => writer[p].seq \in committed
  /\ CommitsFollow

\* The log is the numbers up to the last that committed.
LEMMA LogIsInterval ==
  ASSUME LogInv
  PROVE  \E n \in 0..MaxSeq : committed = 1..n /\ n <= counter
<1> USE SizesAssumption DEF LogInv, CommitsFollow
<1>1. CASE RowFree BY <1>1
<1>2. CASE ~ RowFree
  <2>1. PICK p \in Procs : writer[p].phase = "flushed" BY <1>2 DEF RowFree
  <2>2. counter # 0 /\ committed = 1..(counter - 1) BY <2>1
  <2>3. counter - 1 \in 0..MaxSeq BY <2>2
  <2> QED BY <2>2, <2>3
<1> QED BY <1>1, <1>2

\* A transaction takes the next number, when the row is free.
LEMMA InsertKeepsLog ==
  ASSUME LogInv, NEW p \in Procs, Insert(p) PROVE LogInv' /\ committed' = committed
<1> USE SizesAssumption DEF LogInv, Insert
<1>1. writer'[p] = [phase |-> "flushed", seq |-> counter + 1]
      /\ \A q \in Procs \ {p} : writer'[q] = writer[q] /\ writer[q].phase # "flushed"
  BY DEF RowFree
<1>2. counter' \in 0..MaxSeq /\ counter' = counter + 1 OBVIOUS
<1>3. writer' \in [Procs -> WriterState] BY <1>2 DEF WriterState
<1>4. committed' = committed /\ rows' = rows /\ committed = 1..counter BY DEF CommitsFollow
<1>5. CommitsFollow'
  <2>1. counter' - 1 = counter BY <1>2
  <2>2. ~ RowFree' BY <1>1 DEF RowFree
  <2> QED BY <1>1, <1>2, <1>4, <2>1, <2>2 DEF CommitsFollow
<1>6. \A q \in Procs : writer'[q].phase = "committed" => writer'[q].seq \in committed' BY <1>1, <1>4
<1> QED BY <1>2, <1>3, <1>4, <1>5, <1>6

\* The number that commits is the one after the log's last.
LEMMA CommitKeepsLog ==
  ASSUME LogInv, NEW p \in Procs, Commit(p)
  PROVE  LogInv' /\ \E n \in 0..(MaxSeq - 1) : committed = 1..n /\ committed' = 1..(n + 1)
<1> USE SizesAssumption DEF LogInv, Commit
<1>1. writer'[p].phase = "committed" /\ writer'[p].seq = writer[p].seq
      /\ \A q \in Procs \ {p} : writer'[q] = writer[q] /\ writer[q].phase # "flushed"
  BY DEF CommitsFollow, WriterState
<1>2. counter # 0 /\ writer[p].seq = counter /\ committed = 1..(counter - 1) /\ counter' = counter
  BY DEF CommitsFollow
<1>3. committed' = 1..counter /\ committed \subseteq committed'
  <2>1. 1..counter = (1..(counter - 1)) \cup {counter} BY <1>2
  <2> QED BY <1>2, <2>1
<1>4. writer' \in [Procs -> WriterState] BY DEF WriterState
<1>5. CommitsFollow' BY <1>1, <1>2, <1>3 DEF CommitsFollow
<1>6. \A q \in Procs : writer'[q].phase = "committed" => writer'[q].seq \in committed' BY <1>1, <1>2, <1>3
<1>7. rows' \subseteq committed' BY <1>3
<1>8. counter - 1 \in 0..(MaxSeq - 1) /\ (counter - 1) + 1 = counter BY <1>2, SMTT(30)
<1> QED BY <1>2, <1>3, <1>4, <1>5, <1>6, <1>7, <1>8

\* A transaction that comes to nothing gives its number back.
LEMMA RollbackKeepsLog ==
  ASSUME LogInv, NEW p \in Procs, committed' = committed, rows' = rows,
         counter' = IF writer[p].phase = "flushed" THEN counter - 1 ELSE counter,
         writer' = [writer EXCEPT ![p] = Idle]
  PROVE  LogInv'
<1> USE SizesAssumption DEF LogInv
<1>1. writer'[p] = [phase |-> "idle", seq |-> 0] /\ \A q \in Procs \ {p} : writer'[q] = writer[q] BY DEF Idle
<1>2. writer' \in [Procs -> WriterState] BY DEF WriterState, Idle
<1>3. \A q \in Procs : writer'[q].phase = "committed" => writer'[q].seq \in committed' BY <1>1
<1>4. CASE writer[p].phase = "flushed"
  <2>1. counter # 0 /\ committed = 1..(counter - 1) /\ counter' = counter - 1 BY <1>4 DEF CommitsFollow
  <2>2. \A q \in Procs : writer'[q].phase # "flushed" BY <1>1, <1>4 DEF CommitsFollow
  <2>3. CommitsFollow' BY <2>1, <2>2 DEF CommitsFollow
  <2>4. counter' \in 0..MaxSeq BY <2>1
  <2> QED BY <1>2, <1>3, <2>3, <2>4
<1>5. CASE writer[p].phase # "flushed"
  <2>1. RowFree' => RowFree BY <1>1, <1>5 DEF RowFree
  <2>2. CommitsFollow' BY <1>1, <1>5, <2>1 DEF CommitsFollow
  <2> QED BY <1>2, <1>3, <1>5, <2>2
<1> QED BY <1>4, <1>5

\* The stash is handed over after the commit.
LEMMA HandKeepsLog ==
  ASSUME LogInv, NEW p \in Procs, Hand(p) PROVE LogInv' /\ committed' = committed
BY RollbackKeepsLog DEF Hand, dbVars

\* The steps of the way, of the page and of retention write nothing to the log.
LEMMA OthersKeepLog ==
  ASSUME LogInv,
         \/ \E p \in Procs : Drain(p)
         \/ Dispatch \/ DeadLetter \/ Open \/ ReadReplay \/ DropSlowClient \/ Receive \/ Refresh \/ Fetch
         \/ DecideOrReview \/ AnswerRead \/ LandRead
         \/ Disconnect \/ FailFetch \/ FailRead \/ Prune \/ UNCHANGED vars
  PROVE  LogInv' /\ committed' = committed
<1>1. UNCHANGED <<counter, committed, writer>>
  BY DEF Drain, Dispatch, DeadLetter, Open, ReadReplay, DropSlowClient, Receive, Refresh, Fetch, DecideOrReview,
         AnswerRead, LandRead, Disconnect, FailFetch, FailRead, Prune, vars, dbVars, busVars
<1>2. rows' \subseteq rows
  BY DEF Drain, Dispatch, DeadLetter, Open, ReadReplay, DropSlowClient, Receive, Refresh, Fetch, DecideOrReview,
         AnswerRead, LandRead, Disconnect, FailFetch, FailRead, Prune, vars, dbVars
<1> QED BY <1>1, <1>2 DEF LogInv, CommitsFollow, RowFree

\* Whatever happens, the log stays whole, and grows by the next number or not at all.
LEMMA LogStep ==
  ASSUME LogInv, [Next]_vars
  PROVE  /\ LogInv'
         /\ \/ committed' = committed
            \/ /\ \E n \in 0..(MaxSeq - 1) : committed = 1..n /\ committed' = 1..(n + 1)
               /\ \E p \in Procs : Commit(p)
<1>1. ASSUME NEW p \in Procs, Insert(p) PROVE LogInv' /\ committed' = committed BY <1>1, InsertKeepsLog
<1>2. ASSUME NEW p \in Procs, Commit(p)
      PROVE  LogInv' /\ \E n \in 0..(MaxSeq - 1) : committed = 1..n /\ committed' = 1..(n + 1)
  BY <1>2, CommitKeepsLog
<1>3. ASSUME NEW p \in Procs, Rollback(p) \/ CrashProc(p) PROVE LogInv' /\ committed' = committed
  BY <1>3, RollbackKeepsLog DEF Rollback, CrashProc
<1>4. ASSUME NEW p \in Procs, Hand(p) PROVE LogInv' /\ committed' = committed BY <1>4, HandKeepsLog
<1> QED BY <1>1, <1>2, <1>3, <1>4, OthersKeepLog DEF Next

-----------------------------------------------------------------------------
(* The way: only committed events are under way.                           *)

Known == committed \cup {0}

Delivery == [seq : committed, tries : 1..MaxDeliver, dead : BOOLEAN]

BusInv ==
  /\ bus \in [Procs -> Seq(committed)] /\ \A p \in Procs : Len(bus[p]) <= BusSize
  /\ stream \in Seq(Delivery)

ConnInv ==
  /\ conn \in {"none", "opening", "live"}
  /\ replay \in Seq(Known) /\ queue \in Seq(committed)
  /\ Len(queue) <= QueueSize /\ drops \in 0..MaxDrops

\* What was under way still is, when the log grows.
LEMMA WayGrows ==
  ASSUME committed \subseteq committed',
         BusInv, ConnInv, UNCHANGED <<bus, stream, connVars>>
  PROVE  BusInv' /\ ConnInv'
<1>1. Seq(committed) \subseteq Seq(committed') BY SeqMonotonic
<1>2. Seq(Known) \subseteq Seq(Known')
  <2>1. Known \subseteq Known' BY DEF Known
  <2> QED BY <2>1, SeqMonotonic
<1>3. Seq(Delivery) \subseteq Seq(Delivery')
  <2>1. Delivery \subseteq Delivery' BY DEF Delivery
  <2> QED BY <2>1, SeqMonotonic
<1> QED BY <1>1, <1>2, <1>3 DEF BusInv, ConnInv, connVars

\* The bus of a process takes what it committed; the stream takes what was on a bus.
LEMMA BusesKeepBus ==
  ASSUME LogInv, BusInv, NEW p \in Procs, Hand(p) \/ Drain(p) \/ CrashProc(p), committed' = committed
  PROVE  BusInv'
<1> USE SizesAssumption DEF BusInv
<1>1. Delivery' = Delivery BY DEF Delivery
<1>2. bus[p] \in Seq(committed) OBVIOUS
<1>3. CASE Hand(p)
  <2> USE <1>3 DEF Hand
  <2>1. writer[p].seq \in committed BY DEF LogInv
  <2>2. Len(bus[p]) < BusSize => Append(bus[p], writer[p].seq) \in Seq(committed)
                                 /\ Len(Append(bus[p], writer[p].seq)) <= BusSize
    BY <1>2, <2>1
  <2> QED BY <1>1, <2>2
<1>4. CASE Drain(p)
  <2> USE <1>4 DEF Drain
  <2>1. Tail(bus[p]) \in Seq(committed) /\ Head(bus[p]) \in committed /\ Len(Tail(bus[p])) <= BusSize BY <1>2
  <2>2. Message(Head(bus[p]), 1, FALSE) \in Delivery BY <2>1 DEF Message, Delivery
  <2>3. stream' \in Seq(Delivery)
    <3>1. ASSUME NEW m \in Delivery PROVE Append(stream, m) \in Seq(Delivery) OBVIOUS
    <3>2. stream' = stream \/ stream' = Append(stream, Message(Head(bus[p]), 1, FALSE)) OBVIOUS
    <3> QED BY <2>2, <3>1, <3>2
  <2>4. bus' \in [Procs -> Seq(committed)] /\ \A q \in Procs : Len(bus'[q]) <= BusSize BY <2>1
  <2> QED BY <1>1, <2>3, <2>4
<1>5. CASE CrashProc(p) BY <1>1, <1>5 DEF CrashProc
<1> QED BY <1>3, <1>4, <1>5

\* What comes again, or is put aside, was on the stream before.
LEMMA GatewayKeepsBus ==
  ASSUME BusInv, Dispatch \/ DeadLetter PROVE BusInv'
<1> USE SizesAssumption DEF BusInv
<1>1. committed' = committed /\ bus' = bus /\ Delivery' = Delivery BY DEF Dispatch, DeadLetter, dbVars, Delivery
<1>2. stream # <<>> BY DEF Dispatch, DeadLetter
<1>3. Head(stream) \in Delivery /\ Tail(stream) \in Seq(Delivery) BY <1>2
<1>4. ASSUME NEW m \in Delivery PROVE Append(Tail(stream), m) \in Seq(Delivery) BY <1>3
<1>5. ASSUME NEW m \in Delivery, m.tries < MaxDeliver PROVE [m EXCEPT !.tries = @ + 1] \in Delivery
  <2>1. m.tries + 1 \in 1..MaxDeliver BY <1>5 DEF Delivery
  <2>2. ASSUME NEW n \in 1..MaxDeliver PROVE [m EXCEPT !.tries = n] \in Delivery BY DEF Delivery
  <2> QED BY <2>1, <2>2
<1>6. Redelivered(Head(stream)) \in Seq(Delivery) BY <1>3, <1>4, <1>5 DEF Redelivered
<1>7. Message(Head(stream).seq, 1, TRUE) \in Delivery BY <1>3 DEF Message, Delivery
<1>8. stream' \in Seq(Delivery) BY <1>3, <1>4, <1>6, <1>7 DEF Dispatch, DeadLetter
<1> QED BY <1>1, <1>8

\* A replay consists of rows, after the frame that asks for a fetch.
LEMMA FramesAreKnown ==
  ASSUME LogInv, NEW n \in Nat
  PROVE  ReplayFrames(n) \in Seq(Known)
<1> DEFINE after == {s \in rows : s > n}
<1>1. PICK k \in 0..MaxSeq : committed = 1..k BY LogIsInterval
<1>2. MaxSeq \in Nat /\ Page \in Nat BY SizesAssumption
<1>3. after \in SUBSET (0..MaxSeq) /\ after \subseteq Known
  <2>1. after \subseteq committed BY DEF LogInv
  <2>2. committed \subseteq 0..MaxSeq BY <1>1, <1>2
  <2> HIDE DEF after
  <2> QED BY <2>1, <2>2 DEF Known
<1>4. Sorted(after) \in Seq(Known) /\ Len(Sorted(after)) \in Nat
  <2>1. Sorted(after) \in Seq(after) BY <1>2, <1>3, SortedIsSeq
  <2>2. Seq(after) \subseteq Seq(Known) BY <1>3, SeqMonotonic
  <2> HIDE DEF after
  <2> QED BY <2>1, <2>2
<1> DEFINE sorted == Sorted(after)
           last == Min({Page, Len(sorted)})
<1>5. last \in Nat /\ last <= Len(sorted) BY <1>2, <1>4, MinOfTwo
<1> HIDE DEF last, sorted, after
<1>6. sorted \in Seq(Known) BY <1>4 DEF sorted
<1>7. SubSeq(sorted, 1, last) \in Seq(Known) BY <1>5, <1>6
<1>8. <<ResyncFrame>> \in Seq(Known) /\ <<>> \in Seq(Known) BY DEF Known, ResyncFrame
<1>9. <<ResyncFrame>> \o SubSeq(sorted, 1, last) \in Seq(Known)
      /\ <<>> \o SubSeq(sorted, 1, last) \in Seq(Known)
  BY <1>7, <1>8
<1>10. \/ ReplayFrames(n) = <<ResyncFrame>> \o SubSeq(sorted, 1, last)
       \/ ReplayFrames(n) = <<>> \o SubSeq(sorted, 1, last)
  BY DEF ReplayFrames, sorted, last, after
<1> QED BY <1>9, <1>10

\* A connection ends with empty queues.
LEMMA EndedIsEmpty ==
  ASSUME NoConnection PROVE ConnInv'
BY SizesAssumption DEF NoConnection, ConnInv

\* The queue of a connection takes what the stream delivers, up to its size.
LEMMA DispatchKeepsConn ==
  ASSUME BusInv, ConnInv, Dispatch PROVE ConnInv'
<1> USE SizesAssumption DEF ConnInv
<1>1. UNCHANGED <<committed, conn, replay>> /\ Known' = Known BY DEF Dispatch, dbVars, Known
<1>2. PICK s \in committed : Broadcast(s)
  <2>1. Head(stream) \in Delivery BY DEF BusInv, Dispatch
  <2> QED BY <2>1 DEF Dispatch, Delivery
<1>3. CASE UNCHANGED <<queue, drops>> BY <1>1, <1>3
<1>4. CASE Len(queue) < QueueSize /\ queue' = Append(queue, s) /\ UNCHANGED drops
  <2>1. queue' \in Seq(committed) /\ Len(queue') <= QueueSize BY <1>4
  <2> QED BY <1>1, <1>4, <2>1
<1>5. CASE drops' = Min({drops + 1, MaxDrops}) /\ UNCHANGED queue
  <2>1. drops + 1 \in Nat /\ MaxDrops \in Nat OBVIOUS
  <2>2. drops' \in 0..MaxDrops BY <1>5, <2>1, MinOfTwo
  <2> QED BY <1>1, <1>5, <2>2
<1> QED BY <1>2, <1>3, <1>4, <1>5 DEF Broadcast

\* The generator's replay, and the frames the page takes off a connection.
LEMMA ConnectionKeepsConn ==
  ASSUME LogInv, ConnInv, cursor \in Nat, Open \/ ReadReplay \/ Receive PROVE ConnInv'
<1> USE DEF ConnInv
<1>1. committed' = committed /\ Known' = Known BY DEF Open, ReadReplay, Receive, dbVars, Known
<1>2. CASE Open BY <1>1, <1>2 DEF Open
<1>3. CASE ReadReplay BY <1>1, <1>3, FramesAreKnown DEF ReadReplay
<1>4. CASE Receive
  <2>1. CASE NoConnection BY <2>1, EndedIsEmpty
  <2>2. CASE ~ NoConnection
    <3>1. conn' = conn /\ drops' = drops
          /\ \/ replay # <<>> /\ replay' = Tail(replay) /\ UNCHANGED queue
             \/ queue # <<>> /\ queue' = Tail(queue) /\ UNCHANGED replay
      BY <1>4, <2>2 DEF Receive, Take, StartJob, Verdict
    <3>2. replay # <<>> => Tail(replay) \in Seq(Known) OBVIOUS
    <3>3. queue # <<>> => Tail(queue) \in Seq(committed) /\ Len(Tail(queue)) <= QueueSize
      BY SizesAssumption
    <3>4. replay' \in Seq(Known) BY <3>1, <3>2
    <3>5. queue' \in Seq(committed) /\ Len(queue') <= QueueSize BY <3>1, <3>3
    <3> QED BY <1>1, <3>1, <3>4, <3>5
  <2> QED BY <2>1, <2>2
<1> QED BY <1>2, <1>3, <1>4

-----------------------------------------------------------------------------
(* The page: it is never ahead of the log, and while it must fetch it has  *)
(* no connection.                                                          *)

ListInv ==
  /\ asked \in 0..MaxReads /\ answers \in [0..MaxSeq -> 0..MaxReads] /\ spoiled \in BOOLEAN

PageInv ==
  /\ need \in BOOLEAN /\ job \in {"none", "events", "entities"}
  /\ snap \in Known /\ floor \in Known /\ snap <= floor
  /\ cursor \in Known /\ mirror \in [Entities -> Known]
  /\ job # "none" => need
  /\ need => conn = "none"
  /\ ListInv
  /\ NoSilentLoss

\* The last event of a kind among the first n is a number of the log, and the last.
LEMMA LastOfKind ==
  ASSUME LogInv, NEW S \in SUBSET committed
  PROVE  Max({0} \cup S) \in Known /\ \A s \in S : s <= Max({0} \cup S)
<1>1. PICK n \in 0..MaxSeq : committed = 1..n BY LogIsInterval
<1>2. n \in Nat BY <1>1, SizesAssumption
<1>3. {0} \cup S \in SUBSET (0..n) /\ {0} \cup S # {} BY <1>1, <1>2
<1>4. Max({0} \cup S) \in {0} \cup S /\ \A y \in {0} \cup S : y <= Max({0} \cup S)
  BY <1>2, <1>3, MaxOf
<1> QED BY <1>4 DEF Known

\* The state of an entity at some time is that of the last event about it until then.
LEMMA LatestIsLast ==
  ASSUME LogInv, NEW e, NEW n
  PROVE  Latest(e, n) \in Known /\ \A s \in committed : s <= n /\ Owner(s) = e => s <= Latest(e, n)
<1> DEFINE S == {s \in committed : s <= n /\ Owner(s) = e}
<1>1. S \in SUBSET committed OBVIOUS
<1>2. Latest(e, n) = Max({0} \cup S) BY DEF Latest
<1>3. Max({0} \cup S) \in Known /\ \A s \in S : s <= Max({0} \cup S) BY <1>1, LastOfKind
<1>4. \A s \in committed : s <= n /\ Owner(s) = e => s \in S OBVIOUS
<1> HIDE DEF S
<1> QED BY <1>2, <1>3, <1>4

\* What the log holds, and what a page's variables hold, are numbers.
LEMMA LogIsNumbers ==
  ASSUME LogInv
  PROVE  /\ committed \subseteq 1..MaxSeq /\ committed \subseteq Nat
         /\ Known \subseteq 0..MaxSeq /\ Known \subseteq Nat /\ MaxSeq \in Nat /\ MaxReads \in Nat \ {0}
<1>1. PICK k \in 0..MaxSeq : committed = 1..k BY LogIsInterval
<1> QED BY <1>1, SizesAssumption DEF Known

\* A list of events gives a cursor within the log, whichever rows it holds.
LEMMA CursorsAreKnown ==
  ASSUME LogInv, NEW n \in ListCursors PROVE n \in Known
<1>1. PICK k \in 0..MaxSeq : committed = 1..k BY LogIsInterval
<1>2. k \in Nat BY <1>1, SizesAssumption
<1>3. PICK page \in SUBSET rows : n = Max({0} \cup page) BY DEF ListCursors, kSubset
<1>4. {0} \cup page \in SUBSET (0..k) /\ {0} \cup page # {}
  <2>1. committed \subseteq 0..k BY <1>1, <1>2
  <2>2. page \subseteq committed BY <1>3 DEF LogInv
  <2> QED BY <1>2, <2>1, <2>2
<1>5. n \in {0} \cup page BY <1>2, <1>3, <1>4, MaxOf
<1> QED BY <1>5 DEF Known, LogInv

\* What the log does by itself leaves the page as right as it was: an event that
\* commits is ahead of every cursor.
LEMMA LogKeepsPage ==
  ASSUME LogInv, LogInv', PageInv, UNCHANGED clientVars, need => conn' = "none",
         \/ committed' = committed
         \/ \E n \in 0..(MaxSeq - 1) : committed = 1..n /\ committed' = 1..(n + 1)
  PROVE  PageInv'
<1> USE DEF PageInv, clientVars, listVars
<1>0. PICK k \in 0..MaxSeq : committed = 1..k BY LogIsInterval
<1>1. /\ committed \subseteq committed' /\ committed' \subseteq Nat
      /\ \A s \in committed' \ committed : \A t \in Known : t < s
  <2>1. CASE committed' = committed BY <1>0, <2>1, SizesAssumption
  <2>2. CASE \E n \in 0..(MaxSeq - 1) : committed = 1..n /\ committed' = 1..(n + 1)
    <3>1. PICK n \in 0..(MaxSeq - 1) : committed = 1..n /\ committed' = 1..(n + 1) BY <2>2
    <3> QED BY <3>1, SizesAssumption DEF Known
  <2> QED BY <2>1, <2>2
<1>2. Known \subseteq Known' BY <1>1 DEF Known
<1>3. /\ snap' \in Known' /\ floor' \in Known' /\ snap' <= floor'
      /\ cursor' \in Known' /\ mirror' \in [Entities -> Known']
  BY <1>2
<1>4. NoSilentLoss'
  <2> SUFFICES ASSUME ~ need, NEW s \in committed', s <= cursor
               PROVE  Shows(s) \/ (Owner(s) \in Requests /\ (ReadComes(s) \/ spoiled))
    BY DEF NoSilentLoss, Shows, ReadComes
  <2>1. cursor \in Nat /\ s \in Nat BY <1>0, <1>1, SizesAssumption DEF Known
  <2>2. s \in committed BY <1>1, <2>1
  <2> QED BY <2>2 DEF NoSilentLoss
<1>5. ListInv' BY DEF ListInv
<1> QED BY <1>3, <1>4, <1>5

\* A read that is asked for is asked for, however many there are already.
LEMMA AskIsCounted ==
  ASSUME ListInv, Ask PROVE asked' \in 1..MaxReads
<1>1. asked + 1 \in Nat /\ MaxReads \in Nat \ {0} BY SizesAssumption DEF ListInv
<1>2. Min({asked + 1, MaxReads}) \in {asked + 1, MaxReads} /\ Min({asked + 1, MaxReads}) <= MaxReads
  BY <1>1, MinOfTwo
<1>3. asked \in Nat BY SizesAssumption DEF ListInv
<1> QED BY <1>1, <1>2, <1>3 DEF Ask

\* What the page does with the next event, in the terms of the replica.
Applies ==
  /\ ~ need /\ ~ need' /\ cursor + 1 \in committed /\ cursor' = cursor + 1
  /\ \E shown \in Known :
       /\ shown = cursor + 1 \/ Owner(cursor + 1) \in Requests
       /\ mirror' = [mirror EXCEPT ![Owner(cursor + 1)] = shown]

\* An event of an agent or a task shows at once; one about a request starts a read.
LEMMA ApplyKeepsPage ==
  ASSUME LogInv, PageInv, ~ need, NEW s \in committed, s = cursor + 1, Apply(s), UNCHANGED <<committed, conn>>
  PROVE  PageInv' /\ Applies
<1> USE DEF PageInv
<1>1. committed \subseteq Nat /\ Known \subseteq Nat BY LogIsNumbers
<1>2. cursor \in Nat /\ s \in Nat /\ Known' = Known /\ 0 \in Known /\ s \in Known BY <1>1 DEF Known
<1>3. UNCHANGED <<need, job, snap, floor, answers, spoiled>> /\ cursor' = s BY DEF Apply
<1>4. ASSUME NEW t \in committed, t <= s, t # s
      PROVE  Shows(t) \/ (Owner(t) \in Requests /\ (ReadComes(t) \/ spoiled))
  <2>1. t \in Nat BY <1>1
  <2>2. t <= cursor BY <1>2, <1>4, <2>1
  <2> QED BY <2>2 DEF NoSilentLoss
<1>5. CASE Owner(s) \in Requests
  <2>1. PICK shown \in {mirror[Owner(s)], s, 0} : mirror' = [mirror EXCEPT ![Owner(s)] = shown]
    BY <1>5 DEF Apply
  <2>2. Owner(s) \in Entities BY <1>5, RequestsAssumption
  <2>3. shown \in Known BY <1>2, <2>1, <2>2
  <2>4. mirror' \in [Entities -> Known] BY <2>1, <2>3
  <2>5. asked' \in 1..MaxReads BY <1>5, AskIsCounted DEF Apply
  <2>6. asked' > 0 /\ asked' \in 0..MaxReads BY <2>5, SizesAssumption
  <2>7. ListInv' BY <1>3, <2>6 DEF ListInv
  <2>8. ASSUME NEW t \in committed, t <= s, Owner(t) \notin Requests PROVE Shows(t)'
    <3>1. Owner(t) # Owner(s) /\ t # s BY <1>5, <2>8
    <3>2. Shows(t) BY <1>4, <2>8, <3>1
    <3> QED BY <2>1, <3>1, <3>2 DEF Shows
  <2>9. NoSilentLoss' BY <1>3, <2>6, <2>8 DEF NoSilentLoss, ReadComes
  <2>10. Applies BY <1>3, <1>5, <2>1, <2>3 DEF Applies
  <2> QED BY <1>2, <1>3, <2>4, <2>7, <2>9, <2>10
<1>6. CASE Owner(s) \notin Requests
  <2>1. mirror' = [mirror EXCEPT ![Owner(s)] = s] /\ asked' = asked BY <1>6 DEF Apply
  <2>2. mirror' \in [Entities -> Known] BY <1>2, <2>1
  <2>3. ListInv' BY <1>3, <2>1 DEF ListInv
  <2>4. ASSUME NEW t \in committed, t <= s
        PROVE  (Shows(t) \/ (Owner(t) \in Requests /\ (ReadComes(t) \/ spoiled)))'
    <3>1. CASE Owner(t) = Owner(s)
      <4>1. t \in Nat BY <1>1
      <4>2. Owner(t) \in Entities => mirror'[Owner(t)] = s BY <2>1, <3>1
      <4>3. Owner(t) \in Entities => mirror'[Owner(t)] >= t BY <1>2, <2>4, <4>1, <4>2
      <4> QED BY <4>3 DEF Shows
    <3>2. CASE Owner(t) # Owner(s)
      <4>1. Shows(t) \/ (Owner(t) \in Requests /\ (ReadComes(t) \/ spoiled)) BY <1>4, <2>4, <3>2
      <4>2. Shows(t) => Shows(t)' BY <2>1, <3>2 DEF Shows
      <4>3. ReadComes(t) => ReadComes(t)' BY <1>3, <2>1 DEF ReadComes
      <4> QED BY <1>3, <4>1, <4>2, <4>3
    <3> QED BY <3>1, <3>2
  <2>5. NoSilentLoss' BY <1>3, <2>4 DEF NoSilentLoss
  <2>6. Applies BY <1>2, <1>3, <2>1 DEF Applies
  <2> QED BY <1>2, <1>3, <2>2, <2>3, <2>5, <2>6
<1> QED BY <1>5, <1>6

\* What the page knows of itself does not depend on its connection, while it need not
\* fetch.
LEMMA SamePage ==
  ASSUME LogInv, PageInv, UNCHANGED <<committed, clientVars>>, need => conn' = "none" PROVE PageInv'
BY DEF PageInv, clientVars, listVars, ListInv, NoSilentLoss, Shows, ReadComes, Known

\* A page that must fetch has no connection, and its copy stays as it was.
LEMMA JobKeepsPage ==
  ASSUME LogInv, PageInv, StartJob, UNCHANGED committed PROVE PageInv'
BY DEF PageInv, StartJob, NoConnection, listVars, ListInv, NoSilentLoss, Known

\* The page takes a frame: it applies the next event, passes over an old one, or
\* knows that it must fetch.
LEMMA ReceiveKeepsPage ==
  ASSUME LogInv, ConnInv, PageInv, Receive
  PROVE  /\ PageInv'
         /\ \/ UNCHANGED <<need, cursor, mirror>>
            \/ need' /\ UNCHANGED <<cursor, mirror>>
            \/ Applies
<1>1. PICK k \in 0..MaxSeq : committed = 1..k BY LogIsInterval
<1>2. k \in Nat /\ MaxSeq \in Nat /\ cursor \in Nat BY <1>1, SizesAssumption DEF PageInv, Known
<1>3. committed' = committed /\ Known' = Known /\ conn = "live" /\ ~ need /\ job = "none"
  BY DEF Receive, dbVars, Known, PageInv
<1>4. PICK s \in Known : Take(s)
  <2>1. replay # <<>> => Head(replay) \in Known BY DEF ConnInv
  <2>2. queue # <<>> => Head(queue) \in Known BY DEF ConnInv, Known
  <2> QED BY <2>1, <2>2 DEF Receive
<1>5. CASE Verdict(s) = "duplicate" /\ UNCHANGED <<clientVars, conn, drops>>
  <2>1. PageInv' BY <1>3, <1>5, SamePage
  <2> QED BY <1>5, <2>1 DEF clientVars
<1>6. CASE Verdict(s) = "gap" /\ StartJob
  <2>1. PageInv' BY <1>3, <1>6, JobKeepsPage
  <2> QED BY <1>6, <2>1 DEF StartJob
<1>7. CASE Verdict(s) = "apply" /\ Apply(s) /\ UNCHANGED <<conn, drops>>
  <2>1. s = cursor + 1
    <3>1. s \in Nat BY <1>1, <1>2 DEF Known
    <3>2. ~ (s > cursor + 1) /\ ~ (s <= cursor) BY <1>7 DEF Verdict
    <3> QED BY <1>2, <3>1, <3>2
  <2>2. s \in committed BY <1>2, <2>1 DEF Known
  <2>3. UNCHANGED <<committed, conn>> BY <1>3, <1>7
  <2> QED BY <1>3, <1>7, <2>1, <2>2, <2>3, ApplyKeepsPage
<1> QED BY <1>4, <1>5, <1>6, <1>7 DEF Take

\* What the page does with what it fetched, in the terms of the replica.
Adopts ==
  /\ need /\ ~ need' /\ cursor' \in Known /\ mirror' \in [Entities -> Known]
  /\ \A s \in committed : s <= cursor' /\ Owner(s) \in Entities => mirror'[Owner(s)] >= s

\* A page that must fetch reads the list of events, then the entities, in that order.
LEMMA FetchKeepsPage ==
  ASSUME LogInv, PageInv, Fetch
  PROVE  PageInv' /\ (UNCHANGED <<need, cursor, mirror>> \/ Adopts)
<1> USE DEF PageInv
<1>1. committed' = committed /\ Known' = Known /\ conn' = conn BY DEF Fetch, dbVars, connVars, Known
<1>2. need = TRUE /\ conn = "none" BY DEF Fetch
<1>3. PICK k \in 0..MaxSeq : committed = 1..k BY LogIsInterval
<1>4. k \in Nat /\ Cardinality(committed) = k /\ Known = 0..k
  <2>1. k \in Nat BY <1>3, SizesAssumption
  <2>2. Cardinality(1..k) = k BY <2>1, FS_Interval
  <2>3. Known = 0..k BY <1>3, <2>1 DEF Known
  <2> QED BY <1>3, <2>1, <2>2, <2>3
<1>5. CASE job = "events"
  <2>1. PICK n \in ListCursors : snap' = n BY <1>5 DEF Fetch, Adopt
  <2>2. n \in Known BY <2>1, CursorsAreKnown
  <2>3. UNCHANGED <<need, cursor, mirror, listVars>> /\ job' = "entities" /\ floor' = k BY <1>4, <1>5 DEF Fetch
  <2>4. floor' \in Known /\ snap' <= floor' BY <1>4, <2>1, <2>2, <2>3
  <2>5. ListInv' BY <2>3 DEF ListInv, listVars
  <2> QED BY <1>1, <1>2, <2>1, <2>2, <2>3, <2>4, <2>5 DEF NoSilentLoss
<1>6. CASE job = "entities"
  <2>1. PICK read \in [Entities -> floor..k] : Adopt(snap, [e \in Entities |-> Latest(e, read[e])])
    BY <1>4, <1>6 DEF Fetch
  <2>2. \A e \in Entities : /\ Latest(e, read[e]) \in Known
                            /\ \A s \in committed : s <= read[e] /\ Owner(s) = e => s <= Latest(e, read[e])
    BY LatestIsLast
  <2>3. mirror' = [e \in Entities |-> Latest(e, read[e])] BY <2>1 DEF Adopt
  <2>4. mirror' \in [Entities -> Known] BY <2>2, <2>3
  <2>5. /\ need' = FALSE /\ job' = "none" /\ snap' = 0 /\ floor' = 0 /\ cursor' = snap
        /\ spoiled' = FALSE /\ UNCHANGED <<asked, answers>>
    BY <2>1 DEF Adopt
  <2>6. ASSUME NEW s \in committed, s <= snap, Owner(s) \in Entities PROVE mirror'[Owner(s)] >= s
    <3>1. s \in Nat /\ snap \in Nat /\ floor \in Nat BY <1>3, <1>4
    <3>2. read[Owner(s)] \in Nat /\ floor <= read[Owner(s)] BY <1>4, <2>6, <3>1
    <3>3. s <= read[Owner(s)] BY <2>6, <3>1, <3>2
    <3>4. s <= Latest(Owner(s), read[Owner(s)]) /\ Latest(Owner(s), read[Owner(s)]) \in Nat
      BY <1>4, <2>2, <2>6, <3>3
    <3>5. mirror'[Owner(s)] = Latest(Owner(s), read[Owner(s)]) BY <2>3, <2>6
    <3> HIDE DEF Latest
    <3> QED BY <3>1, <3>4, <3>5
  <2>7. ListInv' BY <2>5 DEF ListInv
  <2>8. NoSilentLoss' BY <1>1, <2>5, <2>6 DEF NoSilentLoss, Shows
  <2>9. 0 \in Known /\ 0 <= 0 BY <1>4
  <2>10. PageInv'
    <3>1. snap' \in Known' /\ floor' \in Known' /\ snap' <= floor' /\ cursor' \in Known'
      BY <1>1, <2>5, <2>9
    <3>2. need' \in BOOLEAN /\ job' = "none" /\ (need' => conn' = "none") BY <1>1, <2>5
    <3> QED BY <1>1, <2>4, <2>7, <2>8, <3>1, <3>2
  <2>11. Adopts BY <1>2, <2>4, <2>5, <2>6 DEF Adopts
  <2> QED BY <2>10, <2>11
<1> QED BY <1>5, <1>6 DEF Fetch

\* The other steps of the page and its connection.
LEMMA RestKeepsPage ==
  ASSUME LogInv, PageInv, Open \/ ReadReplay \/ DropSlowClient \/ Refresh \/ Disconnect \/ FailFetch
  PROVE  PageInv' /\ UNCHANGED <<cursor, mirror>> /\ (need' = need \/ need')
<1>1. committed' = committed BY DEF Open, ReadReplay, DropSlowClient, Refresh, Disconnect, FailFetch, dbVars
<1>2. CASE Open \/ ReadReplay \/ DropSlowClient \/ Disconnect
  <2>1. UNCHANGED clientVars BY <1>2 DEF Open, ReadReplay, DropSlowClient, Disconnect
  <2>2. need => conn' = "none" BY <1>2 DEF Open, ReadReplay, DropSlowClient, Disconnect, NoConnection, PageInv
  <2> QED BY <1>1, <2>1, <2>2, SamePage DEF clientVars
<1>3. CASE Refresh BY <1>1, <1>3, JobKeepsPage DEF Refresh, StartJob
<1>4. CASE FailFetch
  <2>1. /\ UNCHANGED <<need, cursor, mirror, listVars, conn>>
        /\ job' = "none" /\ snap' = 0 /\ floor' = 0 /\ need
    BY <1>4 DEF FailFetch, connVars, PageInv
  <2> QED BY <1>1, <2>1 DEF PageInv, ListInv, listVars, NoSilentLoss, Known
<1> QED BY <1>2, <1>3, <1>4

\* What a read of the list of requests does to the page, in the terms of the replica.
Relists ==
  /\ UNCHANGED <<need, cursor>> /\ mirror' \in [Entities -> Known]
  /\ \A e \in Entities \ Requests : mirror'[e] = mirror[e]

\* A read is asked for or answered: whatever is missing from the list is in the read.
LEMMA ReadKeepsPage ==
  ASSUME LogInv, PageInv, DecideOrReview \/ AnswerRead
  PROVE  PageInv' /\ UNCHANGED <<need, cursor, mirror>>
<1> USE DEF PageInv
<1>1. UNCHANGED <<committed, need, job, snap, floor, cursor, mirror, conn, spoiled>> /\ Known' = Known
  BY DEF DecideOrReview, AnswerRead, dbVars, connVars, Known
<1>2. CASE DecideOrReview
  <2>1. asked' \in 1..MaxReads /\ answers' = answers BY <1>2, AskIsCounted DEF DecideOrReview
  <2>2. asked' > 0 /\ asked' \in 0..MaxReads BY <2>1, SizesAssumption
  <2>3. ListInv' BY <1>1, <2>1, <2>2 DEF ListInv
  <2>4. NoSilentLoss' BY <1>1, <2>2 DEF NoSilentLoss, ReadComes, Shows
  <2> QED BY <1>1, <2>3, <2>4
<1>3. CASE AnswerRead
  <2> DEFINE S == {s \in committed : Owner(s) \in Requests}
             last == Max({0} \cup S)
  <2>1. last \in Known /\ \A s \in S : s <= last
    <3>1. S \in SUBSET committed OBVIOUS
    <3> QED BY <3>1, LastOfKind
  <2>2. asked > 0 /\ asked' = asked - 1 /\ answers' = [answers EXCEPT ![last] = Min({@ + 1, MaxReads})]
    BY <1>3 DEF AnswerRead
  <2>3. \A s \in committed : Owner(s) \in Requests => s \in S OBVIOUS
  <2> HIDE DEF last, S
  <2>4. last \in 0..MaxSeq /\ last \in Nat /\ MaxReads \in Nat \ {0} BY <2>1, LogIsNumbers
  <2>5. Min({answers[last] + 1, MaxReads}) \in 1..MaxReads
    <3>1. answers[last] \in Nat BY <2>4 DEF ListInv
    <3>2. answers[last] + 1 \in Nat \ {0} BY <3>1
    <3>3. PICK m : m = Min({answers[last] + 1, MaxReads}) OBVIOUS
    <3>4. m \in {answers[last] + 1, MaxReads} /\ m <= MaxReads BY <2>4, <3>2, <3>3, MinOfTwo
    <3>5. m \in 1..MaxReads BY <2>4, <3>2, <3>4
    <3> QED BY <3>3, <3>5
  <2>6. ListInv' BY <1>1, <2>2, <2>4, <2>5 DEF ListInv
  <2>7. answers'[last] > 0 BY <2>2, <2>4, <2>5 DEF ListInv
  <2>8. ASSUME NEW s \in committed, Owner(s) \in Requests PROVE ReadComes(s)'
    <3>1. s \in Nat /\ MaxSeq \in Nat BY LogIsNumbers
    <3>2. last \in s..MaxSeq BY <2>1, <2>3, <2>4, <2>8, <3>1
    <3> QED BY <2>7, <3>2 DEF ReadComes
  <2>9. NoSilentLoss'
    <3>1. \A s \in committed : Shows(s)' = Shows(s) BY <1>1 DEF Shows
    <3> QED BY <1>1, <2>8, <3>1 DEF NoSilentLoss
  <2> QED BY <1>1, <2>6, <2>9
<1> QED BY <1>2, <1>3

\* An answer replaces the list.  What the list then lacks is in a read under way, or
\* the answer was older than the list.
LEMMA LandKeepsPage ==
  ASSUME LogInv, PageInv, LandRead PROVE PageInv' /\ Relists
<1> USE DEF PageInv
<1>1. UNCHANGED <<committed, need, job, snap, floor, cursor, conn, asked>> /\ Known' = Known
  BY DEF LandRead, dbVars, connVars, Known
<1>2. PICK n \in 0..MaxSeq :
        /\ answers[n] > 0 /\ answers' = [answers EXCEPT ![n] = @ - 1]
        /\ mirror' = [e \in Entities |-> IF e \in Requests THEN Latest(e, n) ELSE mirror[e]]
        /\ spoiled' = (Lacks(mirror') /\ (spoiled \/ \E e \in Requests : Latest(e, n) < mirror[e]))
  BY DEF LandRead
<1>3. committed \subseteq Nat /\ Known \subseteq Nat /\ MaxSeq \in Nat /\ MaxReads \in Nat \ {0} BY LogIsNumbers
<1>4. \A e : Latest(e, n) \in Known /\ \A s \in committed : s <= n /\ Owner(s) = e => s <= Latest(e, n)
  BY LatestIsLast
<1>5. mirror' \in [Entities -> Known] BY <1>2, <1>4
<1>6. \A e \in Entities \ Requests : mirror'[e] = mirror[e] BY <1>2
<1>7. ListInv'
  <2>1. answers[n] - 1 \in 0..MaxReads BY <1>2, <1>3 DEF ListInv
  <2>2. answers' \in [0..MaxSeq -> 0..MaxReads] BY <1>2, <2>1 DEF ListInv
  <2>3. spoiled' \in BOOLEAN BY <1>2
  <2> QED BY <1>1, <2>2, <2>3 DEF ListInv
<1>8. NoSilentLoss'
  <2> SUFFICES ASSUME ~ need, NEW t \in committed, t <= cursor, ~ Shows(t)'
               PROVE  Owner(t) \in Requests /\ (ReadComes(t)' \/ spoiled')
    BY <1>1 DEF NoSilentLoss
  <2>1. Owner(t) \in Entities /\ ~ (mirror'[Owner(t)] >= t) BY DEF Shows
  <2>2. Owner(t) \in Requests
    <3>1. CASE Owner(t) \notin Requests
      <4>1. mirror[Owner(t)] >= t BY <2>1, <3>1 DEF NoSilentLoss, Shows
      <4> QED BY <1>6, <2>1, <3>1, <4>1
    <3> QED BY <3>1
  <2>3. mirror'[Owner(t)] = Latest(Owner(t), n) /\ Latest(Owner(t), n) \in Nat /\ t \in Nat
    BY <1>2, <1>3, <1>4, <2>1, <2>2
  <2>4. Latest(Owner(t), n) < t BY <2>1, <2>3
  <2>5. Lacks(mirror') BY <2>2, <2>3, <2>4 DEF Lacks
  <2>6. SUFFICES ASSUME ~ spoiled' PROVE ReadComes(t)' BY <2>2
  <2>7. ~ spoiled /\ ~ (Latest(Owner(t), n) < mirror[Owner(t)]) BY <1>2, <2>2, <2>5, <2>6
  <2>8. mirror[Owner(t)] \in Nat BY <1>3, <2>1
  <2>9. ~ Shows(t)
    <3>1. ~ (mirror[Owner(t)] >= t) BY <2>3, <2>4, <2>7, <2>8
    <3> QED BY <2>1, <3>1 DEF Shows
  <2>10. ReadComes(t) BY <2>7, <2>9 DEF NoSilentLoss
  <2>11. CASE asked > 0 BY <1>1, <2>11 DEF ReadComes
  <2>12. CASE \E m \in t..MaxSeq : answers[m] > 0
    <3>1. PICK m \in t..MaxSeq : answers[m] > 0 BY <2>12
    <3>2. m # n
      <4>1. ~ (t <= n) BY <1>4, <2>3, <2>4
      <4> QED BY <2>3, <3>1, <4>1
    <3>3. answers'[m] > 0 BY <1>2, <3>1, <3>2, <2>3 DEF ListInv
    <3> QED BY <3>1, <3>3 DEF ReadComes
  <2> QED BY <2>10, <2>11, <2>12 DEF ReadComes
<1>9. Relists BY <1>1, <1>5, <1>6 DEF Relists
<1> QED BY <1>1, <1>5, <1>7, <1>8, <1>9

\* A read that fails leaves the list as it is, and it is known to be the worse for it.
LEMMA FailReadKeepsPage ==
  ASSUME LogInv, PageInv, FailRead PROVE PageInv' /\ UNCHANGED <<need, cursor, mirror>>
<1> USE DEF PageInv
<1>1. UNCHANGED <<committed, need, job, snap, floor, cursor, mirror, conn>> /\ Known' = Known
  BY DEF FailRead, dbVars, connVars, Known
<1>2. MaxReads \in Nat \ {0} /\ spoiled' = (spoiled \/ Lacks(mirror)) BY SizesAssumption DEF FailRead
<1>3. ListInv'
  <2>1. CASE asked > 0 /\ asked' = asked - 1 /\ UNCHANGED answers BY <1>2, <2>1 DEF ListInv
  <2>2. CASE UNCHANGED asked /\ \E n \in 0..MaxSeq : answers[n] > 0 /\ answers' = [answers EXCEPT ![n] = @ - 1]
    <3>1. PICK n \in 0..MaxSeq : answers[n] > 0 /\ answers' = [answers EXCEPT ![n] = @ - 1] BY <2>2
    <3>2. answers[n] - 1 \in 0..MaxReads BY <1>2, <3>1 DEF ListInv
    <3> QED BY <1>2, <2>2, <3>1, <3>2 DEF ListInv
  <2> QED BY <2>1, <2>2 DEF FailRead
<1>4. NoSilentLoss'
  <2> SUFFICES ASSUME ~ need, NEW t \in committed, t <= cursor, ~ Shows(t)
               PROVE  Owner(t) \in Requests /\ spoiled'
    BY <1>1 DEF NoSilentLoss, Shows
  <2>1. Owner(t) \in Requests BY DEF NoSilentLoss
  <2>2. mirror[Owner(t)] \in Nat /\ t \in Nat BY <2>1, LogIsNumbers, RequestsAssumption
  <2>3. mirror[Owner(t)] < t BY <2>1, <2>2, RequestsAssumption DEF Shows
  <2> QED BY <1>2, <2>1, <2>3 DEF Lacks
<1> QED BY <1>1, <1>3, <1>4

-----------------------------------------------------------------------------
(* The whole.                                                              *)

StreamInv == LogInv /\ BusInv /\ ConnInv /\ PageInv /\ faults \in 0..MaxFaults

\* The first load finds nothing, and must fetch.
LEMMA InitIsSafe == ASSUME Init PROVE StreamInv
<1> USE SizesAssumption DEF Init
<1>1. \A p \in Procs : writer[p] = [phase |-> "idle", seq |-> 0] BY DEF Idle
<1>2. LogInv BY <1>1 DEF LogInv, CommitsFollow, WriterState, Idle
<1>3. BusInv BY DEF BusInv
<1>4. ConnInv BY DEF ConnInv
<1>5. PageInv
  <2>1. 0 \in Known /\ 0 <= 0 BY DEF Known
  <2>2. ListInv
    <3>1. 0 \in 0..MaxReads /\ asked = 0 /\ spoiled = FALSE OBVIOUS
    <3>2. answers \in [0..MaxSeq -> 0..MaxReads] BY <3>1
    <3> QED BY <3>1, <3>2 DEF ListInv
  <2>3. NoSilentLoss BY DEF NoSilentLoss
  <2> QED BY <2>1, <2>2, <2>3 DEF PageInv
<1> QED BY <1>2, <1>3, <1>4, <1>5 DEF StreamInv

\* A step keeps what is known of the way and of the connection.
LEMMA WayStep ==
  ASSUME StreamInv, [Next]_vars PROVE BusInv' /\ ConnInv'
<1> USE DEF StreamInv
<1>1. committed \subseteq committed'
  <2>1. CASE committed' = committed BY <2>1
  <2>2. CASE \E n \in 0..(MaxSeq - 1) : committed = 1..n /\ committed' = 1..(n + 1)
    BY <2>2, SizesAssumption
  <2> QED BY <2>1, <2>2, LogStep
<1>2. cursor \in Nat
  <2>1. PICK k \in 0..MaxSeq : committed = 1..k BY LogIsInterval
  <2> QED BY <2>1, SizesAssumption DEF PageInv, Known
<1>3. ASSUME UNCHANGED <<bus, stream>> PROVE BusInv'
  <2>1. Seq(committed) \subseteq Seq(committed') BY <1>1, SeqMonotonic
  <2>2. Seq(Delivery) \subseteq Seq(Delivery')
    <3>1. Delivery \subseteq Delivery' BY <1>1 DEF Delivery
    <3> QED BY <3>1, SeqMonotonic
  <2> QED BY <1>3, <2>1, <2>2 DEF BusInv
<1>4. ASSUME UNCHANGED connVars PROVE ConnInv'
  <2>1. Seq(committed) \subseteq Seq(committed') BY <1>1, SeqMonotonic
  <2>2. Seq(Known) \subseteq Seq(Known')
    <3>1. Known \subseteq Known' BY <1>1 DEF Known
    <3> QED BY <3>1, SeqMonotonic
  <2> QED BY <1>4, <2>1, <2>2 DEF ConnInv, connVars
<1>5. ASSUME NEW p \in Procs, Insert(p) \/ Commit(p) \/ Rollback(p) PROVE BusInv' /\ ConnInv'
  BY <1>3, <1>4, <1>5 DEF Insert, Commit, Rollback
<1>6. ASSUME NEW p \in Procs, Hand(p) \/ Drain(p) \/ CrashProc(p) PROVE BusInv' /\ ConnInv'
  <2>1. committed' = committed BY <1>6 DEF Hand, Drain, CrashProc, dbVars
  <2>2. BusInv' BY <1>6, <2>1, BusesKeepBus
  <2>3. UNCHANGED connVars \/ NoConnection BY <1>6 DEF Hand, Drain, CrashProc
  <2> QED BY <1>4, <2>2, <2>3, EndedIsEmpty
<1>7. CASE Dispatch BY <1>7, GatewayKeepsBus, DispatchKeepsConn
<1>8. CASE DeadLetter
  <2>1. UNCHANGED connVars BY <1>8 DEF DeadLetter
  <2> QED BY <1>4, <1>8, <2>1, GatewayKeepsBus
<1>9. CASE Open \/ ReadReplay \/ Receive
  <2>1. UNCHANGED <<bus, stream>> BY <1>9 DEF Open, ReadReplay, Receive, busVars
  <2> QED BY <1>2, <1>3, <1>9, <2>1, ConnectionKeepsConn
<1>10. CASE DropSlowClient \/ Refresh \/ Disconnect
  <2>1. UNCHANGED <<bus, stream>> BY <1>10 DEF DropSlowClient, Refresh, Disconnect, busVars
  <2>2. NoConnection BY <1>10 DEF DropSlowClient, Refresh, Disconnect, StartJob
  <2> QED BY <1>3, <2>1, <2>2, EndedIsEmpty
<1>11. CASE Fetch \/ DecideOrReview \/ AnswerRead \/ LandRead \/ FailFetch \/ FailRead \/ Prune \/ UNCHANGED vars
  <2>1. UNCHANGED <<bus, stream>>
    BY <1>11 DEF Fetch, DecideOrReview, AnswerRead, LandRead, FailFetch, FailRead, Prune, vars, busVars
  <2>2. UNCHANGED connVars
    BY <1>11 DEF Fetch, DecideOrReview, AnswerRead, LandRead, FailFetch, FailRead, Prune, vars
  <2> QED BY <1>3, <1>4, <2>1, <2>2
<1> QED BY <1>5, <1>6, <1>7, <1>8, <1>9, <1>10, <1>11 DEF Next

\* What a step does to the page, in the terms of the replica: nothing; it learns that
\* it must fetch; it applies the next event of the log; it adopts what it fetched; or
\* the list of requests is replaced.
PageStep ==
  \/ UNCHANGED <<need, cursor, mirror>>
  \/ /\ UNCHANGED committed
     /\ \/ need' /\ UNCHANGED <<cursor, mirror>>
        \/ Applies \/ Adopts \/ Relists

\* A step keeps what is known of the page.
LEMMA PageStepIsSafe ==
  ASSUME StreamInv, [Next]_vars
  PROVE  PageInv' /\ PageStep /\ (committed' = committed \/ UNCHANGED <<need, cursor, mirror>>)
<1> USE DEF StreamInv
<1>1. LogInv' BY LogStep
<1>2. ASSUME UNCHANGED clientVars, need => conn' = "none"
      PROVE  PageInv' /\ UNCHANGED <<need, cursor, mirror>>
  <2>1. \/ committed' = committed
        \/ \E n \in 0..(MaxSeq - 1) : committed = 1..n /\ committed' = 1..(n + 1)
    BY LogStep
  <2>2. PageInv' BY <1>1, <1>2, <2>1, LogKeepsPage
  <2> QED BY <1>2, <2>2 DEF clientVars
<1>3. need => conn = "none" BY DEF PageInv
<1>4. ASSUME NEW p \in Procs,
             Insert(p) \/ Commit(p) \/ Rollback(p) \/ Hand(p) \/ Drain(p) \/ CrashProc(p)
      PROVE  PageInv' /\ UNCHANGED <<need, cursor, mirror>>
  <2>1. UNCHANGED clientVars BY <1>4 DEF Insert, Commit, Rollback, Hand, Drain, CrashProc
  <2>2. conn' = conn \/ conn' = "none"
    BY <1>4 DEF Insert, Commit, Rollback, Hand, Drain, CrashProc, NoConnection, connVars
  <2> QED BY <1>2, <1>3, <2>1, <2>2
<1>5. CASE Dispatch \/ DeadLetter \/ Prune \/ UNCHANGED vars
  <2>1. UNCHANGED clientVars BY <1>5 DEF Dispatch, DeadLetter, Prune, vars
  <2>2. conn' = conn BY <1>5 DEF Dispatch, DeadLetter, Prune, vars, connVars
  <2> QED BY <1>2, <1>3, <2>1, <2>2 DEF PageStep
<1>6. CASE Receive
  <2>1. committed' = committed BY <1>6 DEF Receive, dbVars
  <2> QED BY <1>6, <2>1, ReceiveKeepsPage DEF PageStep
<1>7. CASE Fetch
  <2>1. committed' = committed BY <1>7 DEF Fetch, dbVars
  <2> QED BY <1>7, <2>1, FetchKeepsPage DEF PageStep
<1>8. CASE Open \/ ReadReplay \/ DropSlowClient \/ Refresh \/ Disconnect \/ FailFetch
  <2>1. committed' = committed
    BY <1>8 DEF Open, ReadReplay, DropSlowClient, Refresh, Disconnect, FailFetch, dbVars
  <2> QED BY <1>8, <2>1, RestKeepsPage DEF PageStep
<1>9. CASE DecideOrReview \/ AnswerRead \/ FailRead
  BY <1>9, ReadKeepsPage, FailReadKeepsPage DEF PageStep
<1>10. CASE LandRead
  <2>1. committed' = committed BY <1>10 DEF LandRead, dbVars
  <2> QED BY <1>10, <2>1, LandKeepsPage DEF PageStep
<1> QED BY <1>4, <1>5, <1>6, <1>7, <1>8, <1>9, <1>10 DEF Next, PageStep

\* Every step keeps the invariant.
LEMMA StepIsSafe == ASSUME StreamInv, [Next]_vars PROVE StreamInv'
<1>1. faults' = faults \/ (faults < MaxFaults /\ faults' = faults + 1)
  BY DEF Next, Insert, Commit, Rollback, Hand, Drain, CrashProc, Dispatch, DeadLetter, Open, ReadReplay,
         DropSlowClient, Receive, Refresh, Fetch, DecideOrReview, AnswerRead, LandRead, Disconnect,
         FailFetch, FailRead, Prune, Fault, vars
<1>2. faults' \in 0..MaxFaults BY <1>1, SizesAssumption DEF StreamInv
<1> QED BY <1>2, LogStep, WayStep, PageStepIsSafe DEF StreamInv

\* Whatever is written, dropped, reordered, dead-lettered, pruned or cut off: a page
\* that does not know it must fetch shows every committed event up to its cursor, or,
\* of a request, will show it with a read under way, unless its reads were lost or
\* overtaken.
THEOREM StreamSafe == Spec => []NoSilentLoss
<1>1. StreamInv => NoSilentLoss BY DEF StreamInv, PageInv
<1> QED BY <1>1, InitIsSafe, StepIsSafe, PTL DEF Spec

\* Every queue on the way keeps its bound, and holds events that exist.
THEOREM StreamTyped == Spec => []TypeOK
<1>1. ASSUME StreamInv PROVE TypeOK
  <2> USE <1>1 DEF StreamInv
  <2>1. PICK k \in 0..MaxSeq : committed = 1..k BY LogIsInterval
  <2>2. committed \subseteq Events /\ Known \subseteq 0..MaxSeq
    BY <2>1, SizesAssumption DEF Events, Known
  <2>3. /\ Seq(committed) \subseteq Seq(Events)
        /\ Seq(Known) \subseteq Seq(Events \cup {ResyncFrame})
        /\ Seq(Delivery) \subseteq Seq([seq : Events, tries : 1..MaxDeliver, dead : BOOLEAN])
    <3>1. Known \subseteq Events \cup {ResyncFrame} BY <2>2 DEF Known, ResyncFrame
    <3>2. Delivery \subseteq [seq : Events, tries : 1..MaxDeliver, dead : BOOLEAN] BY <2>2 DEF Delivery
    <3> QED BY <2>2, <3>1, <3>2, SeqMonotonic
  <2>4. bus \in [Procs -> Seq(Events)] /\ (\A p \in Procs : Len(bus[p]) <= BusSize)
        /\ stream \in Seq([seq : Events, tries : 1..MaxDeliver, dead : BOOLEAN])
    BY <2>3 DEF BusInv
  <2>5. replay \in Seq(Events \cup {ResyncFrame}) /\ queue \in Seq(Events) BY <2>3 DEF ConnInv
  <2>6. snap \in 0..MaxSeq /\ floor \in 0..MaxSeq /\ cursor \in 0..MaxSeq /\ mirror \in [Entities -> 0..MaxSeq]
    BY <2>2 DEF PageInv
  <2> QED BY <2>2, <2>4, <2>5, <2>6 DEF TypeOK, LogInv, WriterState, ConnInv, PageInv, ListInv
<1> QED BY <1>1, InitIsSafe, StepIsSafe, PTL DEF Spec

-----------------------------------------------------------------------------
(* The page implements the replica.                                        *)

\* The first load is a replica nobody trusts.
LEMMA InitIsInit == ASSUME Init PROVE AsReplica!Init
BY FS_EmptySet DEF Init, AsReplica!Init

\* A step of the stream is a step of the replica or leaves it alone.
LEMMA StepIsStep == ASSUME StreamInv, [Next]_vars PROVE [AsReplica!Next]_AsReplica!vars
<1> USE DEF StreamInv
<1>1. ASSUME NEW n \in Nat PROVE Cardinality(1..n) = n
  BY FS_Interval
<1>2. PICK k \in 0..MaxSeq : committed = 1..k BY LogIsInterval
<1>3. k \in Nat /\ Cardinality(committed) = k BY <1>1, <1>2, SizesAssumption
<1>4. cursor \in Nat BY <1>2, SizesAssumption DEF PageInv, Known
<1>5. CASE committed' # committed
  <2>1. UNCHANGED <<need, cursor, mirror>> BY <1>5, PageStepIsSafe
  <2>2. PICK n \in 0..(MaxSeq - 1) : committed = 1..n /\ committed' = 1..(n + 1) BY <1>5, LogStep
  <2>3. n \in Nat /\ n + 1 \in Nat BY <2>2, SizesAssumption
  <2>4. Cardinality(committed) = n /\ Cardinality(committed') = n + 1 BY <1>1, <2>2, <2>3
  <2>5. Cardinality(committed)' = Cardinality(committed) + 1 BY <2>4
  <2>6. AsReplica!Extend BY <2>1, <2>5 DEF AsReplica!Extend
  <2> QED BY <2>6 DEF AsReplica!Next
<1>6. CASE committed' = committed
  <2>1. Cardinality(committed)' = Cardinality(committed) BY <1>6
  <2>2. CASE UNCHANGED <<need, cursor, mirror>> BY <2>1, <2>2 DEF AsReplica!vars
  <2>3. CASE need' /\ UNCHANGED <<cursor, mirror>>
    <3>1. CASE need
      <4>1. need' = need BY <2>3, <3>1, PageStepIsSafe DEF PageInv
      <4> QED BY <2>1, <2>3, <4>1 DEF AsReplica!vars
    <3>2. CASE ~ need
      <4>1. AsReplica!Distrust BY <2>1, <2>3, <3>2 DEF AsReplica!Distrust
      <4> QED BY <4>1 DEF AsReplica!Next
    <3> QED BY <3>1, <3>2
  <2>4. CASE Applies
    <3>1. cursor < Cardinality(committed) BY <1>2, <1>3, <1>4, <2>4 DEF Applies
    <3>2. Known = 0..Cardinality(committed) BY <1>2, <1>3 DEF Known
    <3>3. AsReplica!Follow BY <2>1, <2>4, <3>1, <3>2 DEF AsReplica!Follow, Applies
    <3> QED BY <3>3 DEF AsReplica!Next
  <2>5. CASE Adopts
    <3>1. Known = 0..Cardinality(committed) BY <1>2, <1>3 DEF Known
    <3>2. \A s \in 1..cursor' : s \in committed /\ s <= cursor' BY <1>2, <1>3, <2>5, <3>1 DEF Adopts
    <3>3. AsReplica!Adopt BY <2>1, <2>5, <3>1, <3>2 DEF AsReplica!Adopt, AsReplica!Covers, Adopts
    <3> QED BY <3>3 DEF AsReplica!Next
  <2>6. CASE Relists
    <3>1. Known = 0..Cardinality(committed) BY <1>2, <1>3 DEF Known
    <3>2. AsReplica!Relist BY <2>1, <2>6, <3>1 DEF AsReplica!Relist, Relists
    <3> QED BY <3>2 DEF AsReplica!Next
  <2> QED BY <2>2, <2>3, <2>4, <2>5, <2>6, PageStepIsSafe DEF PageStep
<1> QED BY <1>5, <1>6

\* The page of the web UI implements the replica: it follows the log one event after
\* the other, or distrusts its copy, or adopts a copy that has all it claims; beside
\* that only its list of requests changes.
THEOREM StreamFollowsTheLog == Spec => FollowsTheLog
BY InitIsInit, InitIsSafe, StepIsSafe, StepIsStep, PTL DEF Spec, FollowsTheLog, AsReplica!Spec

=============================================================================
