------------------------------- MODULE Ports -------------------------------
(***************************************************************************)
(* The port allocator: services/execution/ports.py over the table          *)
(* port_allocations as the migrations create it (0009, 0011).  A call      *)
(* reads the clock once, looks for a replay of its key, reads the ports    *)
(* that are taken, and inserts a row for the first candidate left; only    *)
(* the unique index on the key can refuse the insert.                      *)
(***************************************************************************)
EXTENDS Naturals, Sequences, FiniteSets, SequencesExt

CONSTANTS
  PortCalls,    \* calls of allocate that may be open at once
  NPorts,       \* size of the configured range
  PortKeyOf,    \* the idempotency key of each call, or NoPortKey
  Preferred,    \* the preferred port of each call, 0 for none
  NoPortKey,
  MaxRows       \* bound on the rows ever inserted

PortRange == 1..NPorts

ASSUME PortsAssumption ==
  /\ NPorts \in Nat \ {0} /\ MaxRows \in Nat
  /\ DOMAIN PortKeyOf = PortCalls /\ Preferred \in [PortCalls -> 0..NPorts]

VARIABLES
  allocations,  \* rows of port_allocations, in the order of their commits
  bound,        \* ports of the range some process listens on
  renewing,     \* rows a renewal has read as active and not yet written
  call          \* progress of each call of allocate

portVars == <<allocations, bound, renewing, call>>

\* released_at, and expires_at against the clock: expired at once for all readers
RowStates == {"active", "expired", "released"}

FreshCall == [pc |-> "idle", taken |-> {}, port |-> 0, row |-> 0]

Begin(c) ==
  /\ call[c].pc = "idle" /\ Len(allocations) < MaxRows
  /\ call' = [call EXCEPT ![c] = [FreshCall EXCEPT !.pc = "key"]]
  /\ UNCHANGED <<allocations, bound, renewing>>

\* _live_by_key: rows of the key not released and not past their time
Replays(k) == {i \in DOMAIN allocations : k # NoPortKey /\ allocations[i].key = k /\ allocations[i].state = "active"}

Replay(c) == \E i \in Replays(PortKeyOf[c]) :
  call' = [call EXCEPT ![c] = [FreshCall EXCEPT !.pc = "done", !.port = allocations[i].port, !.row = i]]

LookUp(c) ==
  /\ call[c].pc = "key"
  /\ \/ Replay(c)
     \/ Replays(PortKeyOf[c]) = {} /\ call' = [call EXCEPT ![c].pc = "read"]
  /\ UNCHANGED <<allocations, bound, renewing>>

Taken == {allocations[i].port : i \in {j \in DOMAIN allocations : allocations[j].state = "active"}}

ReadTaken(c) ==
  /\ call[c].pc = "read"
  /\ call' = [call EXCEPT ![c].pc = "choose", ![c].taken = Taken]
  /\ UNCHANGED <<allocations, bound, renewing>>

\* The preferred port first, then the range in order.
Before(c, p, q) == p = Preferred[c] \/ (q # Preferred[c] /\ p < q)

\* The bind probe looks at the machine at the moment of the choice.
Choose(c) ==
  LET free == PortRange \ (call[c].taken \union bound) IN
  /\ call[c].pc = "choose"
  /\ \/ /\ free = {} /\ call' = [call EXCEPT ![c] = [FreshCall EXCEPT !.pc = "refused"]]
     \/ \E p \in free :
          /\ \A q \in free \ {p} : Before(c, p, q)
          /\ call' = [call EXCEPT ![c].pc = "insert", ![c].port = p]
  /\ UNCHANGED <<allocations, bound, renewing>>

\* uq_port_allocations_idempotency does not look at released_at.
KeyRowExists(k) == k # NoPortKey /\ \E i \in DOMAIN allocations : allocations[i].key = k

Insert(c) ==
  /\ call[c].pc = "insert" /\ ~ KeyRowExists(PortKeyOf[c])
  /\ allocations' = Append(allocations, [port |-> call[c].port, key |-> PortKeyOf[c], state |-> "active"])
  /\ call' = [call EXCEPT ![c].pc = "done", ![c].row = Len(allocations) + 1, ![c].taken = {}]
  /\ UNCHANGED <<bound, renewing>>

\* Mutant of Skip: the port that was refused is tried again.
SkipNothing(c) == call' = [call EXCEPT ![c].pc = "choose"]

Skip(c) == call' = [call EXCEPT ![c].pc = "choose", ![c].taken = @ \union {call[c].port}]

\* IntegrityError: the winner's row if it is live, else the next port.
LoseInsert(c) ==
  /\ call[c].pc = "insert" /\ KeyRowExists(PortKeyOf[c])
  /\ \/ Replay(c)
     \/ Replays(PortKeyOf[c]) = {} /\ Skip(c)
  /\ UNCHANGED <<allocations, bound, renewing>>

\* The caller has its answer; it may ask again, as a retry does.
Answered(c) ==
  /\ call[c].pc \in {"done", "refused"}
  /\ call' = [call EXCEPT ![c] = FreshCall]
  /\ UNCHANGED <<allocations, bound, renewing>>

\* release, and the sweep of rows past their time (expire_stale)
Release(i) ==
  /\ allocations[i].state # "released"
  /\ allocations' = [allocations EXCEPT ![i].state = "released"]
  /\ UNCHANGED <<bound, renewing, call>>

Lapse(i) ==
  /\ allocations[i].state = "active"
  /\ allocations' = [allocations EXCEPT ![i].state = "expired"]
  /\ UNCHANGED <<bound, renewing, call>>

\* renew checks the row it has read, then writes expires_at: a row that ran
\* out in between is active again, one that was released is not.
ReadRenew(i) ==
  /\ allocations[i].state = "active" /\ i \notin renewing
  /\ renewing' = renewing \union {i}
  /\ UNCHANGED <<allocations, bound, call>>

WriteRenew(i) ==
  /\ i \in renewing
  /\ renewing' = renewing \ {i}
  /\ allocations' = [allocations EXCEPT ![i].state = IF @ = "released" THEN @ ELSE "active"]
  /\ UNCHANGED <<bound, call>>

\* A process of the machine starts or stops to listen.
Listen(p) ==
  /\ bound' = IF p \in bound THEN bound \ {p} ELSE bound \union {p}
  /\ UNCHANGED <<allocations, renewing, call>>

----------------------------------------------------------------------------
PortsInit ==
  /\ allocations = <<>> /\ bound = {} /\ renewing = {}
  /\ call = [c \in PortCalls |-> FreshCall]

Allocate(c) == LookUp(c) \/ ReadTaken(c) \/ Choose(c) \/ Insert(c) \/ LoseInsert(c)
PortsNext ==
  \/ \E c \in PortCalls : Begin(c) \/ Allocate(c) \/ Answered(c)
  \/ \E i \in DOMAIN allocations : Release(i) \/ Lapse(i) \/ ReadRenew(i) \/ WriteRenew(i)
  \/ \E p \in PortRange : Listen(p)

\* A call that has begun goes on.
PortsFairness == \A c \in PortCalls : WF_portVars(Allocate(c))

\* Every call of allocate comes to an answer, also when its key belongs to an
\* allocation that is over and no insert can succeed (the candidate loop).
AllocateAnswers == \A c \in PortCalls : call[c].pc = "key" ~> call[c].pc \in {"done", "refused"}

\* No port is allocated twice at a time.  The code does not keep this: the
\* table has no unique index on the port, although its model declares one.
OneHolder ==
  \A i, j \in DOMAIN allocations :
    allocations[i].port = allocations[j].port /\ allocations[i].state = "active" /\ allocations[j].state = "active"
      => i = j
=============================================================================
