------------------------------ MODULE RateLimit ------------------------------
(***************************************************************************)
(* The fixed-window rate limit of the API (api/middleware.py): a bucket    *)
(* per client, in memory, under one lock.  When there are many buckets the *)
(* ones whose window is over are dropped.                                  *)
(***************************************************************************)
EXTENDS Integers, FiniteSets, Functions, FiniteSetsExt, Sums

CONSTANTS
  Callers,      \* client addresses
  Allowed,      \* requests_per_window
  Window,       \* window_seconds
  BucketCap,    \* 10,000 in the code
  MaxTime       \* bound: the clock

ASSUME RateAssumption == {Allowed, Window} \subseteq Nat \ {0} /\ BucketCap \in Nat /\ MaxTime \in Nat

VARIABLES
  now,      \* time.monotonic()
  buckets,  \* client -> [start, count]
  served,   \* per client and time, the requests passed on
  refused   \* the last request that got a 429: [who, when]

rateVars == <<now, buckets, served, refused>>

NoRequest == [who |-> "nobody", when |-> 0]

\* Time passes; the bound ends the behaviour.
TimePasses == now < MaxTime /\ now' = now + 1 /\ UNCHANGED <<buckets, served, refused>>

WindowOver(bucket) == now - bucket.start >= Window

\* Mutant of Evicted: every other bucket goes.
EvictedOthers(c) == DOMAIN buckets \ {c}

\* Expired windows go, the caller's stays.
Evicted(c) == {o \in DOMAIN buckets \ {c} : WindowOver(buckets[o])}

\* The caller's bucket, a new one when it has none or its window is over.
BucketOf(c) ==
  IF c \in DOMAIN buckets /\ ~ WindowOver(buckets[c]) THEN buckets[c] ELSE [start |-> now, count |-> 0]

\* dispatch, up to the answer: everything happens under the lock.  Requests that
\* are refused count as well.
Call(c) ==
  LET bucket == [BucketOf(c) EXCEPT !.count = @ + 1]
      left == DOMAIN buckets \ (IF Cardinality(DOMAIN buckets) > BucketCap THEN Evicted(c) ELSE {})
  IN /\ buckets' = [o \in left \cup {c} |-> IF o = c THEN bucket ELSE buckets[o]]
     /\ IF bucket.count > Allowed
        THEN refused' = [who |-> c, when |-> now] /\ UNCHANGED served
        ELSE served' = [served EXCEPT ![c][now] = @ + 1] /\ UNCHANGED refused
  /\ UNCHANGED now

----------------------------------------------------------------------------
RateInit ==
  /\ now = 0 /\ buckets = [c \in {} |-> NoRequest] /\ refused = NoRequest
  /\ served = [c \in Callers |-> [t \in 0..MaxTime |-> 0]]

RateNext == TimePasses \/ \E c \in Callers : Call(c)

Between(c, from, to) == SumOver(served[c], from, to)

\* No span as long as a window sees more than twice the limit of one client, and
\* who is refused has used up its own limit within the last window: neither the
\* others' requests nor the eviction of buckets take anything away or give
\* anything back.
LimitIsFair ==
  /\ \A c \in Callers, t \in 0..MaxTime : Between(c, t, Min({MaxTime, t + Window - 1})) <= 2 * Allowed
  /\ refused # NoRequest =>
       Between(refused.who, Max({0, refused.when - Window + 1}), refused.when) >= Allowed
=============================================================================
