--------------------------- MODULE MessageOutbox ---------------------------
(***************************************************************************)
(* Messages between agents: durable rows (services/orchestration/          *)
(* messages.py) and the passes that fan them out to a JetStream stream     *)
(* (POST /api/messages/deliver-pending, messaging/broker.py).  Several     *)
(* passes may run at once; each dies, or fails to hear an acknowledgement, *)
(* anywhere.                                                               *)
(***************************************************************************)
EXTENDS Naturals, Sequences, FiniteSets, SequencesExt

CONSTANTS
  NMessages,    \* messages, numbered in the order of created_at
  Unpublishable,\* messages every publish of which fails (too large, no such subject)
  FanOuts,      \* requests of deliver-pending that may be open at once
  Limit,        \* rows a pass reads
  MaxLosses     \* bound: passes that die, publishes that fail, windows that end

Messages == 1..NMessages

ASSUME OutboxAssumption ==
  /\ NMessages \in Nat /\ Limit \in Nat \ {0} /\ MaxLosses \in Nat
  /\ Unpublishable \subseteq Messages

VARIABLES
  message,    \* state of each row: "none", "pending", "delivered", "expired"
  tried,      \* rows with delivery_attempts > 0
  copies,     \* copies of each message the stream has stored
  window,     \* message ids in the stream's duplicate window
  fanOut,     \* progress of each pass: rows left to publish, attempted, acknowledged
  losses

outboxVars == <<message, tried, copies, window, fanOut, losses>>

NoFanOut == [pc |-> "idle", left |-> <<>>, attempted |-> {}, acked |-> {}]
Lose == losses < MaxLosses /\ losses' = losses + 1

\* send_message; rows commit in the order of their created_at
Send(m) ==
  /\ message[m] = "none" /\ \A o \in 1..(m - 1) : message[o] # "none"
  /\ message' = [message EXCEPT ![m] = "pending"]
  /\ UNCHANGED <<tried, copies, window, fanOut, losses>>

\* Past its ttl a row is pending no more; a row may have none.
Expire(m) ==
  /\ message[m] = "pending"
  /\ message' = [message EXCEPT ![m] = "expired"]
  /\ UNCHANGED <<tried, copies, window, fanOut, losses>>

Pending == SelectSeq([m \in Messages |-> m], LAMBDA m : message[m] = "pending")

ReadPending(f) ==
  /\ fanOut[f] = NoFanOut /\ Pending # <<>>
  /\ fanOut' = [fanOut EXCEPT ![f].pc = "publish",
                  ![f].left = SubSeq(Pending, 1, IF Len(Pending) < Limit THEN Len(Pending) ELSE Limit)]
  /\ UNCHANGED <<message, tried, copies, window, losses>>

\* The stream drops a message whose id it has seen within its window.
StoreInStream(m) ==
  /\ copies' = [copies EXCEPT ![m] = IF m \in window THEN @ ELSE @ + 1]
  /\ window' = window \union {m}

Current(f) == Head(fanOut[f].left)
Publishing(f) == fanOut[f].pc = "publish" /\ fanOut[f].left # <<>>

Advance(f, acked) ==
  fanOut' = [fanOut EXCEPT ![f] = [@ EXCEPT !.left = Tail(@), !.attempted = @ \union {Current(f)},
                                            !.acked = @ \union acked]]

Publish(f) ==
  /\ Publishing(f) /\ Current(f) \notin Unpublishable
  /\ StoreInStream(Current(f)) /\ Advance(f, {Current(f)})
  /\ UNCHANGED <<message, tried, losses>>

\* Mutant of AfterFailure: the pass ends with the first message that fails.
StopAtFailure(f) == fanOut' = [fanOut EXCEPT ![f].left = <<>>, ![f].attempted = @ \union {Current(f)}]

\* The next message is tried after a failure.
AfterFailure(f) == Advance(f, {})

RejectPublish(f) ==
  /\ Publishing(f) /\ Current(f) \in Unpublishable
  /\ AfterFailure(f)
  /\ UNCHANGED <<message, tried, copies, window, losses>>

\* The broker is away, or stores the message and its acknowledgement is lost.
FailPublish(f) ==
  /\ Publishing(f) /\ Current(f) \notin Unpublishable /\ Lose
  /\ StoreInStream(Current(f)) \/ UNCHANGED <<copies, window>>
  /\ AfterFailure(f)
  /\ UNCHANGED <<message, tried>>

RecordAttempts(f) ==
  /\ fanOut[f].pc = "publish" /\ fanOut[f].left = <<>>
  /\ tried' = tried \union fanOut[f].attempted
  /\ fanOut' = [fanOut EXCEPT ![f].pc = "mark"]
  /\ UNCHANGED <<message, copies, window, losses>>

\* Rows delivered_at of which is set keep it; expiry is not looked at again.
MarkDelivered(f) ==
  /\ fanOut[f].pc = "mark"
  /\ message' = [m \in Messages |-> IF m \in fanOut[f].acked THEN "delivered" ELSE message[m]]
  /\ fanOut' = [fanOut EXCEPT ![f] = NoFanOut]
  /\ UNCHANGED <<tried, copies, window, losses>>

DieFanOut(f) ==
  /\ fanOut[f] # NoFanOut /\ Lose
  /\ fanOut' = [fanOut EXCEPT ![f] = NoFanOut]
  /\ UNCHANGED <<message, tried, copies, window>>

\* duplicate_window passes since the message was stored
EndWindow(m) ==
  /\ m \in window /\ Lose
  /\ window' = window \ {m}
  /\ UNCHANGED <<message, tried, copies, fanOut>>

----------------------------------------------------------------------------
OutboxInit ==
  /\ message = [m \in Messages |-> "none"] /\ tried = {} /\ losses = 0
  /\ copies = [m \in Messages |-> 0] /\ window = {}
  /\ fanOut = [f \in FanOuts |-> NoFanOut]

Pass(f) ==
  ReadPending(f) \/ Publish(f) \/ RejectPublish(f) \/ RecordAttempts(f) \/ MarkDelivered(f)
OutboxNext ==
  \/ \E m \in Messages : Send(m) \/ Expire(m) \/ EndWindow(m)
  \/ \E f \in FanOuts : Pass(f) \/ FailPublish(f) \/ DieFanOut(f)

\* Somebody keeps asking for passes, and a pass that has begun goes on; the
\* broker is away for at most MaxLosses publishes.
OutboxFairness == \A f \in FanOuts : WF_outboxVars(Pass(f))

\* A message is marked delivered only if the stream stored it, and the stream
\* stores it once per duplicate window (acknowledgements lost, passes that
\* overlap or die and start again included).
MarkedWasStored ==
  /\ \A m \in Messages : message[m] = "delivered" => copies[m] > 0
  /\ \A m \in Messages : copies[m] <= 1 + losses

\* A message that can be published is delivered or expires, whatever fails
\* beside it (one pass tries every row it has read; fewer rows are beyond
\* publishing than a pass reads), and delivered means stored.
MessagesGetThrough ==
  /\ \A m \in Messages \ Unpublishable : message[m] = "pending" ~> message[m] \in {"delivered", "expired"}
  /\ []MarkedWasStored
=============================================================================
