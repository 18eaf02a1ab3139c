------------------------------ MODULE Replica ------------------------------
(***************************************************************************)
(* What a reader of the event stream is promised: a copy of the project    *)
(* that follows a log one entry after the other, or knows that it cannot   *)
(* be trusted and is fetched anew.  Beside the log, a part of the copy is  *)
(* listed by the side: it shows what it was at some time.  EventStream     *)
(* implements this specification.                                          *)
(***************************************************************************)
EXTENDS Naturals

CONSTANTS
  Entities,   \* the things the project's state consists of
  Owner(_),   \* the entity an entry of the log is about, or none of them
  Listed      \* the entities that entries do not carry to the copy

VARIABLES
  head,       \* the log is 1..head
  trusted,    \* the reader takes the copy for the project's state
  position,   \* the last entry the copy is known to contain
  copy        \* the last entry of each entity that shows in the copy

vars == <<head, trusted, position, copy>>

\* Every entry of an entity up to n shows in image.
Covers(image, n) == \A s \in 1..n : Owner(s) \in Entities => image[Owner(s)] >= s

Init == head = 0 /\ ~trusted /\ position = 0 /\ copy = [e \in Entities |-> 0]

Extend == head' = head + 1 /\ UNCHANGED <<trusted, position, copy>>

\* The next entry, and no other, is applied; one about a listed entity need not be.
Follow ==
  /\ trusted /\ position < head
  /\ position' = position + 1
  /\ \E shown \in 0..head :
       /\ shown = position + 1 \/ Owner(position + 1) \in Listed
       /\ copy' = [copy EXCEPT ![Owner(position + 1)] = shown]
  /\ UNCHANGED <<head, trusted>>

\* The listed entities show what they were at some time, trusted or not.
Relist ==
  /\ copy' \in [Entities -> 0..head]
  /\ \A e \in Entities \ Listed : copy'[e] = copy[e]
  /\ UNCHANGED <<head, trusted, position>>

Distrust == trusted /\ ~trusted' /\ UNCHANGED <<head, position, copy>>

\* A fetched copy may be newer than the position it is filed under, never older.
Adopt ==
  /\ ~trusted /\ trusted'
  /\ position' \in 0..head
  /\ copy' \in [Entities -> 0..head] /\ Covers(copy', position')
  /\ UNCHANGED head

Next == Extend \/ Follow \/ Relist \/ Distrust \/ Adopt

Spec == Init /\ [][Next]_vars
=============================================================================
