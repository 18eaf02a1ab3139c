---------------------------- MODULE MCEventStream ----------------------------
(***************************************************************************)
(* Instances of EventStream: a task (1) and a list of requests (0), which  *)
(* events touch by turns.                                                  *)
(***************************************************************************)
EXTENDS EventStream

CONSTANTS api, worker

TwoEntities == {0, 1}
TheList == {0}
Alternating(s) == s % 2
FirstIsPoison == {1}

\* The community module's sort, by definition another, gives the same sequences.
ASSUME SortedAssumption == \A S \in SUBSET (1..4) : Sorted(S) = SetToSortSeq(S, <)
=============================================================================
