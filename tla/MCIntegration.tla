--------------------------- MODULE MCIntegration ---------------------------
(***************************************************************************)
(* Instances of Integration: two worktrees asked for under one key whose   *)
(* work conflicts, and attempts beside them.                               *)
(***************************************************************************)
EXTENDS Integration

CONSTANTS b1, b2, a1, k1, k2

OneKeyEach == [b \in Branches |-> IF b = b1 THEN k1 ELSE k2]
Worktrees  == {{b1, b2}}
=============================================================================
