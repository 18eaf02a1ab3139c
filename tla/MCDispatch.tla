----------------------------- MODULE MCDispatch -----------------------------
(***************************************************************************)
(* Instances of Dispatch: the most urgent task depends on the one below    *)
(* it, and there is one task no tick may start.                            *)
(***************************************************************************)
EXTENDS Dispatch

CONSTANTS k1, k2

Chain      == [t \in Tasks |-> IF t < 3 THEN {t + 1} ELSE {}]
OneRole    == [t \in Tasks |-> IF t \in {1, 3} THEN "implementer" ELSE "debugger"]
OneCap     == [r \in {"implementer"} |-> 1]
LastTooDeep == [t \in Tasks |-> IF t = NTasks THEN 3 ELSE 0]
SecondTask == {2}
=============================================================================
