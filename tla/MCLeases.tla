------------------------------ MODULE MCLeases ------------------------------
(***************************************************************************)
(* Instances of Leases for TLC: two batches that name the same two keys in *)
(* opposite orders, and single acquisitions.                               *)
(***************************************************************************)
EXTENDS Leases, TLC

CONSTANTS b1, b2, a1, a2

\* Two batches over two keys.
BatchWants == b1 :> <<1, 2>> @@ b2 :> <<2, 1>>

\* Single acquisitions of one key.
SlotWants == b1 :> <<1>> @@ a1 :> <<1>> @@ a2 :> <<1>>
=============================================================================
