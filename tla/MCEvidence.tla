----------------------------- MODULE MCEvidence -----------------------------
(* The artifact store, retention and verification together. *)
EXTENDS Oversight, TLC

CONSTANTS r1, ka

CriteriaOf == ka :> r1

Spec == OversightInit /\ [][OversightNext]_<<blobVars, oversightVars>>
=============================================================================
