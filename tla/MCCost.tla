------------------------------- MODULE MCCost -------------------------------
(* Bounds for TLC runs of CostBasis. *)
EXTENDS CostBasis
=============================================================================
