----------------------------- MODULE MCExchange -----------------------------
(* Model values and bounds for TLC runs of Exchange. *)
EXTENDS Exchange, TLC

Symmetry == Permutations(Accounts) \cup Permutations(OrderIds)
=============================================================================
