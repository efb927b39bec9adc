------------------------------- MODULE MCBook -------------------------------
(* Model values and symmetry for TLC runs of BookMachine. *)
EXTENDS BookMachine, TLC

Symmetry == Permutations(OrderIds)
=============================================================================
