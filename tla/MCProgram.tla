------------------------------ MODULE MCProgram -----------------------------
(* Bounds for TLC runs of Program. *)
EXTENDS Program
=============================================================================
