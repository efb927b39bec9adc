------------------------------- MODULE MCDedup ------------------------------
(***************************************************************************)
(* Two kinds of requests, three ids and the id 0, a window of two.         *)
(***************************************************************************)
EXTENDS DedupMachine

MCIds == 0..3
=============================================================================
