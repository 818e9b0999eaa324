---------------------------- MODULE MCCaffeinate -----------------------------
(***************************************************************************)
(* Caffeinate with interchangeable processes.                              *)
(***************************************************************************)
EXTENDS Caffeinate, TLC

Symmetry == Permutations(Procs)
==============================================================================
