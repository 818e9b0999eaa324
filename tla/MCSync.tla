------------------------------- MODULE MCSync -------------------------------
(***************************************************************************)
(* Sync with two runs that can be in flight and one pinned folder.         *)
(***************************************************************************)
EXTENDS Sync, TLC

CONSTANTS alpha, beta, home
MCPinned == <<alpha>>
Symmetry == Permutations(Runs) \cup Permutations(Ids)
=============================================================================
