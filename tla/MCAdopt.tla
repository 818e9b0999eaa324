------------------------------- MODULE MCAdopt -------------------------------
(***************************************************************************)
(* Adopt of a file with two folders, one of them named, a repeated and an  *)
(* unusable entry.                                                         *)
(***************************************************************************)
EXTENDS Adopt, TLC

CONSTANTS alpha, beta, home, api
MCFolders == <<[path |-> alpha, name |-> NoName], Unusable,
               [path |-> beta, name |-> api], [path |-> alpha, name |-> api]>>
Symmetry == Permutations(Adopters) \cup Permutations(Ids)
==============================================================================
