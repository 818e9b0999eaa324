--------------------------- MODULE MCTrackCommands ---------------------------
(***************************************************************************)
(* TrackCommands for TLC.  Processes are interchangeable.                  *)
(***************************************************************************)
EXTENDS TrackCommands

Symmetry == Permutations(Proc)
==============================================================================
