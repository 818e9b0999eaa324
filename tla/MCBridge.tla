------------------------------- MODULE MCBridge -------------------------------
(***************************************************************************)
(* Bridge on small instances; the launches are numbered in their order.    *)
(***************************************************************************)
EXTENDS Bridge
===============================================================================
