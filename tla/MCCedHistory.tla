---------------------------- MODULE MCCedHistory ----------------------------
(* The same small instances, with the history variables. *)
EXTENDS MCCed, CedHistory
=============================================================================
