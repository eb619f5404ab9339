------------------------------- MODULE MCFarm -------------------------------
(* Finite instances of Farm: the configurations give the constants their values. *)
EXTENDS Farm
=============================================================================
