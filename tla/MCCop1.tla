------------------------------- MODULE MCCop1 -------------------------------
(* Finite instances of Cop1: the configurations give the constants their values. *)
EXTENDS Cop1
=============================================================================
