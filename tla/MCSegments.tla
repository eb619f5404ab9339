----------------------------- MODULE MCSegments -----------------------------
(* Finite instances of Segments: the configurations give the constants their values. *)
EXTENDS Segments
=============================================================================
