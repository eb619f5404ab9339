-------------------------------- MODULE MCFop --------------------------------
(* Finite instances of Fop: the configurations give the constants their values. *)
EXTENDS Fop
=============================================================================
