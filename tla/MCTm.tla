-------------------------------- MODULE MCTm --------------------------------
(* Finite instances of Tm: the configurations give the constants their values. *)
EXTENDS Tm
=============================================================================
