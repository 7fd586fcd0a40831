------------------------------ MODULE MCSmacks -------------------------------
(* Instances of Smacks for TLC. *)
EXTENDS Smacks
=============================================================================
