----------------------------- MODULE MCNetConnect -----------------------------
(* Instances of NetConnect for TLC. *)
EXTENDS NetConnect
MCAddresses == <<2, 1, 2>>
=============================================================================
