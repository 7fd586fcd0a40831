----------------------------- MODULE MCListIndex -----------------------------
(* An instance of ListStore for TLC. *)
EXTENDS ListStore
MCEntry == {1, 2}
=============================================================================
