------------------------------- MODULE MCAsync --------------------------------
(* An instance of Async for TLC. *)
EXTENDS Async
CONSTANTS r1, r2
MCRunner == {r1, r2}
=============================================================================
