-------------------------------- MODULE MCS2S ---------------------------------
(* Instances of S2S for TLC: servers a and b. *)
EXTENDS S2S
CONSTANTS a, b
MCHost == {a, b}
MCOnlyA == {a}
MCNone == {}
MCMsg == [h \in MCHost |-> IF h = a THEN 2 ELSE 1]
MCOnlyB == {b}
=============================================================================
