---------------------------- MODULE MCBfSwitch ----------------------------
(* Instances of BfSwitch for TLC.                                          *)
EXTENDS BfSwitch, TLC

CONSTANTS a1, a2

MCAddr == {a1, a2}
MCHash == 0 .. 1
MCRand == a1 :> (0 :> 0 @@ 1 :> 3) @@ a2 :> (0 :> 3 @@ 1 :> 4)
\* two bytes of two bits and one bit past them; the first bytes are zeroed
MCTableBits == [p \in 0 .. 2 |-> IF p = 1 THEN 4 ELSE 5]
MCGarbage == {-7, 0, 2}
============================================================================
