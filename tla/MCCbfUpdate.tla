--------------------------- MODULE MCCbfUpdate ---------------------------
(* Instances of CbfUpdate for TLC.                                         *)
EXTENDS CbfUpdate, TLC

CONSTANTS k1, k2, k3, k4

MCKey == {k1, k2, k3, k4}
MCHop == 0 .. 1
MCHash == 1 .. 2

\* k1 and k4 have the same seed, k3 hits one cell twice, k1, k2 and k3 overlap
MCRand == k1 :> <<0, 3>> @@ k2 :> <<3, 5>> @@ k3 :> <<3, 3>> @@ k4 :> <<0, 3>>

\* next hop 0 is as large as its counting filter, next hop 1 is smaller
MCCount == 0 :> 2 @@ 1 :> 1
\* three next hops, the last one with no keys and so no tables
MCHop3 == 0 .. 2
\* three keys at next hop 0: some choices of them wrap a two-bit counter
MCCountEmpty == 0 :> 3 @@ 1 :> 1 @@ 2 :> 0
===========================================================================
