------------------------------ MODULE FibCover ------------------------------
(***************************************************************************)
(* What a forwarding table made of one set-membership filter per next hop  *)
(* promises, whatever the filters are: a route may change at any time, the *)
(* filters may answer yes for addresses that are not theirs (false         *)
(* positives), but the filter of an address's own next hop always answers  *)
(* yes (no false negatives).                                               *)
(***************************************************************************)
CONSTANTS Key, Hop, NoHop

VARIABLES route,   \* route[k]: the next hop of k, NoHop before it is loaded
          answer   \* answer[h]: the addresses for which filter h says yes

vars == <<route, answer>>

Covered(r, a) == \A k \in Key : r[k] \in Hop => k \in a[r[k]]

Init == /\ route = [k \in Key |-> NoHop]
        /\ answer \in [Hop -> SUBSET Key]

Assign(k, h) == /\ route' = [route EXCEPT ![k] = h]
                /\ answer' \in [Hop -> SUBSET Key]
                /\ Covered(route', answer')

Next == \E k \in Key, h \in Hop : Assign(k, h)

Spec == Init /\ [][Next]_vars

\* Every routed address is found in the filter of its next hop.
NoFalseNegative == Covered(route, answer)
============================================================================
