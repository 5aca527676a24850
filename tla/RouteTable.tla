----------------------------- MODULE RouteTable -----------------------------
(***************************************************************************)
(* What the documentation of IPRouteTable (iproutetable.hh) promises of    *)
(* every routing table: adding, setting and removing routes, and lookups   *)
(* by longest-prefix match.  A command that is refused changes nothing.     *)
(***************************************************************************)
EXTENDS IPPrefix

CONSTANTS Prefixes,  \* the prefixes that commands name
          Asked      \* the addresses that are looked up

VARIABLES table,   \* prefix -> Via, the routes
          answer   \* what a lookup of each address returns

vars == <<table, answer>>

Answers(t) == [a \in Asked |-> Best(t, a)]

Init == /\ table = << >>
        /\ answer = Answers(table)

Changed(p, via) == [q \in DOMAIN table \cup {p} |-> IF q = p THEN via ELSE table[q]]
Without(p) == [q \in DOMAIN table \ {p} |-> table[q]]

AddRoute(p, via, set) ==
    /\ p \notin DOMAIN table \/ set
    /\ table' = Changed(p, via)
    /\ answer' = Answers(table')

RemoveRoute(p, via) ==
    /\ p \in DOMAIN table /\ via \in {Any, table[p]}
    /\ table' = Without(p)
    /\ answer' = Answers(table')

Next == \E p \in Prefixes :
           \/ \E via \in Via, set \in BOOLEAN : AddRoute(p, via, set)
           \/ \E via \in Via \cup {Any} : RemoveRoute(p, via)

Spec == Init /\ [][Next]_vars
============================================================================
