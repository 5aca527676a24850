----------------------------- MODULE MCLookups ------------------------------
(* The lookup elements, one of them at a time, with small tables for TLC:   *)
(* LinearIPLookup and SortedIPLookup on the variables of a vector,          *)
(* RadixIPLookup on those of a tree, and RangeIPLookup with the tables of   *)
(* its DirectIPLookup on its own.                                           *)
EXTENDS RangeIPLookup

T == INSTANCE TLC

CONSTANTS Dead
VARIABLES element, t, zero_route, cache, v, vfree, default_key, child, route_index, asked

Q(a, n) == [addr |-> a, len |-> n]
MCPrefixes == {Q(0, 1), Q(0, 2), Q(0, 3), Q(1, 3)}
Chain == {Q(0, 0), Q(0, 1), Q(0, 3), Q(1, 3)}  \* down to address 0 alone, and one beside it
Sides == {Q(0, 0), Q(0, 1), Q(0, 3), Q(4, 2)}
Twigs == {Q(0, 1), Q(0, 2), Q(2, 2), Q(1, 3)}
Pushed == {0, 1, 2, 4}                         \* bound: the destinations of packets

L == INSTANCE LinearIPLookup WITH Named <- Chain, Asked <- Pushed \ {0}, MaxSlots <- 3
S == INSTANCE SortedIPLookup WITH Named <- Sides, Asked <- Pushed, MaxSlots <- 4
R == INSTANCE RadixIPLookup WITH Named <- Twigs, Bits <- <<2, 3>>

ASSUME ElementAssumptions == L!LinearAssumption /\ S!LinearAssumption /\ R!RadixAssumption

vector == <<t, zero_route, cache>>
tree   == <<v, vfree, default_key, child, route_index, asked>>
tables == <<dvars, rvars>>

MCInit == /\ element \in {"linear", "sorted", "radix", "range"}
          /\ L!Init /\ R!RadixInit /\ RangeInit

Vector(name, action) == element = name /\ action /\ UNCHANGED <<element, tree, tables>>
Tree(action)         == element = "radix" /\ action /\ UNCHANGED <<element, vector, tables>>
Tables(action)       == element = "range" /\ action /\ UNCHANGED <<element, vector, tree>>

LinearAdd(p, via, set) == Vector("linear", L!AddRoute(p, via, set))
LinearRemove(p, via)   == Vector("linear", L!RemoveRoute(p, via))
LinearPush(addr)       == Vector("linear", L!Push(addr))
SortedAdd(p, via, set) == Vector("sorted", S!SortedAddRoute(p, via, set))
SortedRemove(p, via)   == Vector("sorted", S!SortedRemoveRoute(p, via))
SortedPush(addr)       == Vector("sorted", S!SortedPush(addr))
RadixAdd(p, via, set)  == Tree(R!AddRoute(p, via, set))
RadixRemove(p, via)    == Tree(R!RemoveRoute(p, via))
RadixDump              == Tree(R!Dump)
TableInitialize        == Tables(Initialize)
TableSetDefault(via, set)     == Tables(RangeSetDefault(via, set))
TableAdd(p, via, set)         == Tables(RangeAddRoute(p, via, set))
TableAddNoMemory(p, via, set) == Tables(RangeAddNoMemory(p, via, set))
TableRemoveDefault(via)       == Tables(RangeRemoveDefault(via))
TableRemove(p, via)           == Tables(RangeRemoveRoute(p, via))
TableFlush                    == Tables(RangeFlush)

MCNext ==
    \/ \E p \in Chain, via \in Via, set \in BOOLEAN : LinearAdd(p, via, set)
    \/ \E p \in Chain, via \in Via \cup {Any} : LinearRemove(p, via)
    \/ \E addr \in Pushed \ {4} : LinearPush(addr)
    \/ \E p \in Sides, via \in Via, set \in BOOLEAN : SortedAdd(p, via, set)
    \/ \E p \in Sides, via \in Via \cup {Any} : SortedRemove(p, via)
    \/ \E addr \in Pushed : SortedPush(addr)
    \/ \E p \in Twigs, via \in Via, set \in BOOLEAN : RadixAdd(p, via, set)
    \/ \E p \in Twigs, via \in Via \cup {Any} : RadixRemove(p, via)
    \/ RadixDump
    \/ TableInitialize
    \/ \E via \in Via, set \in BOOLEAN : TableSetDefault(via, set)
    \/ \E p \in Prefixes, via \in Via, set \in BOOLEAN : TableAdd(p, via, set)
    \/ \E p \in Prefixes, via \in Via, set \in BOOLEAN : TableAddNoMemory(p, via, set)
    \/ \E via \in Via \cup {Any} : TableRemoveDefault(via)
    \/ \E p \in Prefixes, via \in Via \cup {Any} : TableRemove(p, via)
    \/ TableFlush

MCSpec == MCInit /\ [][MCNext]_<<element, vector, tree, tables>>

\* bound: after an event that the tables of DirectIPLookup do not provide for, only those of one kind
NoFault == faults \subseteq {"shared"}
\* bound: slots of the tree, one of them used while a route is replaced
FewSlots == Len(v) <= 3
\* what a free slot of the tree holds but for its pointer is read by nothing but Dump
Shown == <<element, vector, tables, [k \in DOMAIN v |-> IF k \in R!Free THEN <<v[k].extra>> ELSE v[k]],
           vfree, default_key, child, route_index, asked>>
Symmetric == T!Permutations(Via)

\* The vector, sorted or not, has its pointers and its route for address 0 right, follows the order
\* that its lookups rely on, and the cached entries of push are those of a lookup, after any command
\* (lineariplookup.cc:53-91, sortediplookup.cc:49-54).
VectorOK == /\ L!PointersOK
            /\ element = "linear" => L!TypeOK /\ L!ZeroBeforeHoles /\ L!CachesOK
            /\ element = "sorted" => S!TypeOK /\ S!SortedOK /\ S!SortedCachesOK

\* The tree leads every address to the route that the accepted commands ask for, and its slots are
\* free or in the list of their node, once (radixiplookup.cc:129-204).
RadixExact == R!RadixExact /\ R!RadixListsOK

\* Both vectors implement the routes that iproutetable.hh:82-109 promises: every change of the routes
\* is one that a command asks for, and every packet follows the longest prefix, in LinearIPLookup but
\* for address 0.
Answer(a) == CASE element = "linear" /\ a # 0 -> L!ViaOf(L!Served(a))
               [] element = "linear" /\ a = 0 -> Best(L!Table, a)
               [] OTHER -> S!ViaOf(S!SortedServed(a))
Abstract == INSTANCE RouteTable WITH Prefixes <- Chain \cup Sides, Asked <- Pushed,
                                     table <- L!Table, answer <- [a \in Pushed |-> Answer(a)]
TableImplemented == Abstract!Spec
=============================================================================
