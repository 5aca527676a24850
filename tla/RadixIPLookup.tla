--------------------------- MODULE RadixIPLookup ---------------------------
(***************************************************************************)
(* The element RadixIPLookup (radixiplookup.cc): a vector of routes with a *)
(* free list, and a radix tree of keys, the slots of the vector.  A node   *)
(* of the tree also has the list of the routes kept in it.                 *)
(*                                                                         *)
(* A child of level d stands for the addresses with the same first Bits[d] *)
(* bits, <<8, 12, 16, ...>> in the code; a node that does not exist is one *)
(* without keys and routes.  Slots are numbered from 1, 0 stands for -1.   *)
(***************************************************************************)
EXTENDS IPPrefix, Sequences

Ext == INSTANCE SequencesExt

CONSTANTS Named,  \* the prefixes that commands name
          Bits,   \* sequence of numbers of bits, the last is W
          Dead    \* the port of a killed route

RadixAssumption == Bits[Len(Bits)] = W /\ Dead \notin Via \cup {Any, None}

VARIABLES v,           \* _v: sequence of [addr, len, via, extra]
          vfree,       \* _vfree
          default_key, \* _default_key
          child,       \* level -> first bits -> [key, key_priority], the mask as its length
          route_index, \* node -> the first route of its list
          asked        \* (history) prefix -> Via, as the results of the commands say

xvars == <<v, vfree, default_key, child, route_index, asked>>

Levels == DOMAIN Bits
First(addr, d) == addr \div 2^(W - Bits[d])
Nodes == {<<1, 0>>} \cup UNION {{<<d, k>> : k \in 0 .. 2^Bits[d - 1] - 1} : d \in Levels \ {1}}

RadixInit ==
    /\ v = << >> /\ vfree = 0 /\ default_key = 0 /\ asked = << >>
    /\ child = [d \in Levels |-> [k \in 0 .. 2^Bits[d] - 1 |-> [key |-> 0, key_priority |-> 0]]]
    /\ route_index = [n \in Nodes |-> 0]
----------------------------------------------------------------------------
\* Radix::change: the first level whose children are not longer than the
\* prefix, and the node there
Level(p) == CHOOSE d \in Levels : p.len <= Bits[d] /\ \A e \in 1 .. d - 1 : p.len > Bits[e]
Node(p) == IF Level(p) = 1 THEN <<1, 0>> ELSE <<Level(p), First(p.addr, Level(p) - 1)>>

\* mutant: the keys of longer prefixes are taken too
Change_AnyPriority(c, p, key) ==
    LET d == Level(p)
        inside == {k \in DOMAIN c[d] : Holds(p, k * 2^(W - Bits[d]))}
        new == [key |-> key, key_priority |-> IF key = 0 THEN 0 ELSE p.len]
    IN  [c EXCEPT ![d] = [k \in DOMAIN @ |-> IF k \in inside THEN new ELSE @[k]]]

\* and the keys, where no longer prefix has its own
Change(c, p, key) ==
    LET d == Level(p)
        inside == {k \in DOMAIN c[d] : Holds(p, k * 2^(W - Bits[d])) /\ c[d][k].key_priority <= p.len}
        new == [key |-> key, key_priority |-> IF key = 0 THEN 0 ELSE p.len]
    IN  [c EXCEPT ![d] = [k \in DOMAIN @ |-> IF k \in inside THEN new ELSE @[k]]]

\* the list of routes from slot j, at most every slot once
ListFrom(s, j) ==
    LET list[k \in 0 .. Len(s)] ==
          IF k = 0 THEN IF j = 0 THEN << >> ELSE <<j>>
          ELSE LET l == list[k - 1]
               IN  IF l = << >> \/ s[l[Len(l)]].extra \in {0} \cup Ext!ToSet(l) THEN l
                   ELSE Append(l, s[l[Len(l)]].extra)
    IN  list[Len(s)]

Prefix(r) == [addr |-> r.addr, len |-> r.len]
ListHead(p) == IF p.len = 0 THEN default_key ELSE route_index[Node(p)]

\* *pprev = slot, for the pointer to place k of a list
SetPointer(s, p, list, k, slot) ==
    /\ v' = IF k = 1 THEN s ELSE [s EXCEPT ![list[k - 1]].extra = slot]
    /\ IF k # 1 THEN UNCHANGED <<default_key, route_index>>
       ELSE IF p.len = 0 THEN default_key' = slot /\ UNCHANGED route_index
       ELSE route_index' = [route_index EXCEPT ![Node(p)] = slot] /\ UNCHANGED default_key
----------------------------------------------------------------------------
\* add_route: the route takes a slot and the keys.  One that is on the list
\* gives its place to the slot, with itself in it when it may not be replaced.
\* The list of a default route begins with the slot itself.
Slot == IF vfree = 0 THEN Len(v) + 1 ELSE vfree
NextFree == IF vfree = 0 THEN 0 ELSE v[vfree].extra

AddRoute(p, via, set) ==
    LET found == Slot
        with == [k \in DOMAIN v \cup {found} |->
                   IF k = found THEN [addr |-> p.addr, len |-> p.len, via |-> via, extra |-> 0] ELSE v[k]]
        list == ListFrom(with, IF p.len = 0 THEN found ELSE ListHead(p))
        same == {k \in DOMAIN list : Prefix(with[list[k]]) = p}
        k == CHOOSE k \in same : \A l \in same : k <= l
        j == list[k]
        refused == ~set /\ found # j
    IN  /\ child' = IF p.len = 0 THEN child ELSE Change(child, p, found)
        /\ IF same = {}
             THEN SetPointer(with, p, list, Len(list) + 1, found) /\ vfree' = NextFree
             ELSE /\ SetPointer([with EXCEPT ![found] = IF refused THEN with[j] ELSE [@ EXCEPT !.extra = with[j].extra],
                                             ![j].extra = NextFree], p, list, k, found)
                  /\ vfree' = j
        /\ asked' = IF same # {} /\ refused THEN asked
                    ELSE [q \in DOMAIN asked \cup {p} |-> IF q = p THEN via ELSE asked[q]]

\* remove_route: the keys are taken away first, and given back to the routes of
\* the list that contain this one; a route that matches is unlinked
RemoveRoute(p, via) ==
    LET list == ListFrom(v, ListHead(p))
        matches == {k \in DOMAIN list : Prefix(v[list[k]]) = p /\ via \in {Any, v[list[k]].via}}
        k == CHOOSE k \in matches : \A l \in matches : k <= l
        keys[n \in 0 .. Len(list)] ==
          IF n = 0 THEN IF p.len = 0 THEN child ELSE Change(child, p, 0)
          ELSE LET r == v[list[n]]
               IN  IF n \notin matches /\ Within(p, r) /\ r.len # 0
                     THEN Change(keys[n - 1], Prefix(r), list[n]) ELSE keys[n - 1]
    IN  /\ child' = keys[Len(list)]
        /\ IF matches = {}
             THEN UNCHANGED <<v, vfree, default_key, route_index, asked>>
             ELSE /\ SetPointer([v EXCEPT ![list[k]].extra = vfree], p, list, k, v[list[k]].extra)
                  /\ vfree' = list[k]
                  /\ asked' = [q \in DOMAIN asked \ {p} |-> asked[q]]

\* dump_routes: a read handler that kills the free slots
Dump == /\ vfree # 0
        /\ v' = [k \in DOMAIN v |-> IF k \in Ext!ToSet(ListFrom(v, vfree))
                                      THEN [v[k] EXCEPT !.addr = 0, !.len = W, !.via = Dead] ELSE v[k]]
        /\ UNCHANGED <<vfree, default_key, child, route_index, asked>>

RadixNext == \/ \E p \in Named, via \in Via, set \in BOOLEAN : AddRoute(p, via, set)
             \/ \E p \in Named, via \in Via \cup {Any} : RemoveRoute(p, via)
             \/ Dump

RadixSpec == RadixInit /\ [][RadixNext]_xvars
----------------------------------------------------------------------------
\* Radix::lookup: the key of the deepest child that has one; lookup_route
LookupKey(addr) ==
    LET keyed == {d \in Levels : child[d][First(addr, d)].key # 0}
    IN  IF keyed = {} THEN default_key
        ELSE LET d == CHOOSE d \in keyed : \A e \in keyed : e <= d IN child[d][First(addr, d)].key
Lookup(addr) == LET key == LookupKey(addr)
                IN  IF key # 0 /\ Holds(v[key], addr) THEN v[key].via ELSE None
----------------------------------------------------------------------------
\* The element routes every address as the accepted commands ask for
\* (iproutetable.hh:82-109): keys that a shorter prefix lost or won back, slots
\* that were reused and nodes that share addresses lead to the longest prefix.
RadixExact == \A a \in Addr : Lookup(a) = Best(asked, a)

\* Every slot is free or in the list of one node, the list of its own prefix,
\* and the lists hold exactly the routes asked for (radixiplookup.cc:152-170).
Free == Ext!ToSet(ListFrom(v, vfree))
InList(n) == Ext!ToSet(ListFrom(v, route_index[n]))
RadixListsOK ==
    /\ \A n \in Nodes : \A k \in InList(n) : Node(v[k]) = n /\ k \notin Free
    /\ DOMAIN v = Free \cup UNION {InList(n) : n \in Nodes}
    /\ \A k, l \in DOMAIN v \ Free : Prefix(v[k]) = Prefix(v[l]) => k = l
    /\ {Prefix(v[k]) : k \in DOMAIN v \ Free} = DOMAIN asked
============================================================================
