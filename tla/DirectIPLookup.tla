--------------------------- MODULE DirectIPLookup ---------------------------
(***************************************************************************)
(* The element DirectIPLookup (directiplookup.cc): a primary table with an *)
(* entry for every value of the first PBits address bits (24 in the code), *)
(* secondary tables for the remaining bits where longer prefixes exist,    *)
(* and a list of virtual ports, the next hops the entries point to.  Every *)
(* entry remembers the length of the prefix it was written for.            *)
(***************************************************************************)
EXTENDS IPPrefix, Sequences

Ext == INSTANCE SequencesExt

CONSTANTS Prefixes,   \* the prefixes that commands name
          PBits,      \* bits that index the primary table
          VportLimit, \* vport_capacity_limit, or what memory allows
          SecLimit    \* secondary tables, tbl_24_31_capacity_limit >> 8

ASSUME DirectAssumption == /\ PBits \in 1 .. W - 1 /\ Prefixes \subseteq AllPrefixes
                           /\ VportLimit \in Nat \ {0} /\ SecLimit \in Nat

VARIABLES rtable,   \* _rtable: prefix -> index in vport; the default route always exists
          vport,    \* _vport: sequence of [via, ref]; vport[1] is the default route's
          vhead,    \* the list from _vport_head, of indices in vport
          vempty,   \* the list from _vport_empty_head
          tbl,      \* _tbl_0_23 and _tbl_0_23_plen: [sec, ix, plen]
          sec,      \* _tbl_24_31: sequence of tables of [ix, plen]
          sempty,   \* the list from _tbl_24_31_empty_head
          routes,   \* (history) prefix -> Via, as the results of the commands say
          faults    \* (history) the events that the code does not provide for, see DirectExact

dvars == <<rtable, vport, vhead, vempty, tbl, sec, sempty, routes, faults>>

Default == [addr |-> 0, len |-> 0]
Primary == 0 .. 2^PBits - 1
Low == 0 .. 2^(W - PBits) - 1

Unused == [j \in Low |-> [ix |-> 1, plen |-> 0]]  \* a free table, whatever it holds

\* flush: everything resolves to vport[1], the discard port
DirectInit ==
    /\ rtable = [p \in {Default} |-> 1]
    /\ vport = <<[via |-> None, ref |-> 1]>> /\ vhead = <<1>> /\ vempty = << >>
    /\ tbl = [i \in Primary |-> [sec |-> FALSE, ix |-> 1, plen |-> 0]]
    /\ sec = << >> /\ sempty = << >>
    /\ routes = << >> /\ faults = {}

Flush == /\ rtable' = [p \in {Default} |-> 1]
         /\ vport' = <<[via |-> None, ref |-> 1]>> /\ vhead' = <<1>> /\ vempty' = << >>
         /\ tbl' = [i \in Primary |-> [sec |-> FALSE, ix |-> 1, plen |-> 0]]
         /\ sec' = << >> /\ sempty' = << >>
         /\ routes' = << >> /\ faults' = {}
----------------------------------------------------------------------------
\* The virtual ports, as a record that the operators below change.
Vports == [all |-> vport, head |-> vhead, empty |-> vempty]

\* mutant: a virtual port without routes stays in the list as well
Unref_StaysListed(vs, v) ==
    LET less == [vs EXCEPT !.all[v].ref = @ - 1]
    IN  IF less.all[v].ref # 0 THEN less ELSE [less EXCEPT !.empty = <<v>> \o @]

\* a list without v, which is in it once
Unlinked(list, v) ==
    LET k == CHOOSE k \in DOMAIN list : list[k] = v
    IN  [l \in 1 .. Len(list) - 1 |-> IF l < k THEN list[l] ELSE list[l + 1]]

\* vport_unref
Unref(vs, v) ==
    LET less == [vs EXCEPT !.all[v].ref = @ - 1]
    IN  IF less.all[v].ref # 0 THEN less
        ELSE [less EXCEPT !.head = Unlinked(@, v), !.empty = <<v>> \o @]

\* vport_find: the first match in the list, or the first empty one, made if
\* there is none; 0 for -ENOMEM
Match(vs, via) == {k \in DOMAIN vs.head : vs.all[vs.head[k]].via = via}
Found(vs, via) ==
    IF Match(vs, via) # {}
      THEN vs.head[CHOOSE k \in Match(vs, via) : \A l \in Match(vs, via) : k <= l]
      ELSE IF vs.empty # << >> THEN vs.empty[1]
           ELSE IF Len(vs.all) = VportLimit THEN 0 ELSE Len(vs.all) + 1
WithEmpty(vs, via) ==
    IF Found(vs, via) <= Len(vs.all) THEN vs
    ELSE [vs EXCEPT !.all = Append(@, [via |-> None, ref |-> 0]), !.empty = <<Len(vs.all) + 1>>]

\* the end of add_route's allocations: an empty vport enters the list, and the
\* route holds a reference
Taken(vs, v, via) ==
    LET listed == IF vs.empty # << >> /\ vs.empty[1] = v
                    THEN [vs EXCEPT !.empty = Tail(@), !.head = <<v>> \o @,
                                    !.all[v] = [via |-> via, ref |-> 0]]
                    ELSE vs
    IN  [listed EXCEPT !.all[v].ref = @ + 1]
SetVports(vs) == vport' = vs.all /\ vhead' = vs.head /\ vempty' = vs.empty
----------------------------------------------------------------------------
\* The loops of add_route and remove_route over both tables.  op is "add",
\* "set" or "remove".  They leave out the block of an entry with a longer
\* prefix (i |= ..., j |= ...) and end at an entry that contradicts the routes
\* ("BUG"); every other entry they reach is rewritten if it is a hit.
Bug(op, p, e) == \/ op = "add" /\ e.plen = p.len
                 \/ op = "remove" /\ e.plen < p.len
PrimaryBug(op, p, e) == op = "add" /\ e.plen = p.len
Hit(op, p, e) == IF op = "remove" THEN e.plen = p.len ELSE e.plen <= p.len

Start(p) == p.addr \div 2^(W - PBits)
Span(p) == Start(p) .. Start(p) + (IF p.len < PBits THEN 2^(PBits - p.len) ELSE 1) - 1
SecSpan(p) == IF p.len > PBits THEN LET from == p.addr % 2^(W - PBits) IN from .. from + 2^(W - p.len) - 1
              ELSE Low
BlockEnd(k, size) == (k \div size) * size + size - 1
Past == 2^W  \* beyond every index

\* the indices of span that a loop visits, going from k to next[k]
Walk(span, next) ==
    LET at[k \in span] == \/ \A m \in span : k <= m
                          \/ \E m \in span : m < k /\ at[m] /\ next[m] = k
    IN  {k \in span : at[k]}

\* the inner loop, in table s; it breaks at an entry with a longer prefix that
\* reaches beyond the table
Breaks(op, p, e) == ~Bug(op, p, e) /\ p.len < e.plen /\ e.plen <= PBits
SecWalk(op, p, s) ==
    Walk(SecSpan(p), [j \in SecSpan(p) |->
        LET e == sec[s][j]
        IN  IF Bug(op, p, e) \/ Breaks(op, p, e) THEN Past
            ELSE IF p.len < e.plen THEN BlockEnd(j, 2^(W - e.plen)) + 1 ELSE j + 1])

\* the outer loop.  0x00ffffff >> plen is 0 for a length beyond PBits, which a
\* primary entry has after a fault only.
SkipTo(i, plen) == IF plen >= PBits THEN i ELSE BlockEnd(i, 2^(PBits - plen))
Last(op, p, i) ==
    LET e == tbl[i]
        breaks == {sec[e.ix][j].plen : j \in {j \in SecWalk(op, p, e.ix) : Breaks(op, p, sec[e.ix][j])}}
    IN  IF e.sec THEN IF breaks = {} THEN i ELSE SkipTo(i, CHOOSE n \in breaks : TRUE)
        ELSE IF p.len < e.plen THEN SkipTo(i, e.plen) ELSE i
Stops(op, p, i) == IF tbl[i].sec
                     THEN \E j \in SecWalk(op, p, tbl[i].ix) : Bug(op, p, sec[tbl[i].ix][j])
                     ELSE PrimaryBug(op, p, tbl[i])
PrimaryWalk(op, p) == Walk(Span(p), [i \in Span(p) |-> IF Stops(op, p, i) THEN Past ELSE Last(op, p, i) + 1])
Stopped(op, p) == \E i \in PrimaryWalk(op, p) : Stops(op, p, i)

\* the tables with new for the hits of p
WrittenSec(op, p, s, new) ==
    [j \in Low |-> IF /\ j \in SecWalk(op, p, s)
                      /\ ~Bug(op, p, sec[s][j]) /\ Hit(op, p, sec[s][j]) THEN new ELSE sec[s][j]]
Written(op, p, new) ==
    [s \in DOMAIN sec |-> IF \E i \in PrimaryWalk(op, p) : tbl[i].sec /\ tbl[i].ix = s
                            THEN WrittenSec(op, p, s, new) ELSE sec[s]]
PrimaryHits(op, p) == {i \in PrimaryWalk(op, p) : ~tbl[i].sec /\ ~PrimaryBug(op, p, tbl[i]) /\ Hit(op, p, tbl[i])}
WrittenPrimary(op, p, new) ==
    [i \in Primary |-> IF i \in PrimaryHits(op, p) THEN [sec |-> FALSE, ix |-> new.ix, plen |-> new.plen]
                       ELSE tbl[i]]
----------------------------------------------------------------------------
\* add_route for 0.0.0.0/0, which always has its entry
SetDefault(via, set) ==
    /\ vport[1].via = None \/ set
    /\ vport' = [vport EXCEPT ![1].via = via]
    /\ routes' = [q \in DOMAIN routes \cup {Default} |-> IF q = Default THEN via ELSE routes[q]]
    /\ faults' = faults \cup (IF vport[1].ref > 1 THEN {"shared"} ELSE {})
    /\ UNCHANGED <<rtable, vhead, vempty, tbl, sec, sempty>>

\* add_route up to its allocations: a route that is replaced has lost its vport
Released(p) == IF p \in DOMAIN rtable THEN Unref(Vports, rtable[p]) ELSE Vports
Overflows(p) == p.len > PBits /\ ~tbl[Start(p)].sec /\ sempty = << >>
NoMemory(p, via) == \/ Found(Released(p), via) = 0
                    \/ Overflows(p) /\ Len(sec) = SecLimit

AddNoMemory(p, via, set) ==
    /\ p # Default /\ (p \notin DOMAIN rtable \/ set) /\ NoMemory(p, via)
    /\ SetVports(IF Found(Released(p), via) = 0 THEN Released(p) ELSE WithEmpty(Released(p), via))
    /\ faults' = faults \cup (IF p \in DOMAIN rtable THEN {"unreferenced"} ELSE {})
    /\ UNCHANGED <<rtable, tbl, sec, sempty, routes>>

\* add_route.  A prefix longer than PBits in a primary entry of a shorter one takes
\* a secondary table, a copy of the entry but for its own part.
DirectAddRoute(p, via, set) ==
    LET op == IF set THEN "set" ELSE "add"
        v == Found(Released(p), via)
        new == [ix |-> v, plen |-> p.len]
        i == Start(p)
        splits == p.len > PBits /\ ~tbl[i].sec /\ tbl[i].plen < p.len
        free == IF Overflows(p) THEN <<Len(sec) + 1>> ELSE sempty
        split == [j \in Low |-> IF j \in SecSpan(p) THEN new ELSE [ix |-> tbl[i].ix, plen |-> tbl[i].plen]]
    IN  /\ p # Default /\ (p \notin DOMAIN rtable \/ set) /\ ~NoMemory(p, via)
        /\ SetVports(Taken(WithEmpty(Released(p), via), v, via))
        /\ rtable' = [q \in DOMAIN rtable \cup {p} |-> IF q = p THEN v ELSE rtable[q]]
        /\ IF splits
             THEN /\ tbl' = [tbl EXCEPT ![i].sec = TRUE, ![i].ix = Head(free)]
                  /\ sec' = [s \in DOMAIN sec \cup {Head(free)} |-> IF s = Head(free) THEN split ELSE sec[s]]
                  /\ sempty' = Tail(free)
             ELSE /\ tbl' = WrittenPrimary(op, p, new)
                  /\ sec' = LET w == Written(op, p, new)
                            IN  IF Overflows(p) THEN Append(w, Unused) ELSE w
                  /\ sempty' = free
        /\ routes' = IF Stopped(op, p) THEN routes
                     ELSE [q \in DOMAIN routes \cup {p} |-> IF q = p THEN via ELSE routes[q]]
        /\ UNCHANGED faults
----------------------------------------------------------------------------
Matches(p, via) == via = Any \/ via = vport[rtable[p]].via

\* remove_route for the default route: it leads to the discard port
RemoveDefault(via) ==
    /\ vport[1].via # None /\ Matches(Default, via)
    /\ vport' = [vport EXCEPT ![1].via = None]
    /\ routes' = [q \in DOMAIN routes \ {Default} |-> routes[q]]
    /\ faults' = faults \cup (IF vport[1].ref > 1 THEN {"shared"} ELSE {})
    /\ UNCHANGED <<rtable, vhead, vempty, tbl, sec, sempty>>

\* mutant: the shortest prefix that p is within
Cover_Shortest(p) == CHOOSE q \in DOMAIN rtable \ {p} :
               /\ Within(p, q)
               /\ \A r \in DOMAIN rtable \ {p} : Within(p, r) => r.len >= q.len

\* the longest other prefix that p is within
Cover(p) == CHOOSE q \in DOMAIN rtable \ {p} :
               /\ Within(p, q)
               /\ \A r \in DOMAIN rtable \ {p} : Within(p, r) => r.len <= q.len

\* a secondary table with one prefix length everywhere is pruned: it goes to the
\* free list, and the primary entry where the loop is now takes its first entry
SameLength(table) == \A j, k \in Low : table[j].plen = table[k].plen
Prunes(p, after) == {i \in PrimaryWalk("remove", p) :
                       tbl[i].sec /\ ~Stops("remove", p, i) /\ SameLength(after[tbl[i].ix])}

DirectRemoveRoute(p, via) ==
    LET new == [ix |-> rtable[Cover(p)], plen |-> Cover(p).len]
        after == Written("remove", p, new)
        primary == WrittenPrimary("remove", p, new)
        prunes == Prunes(p, after)
        pruned(k) == {i \in prunes : Last("remove", p, i) = k}
        freed == [k \in 1 .. Cardinality(prunes) |->  \* the last one first
                    CHOOSE i \in prunes : Cardinality({j \in prunes : j > i}) = k - 1]
    IN  /\ p # Default /\ p \in DOMAIN rtable /\ Matches(p, via)
        /\ SetVports(Unref(Vports, rtable[p]))
        /\ rtable' = [q \in DOMAIN rtable \ {p} |-> rtable[q]]
        /\ tbl' = [k \in Primary |->
                     IF pruned(k) = {} THEN primary[k]
                     ELSE LET e == after[tbl[CHOOSE i \in pruned(k) : TRUE].ix][0]
                          IN  [sec |-> FALSE, ix |-> e.ix, plen |-> e.plen]]
        /\ sec' = [s \in DOMAIN sec |-> IF \E i \in prunes : tbl[i].ix = s THEN Unused ELSE after[s]]
        /\ sempty' = [k \in DOMAIN freed |-> tbl[freed[k]].ix] \o sempty
        /\ routes' = IF Stopped("remove", p) THEN routes ELSE [q \in DOMAIN routes \ {p} |-> routes[q]]
        /\ faults' = faults \cup (IF \E i \in prunes : after[tbl[i].ix][0].plen > PBits THEN {"pruned"} ELSE {})
----------------------------------------------------------------------------
DirectNext ==
    \/ \E via \in Via, set \in BOOLEAN : SetDefault(via, set)
    \/ \E p \in Prefixes, via \in Via, set \in BOOLEAN : DirectAddRoute(p, via, set)
    \/ \E p \in Prefixes, via \in Via, set \in BOOLEAN : AddNoMemory(p, via, set)
    \/ \E via \in Via \cup {Any} : RemoveDefault(via)
    \/ \E p \in Prefixes, via \in Via \cup {Any} : DirectRemoveRoute(p, via)
    \/ Flush

DirectSpec == DirectInit /\ [][DirectNext]_dvars

\* lookup_route
LookupVport(addr) == LET e == tbl[addr \div 2^(W - PBits)]
                     IN  IF e.sec THEN sec[e.ix][addr % 2^(W - PBits)].ix ELSE e.ix
Lookup(addr) == vport[LookupVport(addr)].via
----------------------------------------------------------------------------
LongestIn(addr) == CHOOSE p \in DOMAIN rtable : /\ Holds(p, addr)
                      /\ \A q \in DOMAIN rtable : Holds(q, addr) => q.len <= p.len

\* The element routes every address as the accepted commands ask for
\* (iproutetable.hh:82-109), up to the first of three events that the code
\* does not provide for: the default route changes while other routes share its
\* vport, a route that could not be replaced has lost its reference, a
\* secondary table of two prefixes of one length is pruned.
RoutedExactly == faults = {} => \A a \in Addr : Lookup(a) = Best(routes, a)

\* The tables lead every address to the vport of its longest prefix, whatever
\* the vports hold, unless such a table was pruned (directiplookup.cc:461-472).
FindsLongest == "pruned" \notin faults => \A a \in Addr : LookupVport(a) = rtable[LongestIn(a)]

\* Both of these (directiplookup.cc:191-485).
DirectExact == RoutedExactly /\ FindsLongest

\* Every vport is on one of the two lists and counts its routes; every secondary
\* table is free or belongs to one primary entry.
Users(v) == {p \in DOMAIN rtable : rtable[p] = v}
Listed(s) == \A k, l \in DOMAIN s : k # l => s[k] # s[l]
PortsCounted ==
    /\ \A v \in DOMAIN vport : (v \in Ext!ToSet(vhead)) # (v \in Ext!ToSet(vempty))
    /\ Listed(vhead) /\ Listed(vempty)
    /\ "unreferenced" \notin faults =>
         \A v \in Ext!ToSet(vhead) : vport[v].ref = Cardinality(Users(v))
TablesCounted ==
    "pruned" \notin faults =>
    /\ Listed(sempty)
    /\ \A s \in DOMAIN sec : s \in Ext!ToSet(sempty) \/ \E i \in Primary : tbl[i].sec /\ tbl[i].ix = s
    /\ \A i, k \in Primary : tbl[i].sec => /\ tbl[i].ix \notin Ext!ToSet(sempty)
                                           /\ tbl[k].sec /\ tbl[k].ix = tbl[i].ix => i = k
DirectAccounting == PortsCounted /\ TablesCounted
============================================================================
