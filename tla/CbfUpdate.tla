----------------------------- MODULE CbfUpdate -----------------------------
(***************************************************************************)
(* cbf.cc: a FIB kept as one Bloom filter per next hop, with a counting    *)
(* Bloom filter behind each, loaded from a file, changed by route_update   *)
(* and rebuilt from the counting filters by update_bf.                     *)
(***************************************************************************)
EXTENDS Bloom

CONSTANTS Hop,            \* 0 .. NEXTHOP_COUNT - 1
          NoHop,
          Count,          \* Count[h] = a[h], the keys read for next hop h
          TotalTableSize, \* TOTAL_TABLE_SIZE, the cells of a counting filter
          Total           \* total, the keys a filter of that size is meant for

ASSUME HopAssumption == Hop \subseteq Nat /\ NoHop \notin Hop
ASSUME KeyAssumption == IsFiniteSet(Key)
ASSUME SizeAssumption == /\ Count \in [Hop -> Nat]
                         /\ TotalTableSize \in Nat \ {0}
                         /\ Total \in Nat \ {0}

VARIABLES pc,     \* "load" while main reads, then "run", or "crashed"
          route,  \* the routes the calls so far have established (ghost)
          bf, cbf \* hash_table of each next hop's two filters

vars == <<pc, route, bf, cbf>>

BfSize(h) == TableSize((TotalTableSize * Count[h]) \div Total)

BfContains(h, k)  == Contains(bf[h], k, BfSize(h))
CbfContains(h, k) == Contains(cbf[h], k, TotalTableSize)

KeysAt(h) == {k \in Key : route[k] = h}

Init == /\ pc = "load"
        /\ route = [k \in Key |-> NoHop]
        /\ bf  = [h \in Hop |-> NewTable(BfSize(h), Count[h])]
        /\ cbf = [h \in Hop |-> NewTable(TotalTableSize, Count[h])]

\* mutant: the counting filter is not filled
Load_BfOnly(k, h) ==
    /\ pc = "load"
    /\ route[k] = NoHop
    /\ Cardinality(KeysAt(h)) < Count[h]
    /\ \A g \in Hop : g < h => Cardinality(KeysAt(g)) = Count[g]
    /\ route' = [route EXCEPT ![k] = h]
    /\ bf' = [bf EXCEPT ![h] = BfInsert(@, k, BfSize(h))]
    /\ UNCHANGED <<pc, cbf>>

\* one turn of main's inner loop: mac++ gives a key not used before
Load(k, h) ==
    /\ pc = "load"
    /\ route[k] = NoHop
    /\ Cardinality(KeysAt(h)) < Count[h]
    /\ \A g \in Hop : g < h => Cardinality(KeysAt(g)) = Count[g]
    /\ route' = [route EXCEPT ![k] = h]
    /\ bf'  = [bf EXCEPT ![h] = BfInsert(@, k, BfSize(h))]
    /\ cbf' = [cbf EXCEPT ![h] = CbfInsert(@, k, TotalTableSize)]
    /\ UNCHANGED pc

Loaded ==
    /\ pc = "load"
    /\ \A h \in Hop : Cardinality(KeysAt(h)) = Count[h]
    /\ pc' = "run"
    /\ UNCHANGED <<route, bf, cbf>>

\* route_update(eaddr, inport, outport) for a key that is at inport
RouteUpdate(k, out) ==
    LET in == route[k]
        without == [cbf EXCEPT ![in] = CbfRemove(@, k, TotalTableSize)]
        cleared == [bf EXCEPT ![in] = BfRemove(@, k, BfSize(in))]
    IN  /\ pc = "run"
        /\ in # NoHop
        /\ route' = [route EXCEPT ![k] = out]
        /\ cbf' = [without EXCEPT ![out] = CbfInsert(@, k, TotalTableSize)]
        /\ bf'  = [cleared EXCEPT ![out] = BfInsert(@, k, BfSize(out))]
        /\ UNCHANGED pc

\* the last j < TOTAL_TABLE_SIZE with j % size = b, whose copy stays
LastSource(b, size) == b + size * ((TotalTableSize - 1 - b) \div size)

\* mutant: cells set before stay set
Rebuilt_KeepsSet(h) ==
    [b \in DOMAIN bf[h] |->
        IF b < TotalTableSize /\ bf[h][b] = 0
          THEN cbf[h][LastSource(b, BfSize(h))] ELSE bf[h][b]]

Rebuilt(h) == [b \in DOMAIN bf[h] |->
                  IF b < TotalTableSize THEN cbf[h][LastSource(b, BfSize(h))]
                                        ELSE bf[h][b]]

UpdateBf == /\ pc = "run"
            /\ \A h \in Hop : Count[h] # 0
            /\ bf' = [h \in Hop |-> Rebuilt(h)]
            /\ UNCHANGED <<pc, route, cbf>>

\* update_bf meets a next hop with no keys: both its tables are NULL
UpdateBfNull == /\ pc = "run"
                /\ \E h \in Hop : Count[h] = 0
                /\ pc' = "crashed"
                /\ UNCHANGED <<route, bf, cbf>>

Next == \/ \E k \in Key, h \in Hop : Load(k, h)
        \/ Loaded
        \/ \E k \in Key, out \in Hop : RouteUpdate(k, out)
        \/ UpdateBf
        \/ UpdateBfNull

Spec == Init /\ [][Next]_vars
----------------------------------------------------------------------------
\* Types of the variables; a filter has a table exactly when it was sized
\* for at least one key.
TypeOK ==
    /\ pc \in {"load", "run", "crashed"}
    /\ route \in [Key -> Hop \cup {NoHop}]
    /\ DOMAIN bf = Hop /\ DOMAIN cbf = Hop
    /\ \A h \in Hop :
        /\ bf[h] \in [IF Count[h] = 0 THEN {} ELSE 0 .. BfSize(h) - 1
                         -> 0 .. CellMax]
        /\ cbf[h] \in [IF Count[h] = 0 THEN {} ELSE 0 .. TotalTableSize - 1
                         -> 0 .. CellMax]

\* the hash functions of the keys that r routes to h that fall on counter c
HitsOf(r, h, c) == {p \in Key \X Hash : /\ r[p[1]] = h
                                        /\ Cell(p[1], p[2], TotalTableSize) = c}

HitsAt(h, c) == HitsOf(route, h, c)

\* Every next hop was sized for some key, so that its filters have tables.
AllSized == \A h \in Hop : Count[h] # 0

\* No counter can reach the end of its byte: there are too few keys.
NoWrap == Cardinality(Key) * Cardinality(Hash) <= CellMax

\* Over any sequence of insertions and removals, each counter is the number
\* of hash functions of the keys now routed to its next hop that fall on it
\* (CountingBloomFilter.h insert and remove, through route_update).
CounterExact ==
    \A h \in Hop : \A c \in DOMAIN cbf[h] : cbf[h][c] = Cardinality(HitsAt(h, c))

\* Every counter's hits fit its width.
Fits == \A h \in Hop : \A c \in DOMAIN cbf[h] : Cardinality(HitsAt(h, c)) <= CellMax

\* Counters go wrong in no other way than by wrapping: a step from exact ones to a
\* table whose hits fit leaves them exact, whatever route_update removes first and
\* inserts then (the ++ and -- loops of CountingBloomFilter.h).
ExactUntilWrap == [][CounterExact /\ Fits' => CounterExact']_vars

\* The counting filter of a key's next hop finds it, after any moves of this
\* and of other keys, when the next hop's filter has a table at all.
CbfNoFalseNegative ==
    \A k \in Key : \A h \in Hop :
        route[k] = h /\ Count[h] # 0 => CbfContains(h, k)

\* While the table is only loaded, the plain filters lose no key either, and
\* tell a cell hit once from a cell hit more often.
BfExactWhileLoading ==
    pc = "load" => \A h \in Hop : \A c \in DOMAIN bf[h] :
        LET n == Cardinality({p \in Key \X Hash : /\ route[p[1]] = h
                                   /\ Cell(p[1], p[2], BfSize(h)) = c})
        IN  bf[h][c] = IF n > 2 THEN 2 ELSE n

\* A plain filter loses a key that stays where it is only when a key that
\* shares a cell with it is moved off the same next hop, or in a rebuild
\* (bloom_filter::remove clears cells it does not own alone).
BfLossNeedsCollision ==
    [][ \A k \in Key : \A h \in Hop :
          /\ route[k] = h /\ route'[k] = h
          /\ BfContains(h, k) /\ ~ BfContains(h, k)'
          => \/ UpdateBf
             \/ \E r \in Key :
                  /\ route[r] = h /\ route'[r] # h
                  /\ CellsOf(r, BfSize(h)) \cap CellsOf(k, BfSize(h)) # {}
      ]_vars

\* A rebuild leaves no stale bit: a cell set afterwards comes from a counter that
\* a key routed to this next hop holds up.  And it restores every key whose next
\* hop's filter is as large as the counting filter; for a smaller filter the
\* copied cells are other cells (update_bf).
NoStaleBit ==
    \A h \in Hop : \A b \in DOMAIN bf[h] :
        b < TotalTableSize /\ bf'[h][b] # 0 =>
          \E k \in KeysAt(h) : \E c \in CellsOf(k, TotalTableSize) : c % BfSize(h) = b
FullSizeRestored ==
    \A k \in Key : \A h \in Hop :
        route[k] = h /\ BfSize(h) = TotalTableSize => BfContains(h, k)'
RebuildIsExact == [][UpdateBf => NoStaleBit /\ FullSizeRestored]_vars

\* The counting filters implement the abstract table without false negatives.
Answer == [h \in Hop |-> {k \in Key : CbfContains(h, k)}]
Cover == INSTANCE FibCover WITH answer <- Answer
CoverSpec == Cover!Spec
============================================================================
