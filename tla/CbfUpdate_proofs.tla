------------------------- MODULE CbfUpdate_proofs -------------------------
(***************************************************************************)
(* The counting filters of CbfUpdate never lose a key, for every number of *)
(* keys, next hops and hash functions, every table size and every hash.    *)
(***************************************************************************)
EXTENDS CbfUpdate, FiniteSetTheorems, TLAPS

\* A hash function's cell lies in the table (the rand() expression of insert).
LEMMA CellInTable ==
    ASSUME NEW k \in Key, NEW i \in Hash, NEW size \in Nat \ {0}
    PROVE  Cell(k, i, size) \in 0 .. size - 1
<1> DEFINE r == Rand[k][i]
           q == (r * size) \div RandMax
<1>1. r \in Nat /\ r <= RandMax - 1 /\ RandMax \in Nat \ {0}
  BY RandAssumption, CellAssumption
<1> HIDE DEF r
<1>2. r * size \in Nat /\ r * size < RandMax * size
  BY <1>1
<1>3. q \in Nat /\ q * RandMax <= r * size
  BY <1>1, <1>2
<1>4. q < size
  <2>1. SUFFICES ASSUME q >= size PROVE FALSE
    BY <1>3
  <2> HIDE DEF q
  <2>2. q * RandMax >= size * RandMax
    BY <1>1, <1>3, <2>1
  <2>3. QED
    BY <1>1, <1>2, <1>3, <2>2
<1>5. QED
  BY <1>3, <1>4 DEF Cell, r

\* A loop over the hash functions visits a cell a natural number of times,
\* and visits it at all exactly when it is one of the key's cells.
LEMMA HitsNat ==
    ASSUME NEW k \in Key, NEW c, NEW size
    PROVE  Hits(k, c, size) \in Nat
<1>1. {i \in Hash : Cell(k, i, size) = c} \in SUBSET Hash
  OBVIOUS
<1>2. QED
  BY <1>1, HashAssumption, FS_Subset, FS_CardinalityType DEF Hits

\* The remainder of a byte's increment is a byte.
LEMMA ModRange ==
    ASSUME NEW a \in Nat, NEW n \in Nat
    PROVE  a % (n + 1) \in 0 .. n
  OBVIOUS

\* The filters' sizes are positive.
LEMMA SizeNat ==
    ASSUME NEW h \in Hop
    PROVE  BfSize(h) \in Nat \ {0}
  BY SizeAssumption DEF BfSize, TableSize

\* The four loops leave the cells they do not index alone and keep bytes.
LEMMA LoopTypes ==
    ASSUME NEW k \in Key, NEW size, NEW D, NEW t \in [D -> 0 .. CellMax]
    PROVE  /\ BfInsert(t, k, size) \in [D -> 0 .. CellMax]
           /\ BfRemove(t, k, size) \in [D -> 0 .. CellMax]
           /\ CbfInsert(t, k, size) \in [D -> 0 .. CellMax]
           /\ CbfRemove(t, k, size) \in [D -> 0 .. CellMax]
<1>1. CellMax \in Nat /\ CellMax >= 2
  BY CellAssumption
<1>2. BfInsert(t, k, size) \in [D -> 0 .. CellMax]
  BY <1>1 DEF BfInsert
<1>3. BfRemove(t, k, size) \in [D -> 0 .. CellMax]
  BY <1>1 DEF BfRemove
<1>4. CbfInsert(t, k, size) \in [D -> 0 .. CellMax]
  <2>1. \A c \in D : (t[c] + Hits(k, c, size)) % (CellMax + 1) \in 0 .. CellMax
    <3> TAKE c \in D
    <3>1. Hits(k, c, size) \in Nat /\ t[c] \in Nat
      BY <1>1, HitsNat
    <3>2. t[c] + Hits(k, c, size) \in Nat
      BY <3>1
    <3>3. QED
      BY <1>1, <3>2, ModRange
  <2>2. QED
    BY <2>1 DEF CbfInsert
<1>5. CbfRemove(t, k, size) \in [D -> 0 .. CellMax]
  <2>1. \A c \in D : (IF t[c] <= Hits(k, c, size) THEN 0
                      ELSE t[c] - Hits(k, c, size)) \in 0 .. CellMax
    <3> TAKE c \in D
    <3>1. Hits(k, c, size) \in Nat /\ t[c] \in 0 .. CellMax
      BY <1>1, HitsNat
    <3>2. QED
      BY <1>1, <3>1
  <2>2. QED
    BY <2>1 DEF CbfRemove
<1>6. QED
  BY <1>2, <1>3, <1>4, <1>5

----------------------------------------------------------------------------
\* the domains that the filters of h keep from their initialisation
BfDom(h)  == IF Count[h] = 0 THEN {} ELSE 0 .. BfSize(h) - 1
CbfDom(h) == IF Count[h] = 0 THEN {} ELSE 0 .. TotalTableSize - 1

\* The initial tables are typed: bloom_filter_init zeroes what it allocates.
LEMMA InitType == Init => TypeOK
<1> SUFFICES ASSUME Init PROVE TypeOK
  OBVIOUS
<1>1. \A h \in Hop : /\ bf[h] = [c \in BfDom(h) |-> 0]
                     /\ cbf[h] = [c \in CbfDom(h) |-> 0]
  <2>1. TableSize(TotalTableSize) = TotalTableSize
    BY SizeAssumption DEF TableSize
  <2>2. \A h \in Hop : TableSize(BfSize(h)) = BfSize(h)
    BY SizeNat DEF TableSize
  <2>3. QED
    BY <2>1, <2>2 DEF Init, NewTable, BfDom, CbfDom
<1>2. CellMax \in Nat
  BY CellAssumption
<1>3. \A h \in Hop : /\ bf[h] \in [BfDom(h) -> 0 .. CellMax]
                     /\ cbf[h] \in [CbfDom(h) -> 0 .. CellMax]
  <2> TAKE h \in Hop
  <2> DEFINE B == BfDom(h)
             C == CbfDom(h)
  <2>1. bf[h] = [c \in B |-> 0] /\ cbf[h] = [c \in C |-> 0]
    BY <1>1
  <2> HIDE DEF B, C
  <2>2. bf[h] \in [B -> 0 .. CellMax] /\ cbf[h] \in [C -> 0 .. CellMax]
    BY <1>2, <2>1
  <2>3. QED
    BY <2>2 DEF B, C
<1>4. /\ pc = "load" /\ DOMAIN bf = Hop /\ DOMAIN cbf = Hop
      /\ route \in [Key -> Hop \cup {NoHop}]
  BY DEF Init
<1>5. QED
  BY <1>3, <1>4 DEF TypeOK, BfDom, CbfDom

\* Every operation of cbf.cc keeps the types.
LEMMA NextType == TypeOK /\ [Next]_vars => TypeOK'
<1> SUFFICES ASSUME TypeOK, [Next]_vars PROVE TypeOK'
  OBVIOUS
<1>0. \A h \in Hop : /\ bf[h] \in [BfDom(h) -> 0 .. CellMax]
                     /\ cbf[h] \in [CbfDom(h) -> 0 .. CellMax]
  BY DEF TypeOK, BfDom, CbfDom
<1> DEFINE T(b, c) == /\ DOMAIN b = Hop /\ DOMAIN c = Hop
                      /\ \A h \in Hop : /\ b[h] \in [BfDom(h) -> 0 .. CellMax]
                                        /\ c[h] \in [CbfDom(h) -> 0 .. CellMax]
<1>T. ASSUME pc' \in {"load", "run", "crashed"},
             route' \in [Key -> Hop \cup {NoHop}], T(bf', cbf')
      PROVE  TypeOK'
  BY <1>T DEF TypeOK, BfDom, CbfDom
<1>1. CASE UNCHANGED vars
  BY <1>1 DEF TypeOK, vars
<1>2. ASSUME NEW k \in Key, NEW h \in Hop, Load(k, h) PROVE TypeOK'
  <2>1. BfInsert(bf[h], k, BfSize(h)) \in [BfDom(h) -> 0 .. CellMax]
    BY <1>0, LoopTypes
  <2>2. CbfInsert(cbf[h], k, TotalTableSize) \in [CbfDom(h) -> 0 .. CellMax]
    BY <1>0, LoopTypes
  <2>3. T(bf', cbf')
    BY <1>0, <1>2, <2>1, <2>2 DEF Load, TypeOK
  <2> HIDE DEF T
  <2>4. QED
    BY <1>2, <1>T, <2>3 DEF Load, TypeOK
<1>3. CASE Loaded
  BY <1>3 DEF Loaded, TypeOK
<1>4. ASSUME NEW k \in Key, NEW out \in Hop, RouteUpdate(k, out) PROVE TypeOK'
  <2> DEFINE in == route[k]
             without == [cbf EXCEPT ![in] = CbfRemove(@, k, TotalTableSize)]
             cleared == [bf EXCEPT ![in] = BfRemove(@, k, BfSize(in))]
  <2>1. in \in Hop
    BY <1>4 DEF RouteUpdate, TypeOK
  <2>2. /\ BfRemove(bf[in], k, BfSize(in)) \in [BfDom(in) -> 0 .. CellMax]
        /\ CbfRemove(cbf[in], k, TotalTableSize) \in [CbfDom(in) -> 0 .. CellMax]
    BY <1>0, <2>1, LoopTypes
  <2>3. T(cleared, without)
    BY <1>0, <2>2 DEF TypeOK
  <2>4. /\ BfInsert(cleared[out], k, BfSize(out)) \in [BfDom(out) -> 0 .. CellMax]
        /\ CbfInsert(without[out], k, TotalTableSize) \in [CbfDom(out) -> 0 .. CellMax]
    BY <2>3, LoopTypes
  <2>5. /\ bf' = [cleared EXCEPT ![out] = BfInsert(@, k, BfSize(out))]
        /\ cbf' = [without EXCEPT ![out] = CbfInsert(@, k, TotalTableSize)]
        /\ route' = [route EXCEPT ![k] = out] /\ UNCHANGED pc
    BY <1>4 DEF RouteUpdate
  <2> HIDE DEF cleared, without
  <2>6. T(bf', cbf')
    BY <2>3, <2>4, <2>5
  <2> HIDE DEF T
  <2>7. QED
    BY <1>T, <2>5, <2>6 DEF TypeOK
<1>5. CASE UpdateBf
  <2>1. \A h \in Hop : Rebuilt(h) \in [BfDom(h) -> 0 .. CellMax]
    <3> SUFFICES ASSUME NEW h \in Hop, NEW b \in BfDom(h)
                 PROVE  /\ DOMAIN bf[h] = BfDom(h)
                        /\ (IF b < TotalTableSize
                              THEN cbf[h][LastSource(b, BfSize(h))]
                              ELSE bf[h][b]) \in 0 .. CellMax
      BY <1>0 DEF Rebuilt
    <3>1. CASE b >= TotalTableSize
      BY <1>0, <3>1, SizeAssumption, SizeNat DEF BfDom
    <3>2. CASE b < TotalTableSize
      <4> DEFINE s == BfSize(h)
                 n == TotalTableSize - 1 - b
      <4>1. s \in Nat \ {0} /\ b \in Nat /\ n \in Nat
        BY <1>5, <3>2, SizeNat, SizeAssumption DEF BfDom
      <4> HIDE DEF s
      <4>2. s * (n \div s) \in 0 .. n
        BY <4>1
      <4>3. b + s * (n \div s) \in 0 .. TotalTableSize - 1
        BY <4>1, <4>2, SizeAssumption
      <4>4. LastSource(b, BfSize(h)) \in CbfDom(h)
        BY <1>5, <4>3 DEF LastSource, CbfDom, UpdateBf, s
      <4>5. QED
        BY <1>0, <3>2, <4>4
    <3>3. QED
      BY <3>1, <3>2, SizeNat, SizeAssumption DEF BfDom
  <2>2. T(bf', cbf')
    BY <1>0, <1>5, <2>1 DEF UpdateBf, TypeOK
  <2> HIDE DEF T
  <2>3. QED
    BY <1>5, <1>T, <2>2 DEF UpdateBf, TypeOK
<1>6. CASE UpdateBfNull
  BY <1>6 DEF UpdateBfNull, TypeOK
<1>7. QED
  BY <1>1, <1>2, <1>3, <1>4, <1>5, <1>6 DEF Next

\* The variables keep their types (see TypeOK) along every behaviour.
THEOREM TypeCorrect == Spec => []TypeOK
  BY InitType, NextType, PTL DEF Spec

----------------------------------------------------------------------------
\* the hash functions of the keys that r routes to h that fall on cell c of a
\* table of this size
HitsIn(r, h, c, size) == {p \in Key \X Hash : /\ r[p[1]] = h
                                              /\ Cell(p[1], p[2], size) = c}

LEMMA CountersHits ==
    ASSUME NEW r, NEW h, NEW c
    PROVE  HitsOf(r, h, c) = HitsIn(r, h, c, TotalTableSize)
  BY DEF HitsOf, HitsIn

\* The hits of a cell are finitely many, no more than all the hash functions of
\* all the keys.
LEMMA HitsInFinite ==
    ASSUME NEW r, NEW h, NEW c, NEW size
    PROVE  /\ IsFiniteSet(HitsIn(r, h, c, size))
           /\ Cardinality(HitsIn(r, h, c, size)) \in Nat
           /\ Cardinality(HitsIn(r, h, c, size)) <= Cardinality(Key) * Cardinality(Hash)
<1>1. /\ IsFiniteSet(Key \X Hash)
      /\ Cardinality(Key \X Hash) = Cardinality(Key) * Cardinality(Hash)
  BY KeyAssumption, HashAssumption, FS_Product
<1>2. HitsIn(r, h, c, size) \in SUBSET (Key \X Hash)
  BY DEF HitsIn
<1>3. QED
  BY <1>1, <1>2, FS_Subset, FS_CardinalityType

LEMMA HitsOfFinite ==
    ASSUME NEW r, NEW h, NEW c
    PROVE  /\ IsFiniteSet(HitsOf(r, h, c))
           /\ Cardinality(HitsOf(r, h, c)) \in Nat
           /\ Cardinality(HitsOf(r, h, c)) <= Cardinality(Key) * Cardinality(Hash)
  BY HitsInFinite, CountersHits

\* r after k is routed to h
Moved(r, k, h) == [r EXCEPT ![k] = h]

\* Routing k to h adds, to the hits of a cell of h, those of k.
LEMMA HitsInAdd ==
    ASSUME NEW r \in [Key -> Hop \cup {NoHop}], NEW k \in Key, NEW h \in Hop,
           NEW c, NEW size, r[k] # h
    PROVE  Cardinality(HitsIn(Moved(r, k, h), h, c, size))
             = Cardinality(HitsIn(r, h, c, size)) + Hits(k, c, size)
<1> DEFINE I == {i \in Hash : Cell(k, i, size) = c}
           A == HitsIn(r, h, c, size)
           B == {k} \X I
<1>1. IsFiniteSet(I)
  <2>1. I \in SUBSET Hash
    OBVIOUS
  <2> HIDE DEF I
  <2>2. QED
    BY <2>1, HashAssumption, FS_Subset
<1>2. /\ IsFiniteSet(B) /\ Cardinality(B) = Hits(k, c, size)
      /\ Hits(k, c, size) \in Nat
  <2>1. Hits(k, c, size) = Cardinality(I)
    BY DEF Hits
  <2>2. Hits(k, c, size) \in Nat
    BY HitsNat
  <2>3. IsFiniteSet({k}) /\ Cardinality({k}) = 1
    BY FS_Singleton
  <2> HIDE DEF I
  <2>4. IsFiniteSet({k} \X I) /\ Cardinality({k} \X I) = 1 * Cardinality(I)
    BY <1>1, <2>3, FS_Product
  <2>5. QED
    BY <2>1, <2>2, <2>4
<1>3. HitsIn(Moved(r, k, h), h, c, size) = A \cup B
  BY DEF HitsIn, Moved
<1>4. A \cap B = {}
  BY DEF HitsIn
<1>5. IsFiniteSet(A) /\ Cardinality(A) \in Nat
  BY HitsInFinite
<1> HIDE DEF A, B
<1>6. Cardinality(A \cup B)
        = Cardinality(A) + Cardinality(B) - Cardinality(A \cap B)
  BY <1>2, <1>5, FS_Union
<1>7. Cardinality(A \cap B) = 0
  BY <1>4, FS_EmptySet
<1>8. Cardinality(A \cup B) = Cardinality(A) + Cardinality(B)
  BY <1>2, <1>5, <1>6, <1>7
<1>9. QED
  BY <1>2, <1>3, <1>8 DEF A

LEMMA HitsAdd ==
    ASSUME NEW r \in [Key -> Hop \cup {NoHop}], NEW k \in Key, NEW h \in Hop,
           NEW c, r[k] # h
    PROVE  Cardinality(HitsOf(Moved(r, k, h), h, c))
             = Cardinality(HitsOf(r, h, c)) + Hits(k, c, TotalTableSize)
  BY HitsInAdd, CountersHits

\* Routing k away from h takes them off again.
LEMMA HitsDel ==
    ASSUME NEW r \in [Key -> Hop \cup {NoHop}], NEW k \in Key, NEW h \in Hop,
           NEW g \in Hop \cup {NoHop}, NEW c, r[k] = h, g # h
    PROVE  Cardinality(HitsOf(r, h, c))
             = Cardinality(HitsOf(Moved(r, k, g), h, c))
                 + Hits(k, c, TotalTableSize)
<1> DEFINE q == Moved(r, k, g)
<1>1. q \in [Key -> Hop \cup {NoHop}] /\ q[k] # h
  BY DEF Moved
<1>2. r = Moved(q, k, h)
  BY DEF Moved
<1> HIDE DEF q
<1>3. Cardinality(HitsOf(Moved(q, k, h), h, c))
        = Cardinality(HitsOf(q, h, c)) + Hits(k, c, TotalTableSize)
  BY <1>1, HitsAdd
<1>4. QED
  BY <1>2, <1>3 DEF q

\* Other next hops' counters see nothing of it.
LEMMA HitsSame ==
    ASSUME NEW r \in [Key -> Hop \cup {NoHop}], NEW k \in Key, NEW h \in Hop,
           NEW g \in Hop, NEW c, r[k] # h, g # h
    PROVE  HitsOf(Moved(r, k, g), h, c) = HitsOf(r, h, c)
  BY DEF HitsOf, Moved

\* An increment that stays within the byte does not wrap.
LEMMA NoWrapAdd ==
    ASSUME NEW a \in Nat, NEW n \in Nat, a <= n
    PROVE  a % (n + 1) = a
  OBVIOUS

\* What the counting filters hold, when no counter can wrap.
LEMMA ExactInit == Init => CounterExact
<1> SUFFICES ASSUME Init, NEW h \in Hop, NEW c \in DOMAIN cbf[h]
             PROVE  cbf[h][c] = Cardinality(HitsAt(h, c))
  BY DEF CounterExact
<1>1. cbf[h][c] = 0
  BY DEF Init, NewTable
<1>2. HitsAt(h, c) = {}
  BY HopAssumption DEF Init, HitsAt, HitsOf
<1>3. QED
  BY <1>1, <1>2, FS_EmptySet

\* With so few keys the hits of any counter fit.
LEMMA AllFit == NoWrap => Fits
<1> SUFFICES ASSUME NoWrap, NEW h \in Hop, NEW c
             PROVE  Cardinality(HitsAt(h, c)) <= CellMax
  BY DEF Fits
<1>1. /\ Cardinality(HitsAt(h, c)) \in Nat
      /\ Cardinality(HitsAt(h, c)) <= Cardinality(Key) * Cardinality(Hash)
  BY HitsOfFinite DEF HitsAt
<1>2. Cardinality(Key) \in Nat /\ Cardinality(Hash) \in Nat
  BY KeyAssumption, HashAssumption, FS_CardinalityType
<1>3. Cardinality(Key) * Cardinality(Hash) \in Nat
  BY <1>2
<1> QED  BY <1>1, <1>3, CellAssumption DEF NoWrap

\* Insertions and removals keep the counters equal to the hits of the keys
\* now routed to each next hop, when these fit.
LEMMA ExactNext ==
    ASSUME TypeOK, CounterExact, Fits', [Next]_vars
    PROVE  CounterExact'
<1> DEFINE m(k, c) == Hits(k, c, TotalTableSize)
           n(r, h, c) == Cardinality(HitsOf(r, h, c))
<1>1. \A r, h, c : n(r, h, c) \in Nat
  BY HitsOfFinite
<1>2. \A k \in Key : \A c : m(k, c) \in Nat
  BY HitsNat
<1>3. \A h \in Hop : \A c \in DOMAIN cbf[h] : cbf[h][c] = n(route, h, c)
  BY DEF CounterExact, HitsAt
<1>4. \A h \in Hop : cbf[h] \in [DOMAIN cbf[h] -> 0 .. CellMax]
  BY DEF TypeOK
<1> SUFFICES ASSUME NEW h \in Hop, NEW c \in DOMAIN cbf'[h]
             PROVE  cbf'[h][c] = n(route', h, c)
  BY DEF CounterExact, HitsAt
<1>5. n(route', h, c) <= CellMax
  BY DEF Fits, HitsAt
<1>6. CASE UNCHANGED <<route, cbf>>
  BY <1>3, <1>6
<1>7. ASSUME NEW k \in Key, NEW g \in Hop, Load(k, g)
      PROVE  cbf'[h][c] = n(route', h, c)
  <2>1. /\ k \in Key /\ g \in Hop /\ route[k] = NoHop
        /\ route' = Moved(route, k, g)
        /\ cbf' = [cbf EXCEPT ![g] = CbfInsert(@, k, TotalTableSize)]
        /\ route \in [Key -> Hop \cup {NoHop}] /\ NoHop \notin Hop
    BY <1>7, HopAssumption DEF Load, TypeOK, Moved
  <2>2. CASE h = g
    <3>1. c \in DOMAIN cbf[h] /\ cbf'[h][c] = (cbf[h][c] + m(k, c)) % (CellMax + 1)
      BY <2>1, <2>2 DEF CbfInsert, TypeOK
    <3>2. n(route', h, c) = n(route, h, c) + m(k, c)
      BY <2>1, <2>2, HitsAdd
    <3> HIDE DEF n, m
    <3>3. cbf[h][c] + m(k, c) \in Nat /\ cbf[h][c] + m(k, c) <= CellMax
      BY <1>1, <1>3, <1>5, <3>1, <3>2
    <3>4. QED
      BY <1>1, <1>3, <3>1, <3>2, <3>3, CellAssumption, NoWrapAdd
  <2>3. CASE h # g
    <3>1. n(route', h, c) = n(route, h, c)
      BY <2>1, <2>3, HitsSame
    <3> HIDE DEF n
    <3>2. QED
      BY <1>3, <2>1, <2>3, <3>1 DEF TypeOK
  <2>4. QED
    BY <2>2, <2>3
<1>8. ASSUME NEW k \in Key, NEW out \in Hop, RouteUpdate(k, out)
      PROVE  cbf'[h][c] = n(route', h, c)
  <2> DEFINE in == route[k]
             without == [cbf EXCEPT ![in] = CbfRemove(@, k, TotalTableSize)]
  <2>1. /\ k \in Key /\ out \in Hop /\ in \in Hop
        /\ route \in [Key -> Hop \cup {NoHop}]
        /\ route' = Moved(route, k, out)
        /\ cbf' = [without EXCEPT ![out] = CbfInsert(@, k, TotalTableSize)]
        /\ DOMAIN cbf = Hop
    BY <1>8 DEF RouteUpdate, TypeOK, Moved
  <2>2. \A d \in DOMAIN cbf[in] : n(route, in, d) >= m(k, d)
    <3> TAKE d \in DOMAIN cbf[in]
    <3> DEFINE q == Moved(route, k, NoHop)
    <3>0. NoHop \in Hop \cup {NoHop} /\ NoHop # in /\ route[k] = in
      BY <2>1, HopAssumption
    <3>1. n(route, in, d) = n(q, in, d) + m(k, d)
      <4> HIDE DEF in
      <4>1. QED
        BY <2>1, <3>0, HitsDel
    <3>2. n(route, in, d) \in Nat /\ n(q, in, d) \in Nat /\ m(k, d) \in Nat
      BY <1>1, <1>2
    <3> HIDE DEF n, m, q
    <3>3. QED
      BY <3>1, <3>2
  <2>3. DOMAIN without[in] = DOMAIN cbf[in]
    BY <2>1 DEF CbfRemove
  <2>4. \A d \in DOMAIN cbf[in] : without[in][d] = n(route, in, d) - m(k, d)
    <3> TAKE d \in DOMAIN cbf[in]
    <3>1. without[in][d] = IF cbf[in][d] <= m(k, d) THEN 0 ELSE cbf[in][d] - m(k, d)
      BY <2>1 DEF CbfRemove
    <3>2. cbf[in][d] = n(route, in, d)
      BY <1>3, <2>1
    <3> HIDE DEF n, m
    <3>3. QED
      BY <1>1, <1>2, <2>2, <3>1, <3>2
  <2>5. CASE h # out /\ h # in
    <3>1. cbf'[h] = cbf[h]
      BY <2>1, <2>5
    <3>2. n(route', h, c) = n(route, h, c)
      BY <2>1, <2>5, HitsSame
    <3> HIDE DEF n
    <3>3. QED
      BY <1>3, <3>1, <3>2
  <2>6. CASE h = in /\ h # out
    <3>1. cbf'[h] = without[in] /\ c \in DOMAIN cbf[in]
      BY <2>1, <2>3, <2>6
    <3>2. n(route, h, c) = n(route', h, c) + m(k, c)
      BY <2>1, <2>6, HitsDel
    <3> HIDE DEF n, m, without
    <3>3. QED
      BY <1>1, <1>2, <2>4, <2>6, <3>1, <3>2
  <2>7. CASE h = out
    <3>1. /\ c \in DOMAIN without[h]
          /\ cbf'[h][c] = (without[h][c] + m(k, c)) % (CellMax + 1)
      BY <2>1, <2>7 DEF CbfInsert
    <3>2. n(route', h, c) = without[h][c] + m(k, c)
      <4>1. CASE in = h
        <5>1. route' = route
          BY <2>1, <2>7, <4>1 DEF Moved
        <5>2. without[h][c] = n(route, h, c) - m(k, c)
          BY <2>3, <2>4, <3>1, <4>1
        <5> HIDE DEF n, m, without
        <5>3. QED
          BY <1>1, <1>2, <5>1, <5>2
      <4>2. CASE in # h
        <5>1. n(route', h, c) = n(route, h, c) + m(k, c)
          BY <2>1, <2>7, <4>2, HitsAdd
        <5>2. without[h] = cbf[h]
          BY <2>1, <4>2
        <5> HIDE DEF n, m, without
        <5>3. QED
          BY <1>3, <3>1, <5>1, <5>2
      <4>3. QED
        BY <4>1, <4>2
    <3> HIDE DEF n, m, without
    <3>3. QED
      BY <1>1, <1>5, <3>1, <3>2, CellAssumption, NoWrapAdd
  <2>8. QED
    BY <2>5, <2>6, <2>7
<1>9. QED
  BY <1>6, <1>7, <1>8 DEF Next, vars, Loaded, UpdateBf, UpdateBfNull

\* A key's cells in its next hop's counting filter are all held up by it.
LEMMA ExactFinds ==
    ASSUME TypeOK, CounterExact
    PROVE  CbfNoFalseNegative
<1> SUFFICES ASSUME NEW k \in Key, NEW h \in Hop, route[k] = h, Count[h] # 0
             PROVE  Contains(cbf[h], k, TotalTableSize)
  BY DEF CbfNoFalseNegative, CbfContains
<1>1. DOMAIN cbf[h] = 0 .. TotalTableSize - 1
  BY DEF TypeOK
<1>2. ASSUME NEW i \in Hash PROVE cbf[h][Cell(k, i, TotalTableSize)] # 0
  <2> DEFINE c == Cell(k, i, TotalTableSize)
  <2>1. c \in DOMAIN cbf[h]
    BY <1>1, CellInTable, SizeAssumption
  <2>2. <<k, i>> \in HitsOf(route, h, c)
    BY DEF HitsOf
  <2> HIDE DEF c
  <2>3. Cardinality(HitsOf(route, h, c)) # 0
    BY <2>2, HitsOfFinite, FS_EmptySet
  <2>4. QED
    BY <2>1, <2>3 DEF CounterExact, HitsAt, c
<1>3. 0 \in DOMAIN cbf[h]
  BY <1>1, SizeAssumption
<1>4. QED
  BY <1>2, <1>3 DEF Contains, CellsOf

\* As long as no counter can wrap, every counter is exact in every reachable
\* state, however keys were inserted and moved (see CounterExact).
THEOREM CountersAreExact == ASSUME NoWrap PROVE Spec => []CounterExact
<1>1. Fits
  BY AllFit
<1>2. TypeOK /\ CounterExact /\ Fits' /\ [Next]_vars => CounterExact'
  BY ExactNext
<1>3. QED
  BY <1>1, <1>2, ExactInit, TypeCorrect, PTL DEF Spec

\* Counters go wrong in no other way than by wrapping, whatever the number of
\* keys (see ExactUntilWrap).
THEOREM WrongOnlyByWrapping == Spec => ExactUntilWrap
<1>1. TypeOK /\ [Next]_vars => (CounterExact /\ Fits' => CounterExact')
  BY ExactNext
<1>2. QED
  BY <1>1, TypeCorrect, PTL DEF Spec, ExactUntilWrap

\* The counting filter of a key's next hop finds it in every reachable state
\* (see CbfNoFalseNegative), although counters are shared among keys.
THEOREM NeverLosesAKey == ASSUME NoWrap PROVE Spec => []CbfNoFalseNegative
  BY ExactFinds, CountersAreExact, TypeCorrect, PTL

----------------------------------------------------------------------------
\* Loading and moving a key is an assignment of the abstract table; leaving
\* the load phase, rebuilds of the plain filters and the crash are stutters.
LEMMA StepCovers ==
    ASSUME AllSized, TypeOK, TypeOK', CbfNoFalseNegative', [Next]_vars
    PROVE  [Cover!Next]_(Cover!vars)
<1>1. Cover!Covered(route, Answer)'
  <2> SUFFICES ASSUME NEW k \in Key, route'[k] \in Hop
               PROVE  k \in Answer'[route'[k]]
    BY DEF Cover!Covered
  <2>1. Contains(cbf'[route'[k]], k, TotalTableSize)
    BY DEF CbfNoFalseNegative, AllSized, CbfContains
  <2>2. QED
    BY <2>1 DEF Answer, CbfContains
<1>2. Answer' \in [Hop -> SUBSET Key]
  BY DEF Answer
<1>3. ASSUME NEW k \in Key, NEW h \in Hop, route' = [route EXCEPT ![k] = h]
      PROVE  Cover!Next
  BY <1>1, <1>2, <1>3 DEF Cover!Next, Cover!Assign
<1>4. ASSUME UNCHANGED <<route, cbf>> PROVE UNCHANGED Cover!vars
  BY <1>4 DEF Cover!vars, Answer, CbfContains
<1>5. ASSUME NEW k \in Key, NEW h \in Hop, Load(k, h) PROVE Cover!Next
  BY <1>3, <1>5 DEF Load
<1>6. ASSUME NEW k \in Key, NEW h \in Hop, RouteUpdate(k, h) PROVE Cover!Next
  BY <1>3, <1>6 DEF RouteUpdate
<1>7. QED
  BY <1>4, <1>5, <1>6
  DEF Next, vars, Loaded, UpdateBf, UpdateBfNull

\* The counting filters implement a forwarding table that never answers no
\* for a routed address: with tables for every next hop and no wrapping
\* counter, CbfUpdate refines FibCover.
THEOREM ImplementsCover == ASSUME NoWrap, AllSized PROVE Spec => CoverSpec
<1>1. Init => Cover!Init
  BY DEF Init, Cover!Init, Answer
<1>2. TypeOK /\ TypeOK' /\ CbfNoFalseNegative' /\ [Next]_vars
        => [Cover!Next]_(Cover!vars)
  BY StepCovers
<1>3. QED
  BY <1>1, <1>2, TypeCorrect, NeverLosesAKey, PTL DEF Spec, CoverSpec, Cover!Spec

----------------------------------------------------------------------------
\* The plain filters.  A key that only loads leaves in every cell 0, 1 or 2: the
\* number of hits, or 2 for more.
LEMMA PlainInit == Init => BfExactWhileLoading
<1> SUFFICES ASSUME Init, NEW h \in Hop, NEW c \in DOMAIN bf[h]
             PROVE  /\ bf[h][c] = 0
                    /\ {p \in Key \X Hash : /\ route[p[1]] = h
                                            /\ Cell(p[1], p[2], BfSize(h)) = c} = {}
  BY FS_EmptySet DEF BfExactWhileLoading
<1>1. bf[h][c] = 0
  BY DEF Init, NewTable
<1> QED  BY <1>1, HopAssumption DEF Init

LEMMA PlainNext == TypeOK /\ BfExactWhileLoading /\ [Next]_vars => BfExactWhileLoading'
<1> DEFINE m(k, c, s) == Hits(k, c, s)
           n(r, h, c) == Cardinality(HitsIn(r, h, c, BfSize(h)))
           Upto2(x) == IF x > 2 THEN 2 ELSE x
           Exact(b, r, h) == \A c \in DOMAIN b[h] : b[h][c] = Upto2(n(r, h, c))
<1> SUFFICES ASSUME TypeOK, BfExactWhileLoading, [Next]_vars, pc' = "load", NEW h \in Hop
             PROVE  Exact(bf', route', h)
  BY DEF BfExactWhileLoading, HitsIn
<1>1. pc = "load"
  BY DEF Next, vars, Load, Loaded, RouteUpdate, UpdateBf, UpdateBfNull
<1>2. Exact(bf, route, h)
  BY <1>1 DEF BfExactWhileLoading, HitsIn
<1>3. ASSUME NEW k \in Key, NEW g \in Hop, Load(k, g)
      PROVE  Exact(bf', route', h)
  <2>1. /\ route[k] = NoHop /\ route' = Moved(route, k, g) /\ DOMAIN bf = Hop
        /\ bf' = [bf EXCEPT ![g] = BfInsert(@, k, BfSize(g))]
        /\ route \in [Key -> Hop \cup {NoHop}] /\ NoHop \notin Hop
    BY <1>3, HopAssumption DEF Load, TypeOK, Moved
  <2>2. CASE h = g
    <3> SUFFICES ASSUME NEW c \in DOMAIN bf'[h]
                 PROVE  bf'[h][c] = Upto2(n(route', h, c))
      OBVIOUS
    <3>1. /\ c \in DOMAIN bf[h]
          /\ bf'[h][c] = IF m(k, c, BfSize(h)) = 0 THEN bf[h][c]
                         ELSE IF bf[h][c] = 0 /\ m(k, c, BfSize(h)) = 1 THEN 1 ELSE 2
      BY <2>1, <2>2 DEF BfInsert
    <3>2. n(route', h, c) = n(route, h, c) + m(k, c, BfSize(h))
      BY <2>1, <2>2, HitsInAdd
    <3>3. n(route, h, c) \in Nat /\ m(k, c, BfSize(h)) \in Nat
      BY HitsInFinite, HitsNat
    <3>4. bf[h][c] = Upto2(n(route, h, c))
      BY <1>2, <3>1
    <3> HIDE DEF n, m
    <3> QED  BY <3>1, <3>2, <3>3, <3>4
  <2>3. CASE h # g
    <3>1. \A c : HitsIn(route', h, c, BfSize(h)) = HitsIn(route, h, c, BfSize(h))
      BY <2>1, <2>3 DEF HitsIn, Moved
    <3>2. bf'[h] = bf[h]
      BY <2>1, <2>3
    <3> QED  BY <1>2, <3>1, <3>2
  <2> QED  BY <2>2, <2>3
<1>4. CASE UNCHANGED <<route, bf>>
  BY <1>2, <1>4
<1> QED
  BY <1>1, <1>3, <1>4 DEF Next, vars, Loaded, RouteUpdate, UpdateBf, UpdateBfNull

\* While the table is loaded the plain filters know how often a cell was hit, as
\* far as three values can say it (see BfExactWhileLoading).
THEOREM PlainExactWhileLoading == Spec => []BfExactWhileLoading
  BY PlainInit, PlainNext, TypeCorrect, PTL DEF Spec

\* An insertion sets all the key's cells and clears none.
LEMMA BfInsertSets ==
    ASSUME NEW t, NEW k \in Key, NEW size, NEW c \in DOMAIN t
    PROVE  /\ t[c] # 0 => BfInsert(t, k, size)[c] # 0
           /\ c \in CellsOf(k, size) => BfInsert(t, k, size)[c] # 0
<1> DEFINE I == {i \in Hash : Cell(k, i, size) = c}
<1>1. c \in CellsOf(k, size) => Hits(k, c, size) # 0
  <2> SUFFICES ASSUME c \in CellsOf(k, size) PROVE Cardinality(I) # 0
    BY DEF Hits
  <2>1. I \in SUBSET Hash /\ I # {}
    BY DEF CellsOf
  <2> HIDE DEF I
  <2> QED  BY <2>1, HashAssumption, FS_Subset, FS_EmptySet
<1> QED  BY <1>1 DEF BfInsert

\* The moves of other keys cost a key its place in its filter only through a cell
\* that both have (see BfLossNeedsCollision).
LEMMA LossNext ==
    ASSUME TypeOK, [Next]_vars, NEW k \in Key, NEW h \in Hop,
           route[k] = h, route'[k] = h, BfContains(h, k), ~ BfContains(h, k)', ~UpdateBf
    PROVE  \E r \in Key : /\ route[r] = h /\ route'[r] # h
                          /\ CellsOf(r, BfSize(h)) \cap CellsOf(k, BfSize(h)) # {}
<1> DEFINE C == CellsOf(k, BfSize(h))
           D == DOMAIN bf[h]
<1>1. D # {} /\ \A c \in C : bf[h][c] # 0
  BY DEF BfContains, Contains
<1>2. D = 0 .. BfSize(h) - 1
  BY <1>1 DEF TypeOK
<1>3. C \subseteq D
  <2>1. \A i \in Hash : Cell(k, i, BfSize(h)) \in 0 .. BfSize(h) - 1
    BY SizeNat, CellInTable
  <2> QED  BY <1>2, <2>1 DEF CellsOf
<1>4. DOMAIN bf = Hop
  BY DEF TypeOK
<1>5. ASSUME DOMAIN bf'[h] = D, \A c \in C : bf'[h][c] # 0
      PROVE  FALSE
  BY <1>1, <1>5 DEF BfContains, Contains
<1>6. ASSUME UNCHANGED bf PROVE FALSE
  BY <1>5, <1>6, <1>1
<1>7. ASSUME NEW j \in Key, NEW g \in Hop, Load(j, g)
      PROVE  FALSE
  <2>1. bf' = [bf EXCEPT ![g] = BfInsert(@, j, BfSize(g))]
    BY <1>7 DEF Load
  <2>2. CASE g = h
    <3>1. bf'[h] = BfInsert(bf[h], j, BfSize(h))
      BY <1>4, <2>1, <2>2
    <3>2. DOMAIN bf'[h] = D
      BY <3>1 DEF BfInsert
    <3> QED  BY <1>1, <1>3, <1>5, <3>1, <3>2, BfInsertSets
  <2>3. CASE g # h
    <3>1. bf'[h] = bf[h]
      BY <1>4, <2>1, <2>3
    <3> QED  BY <1>1, <1>5, <3>1
  <2> QED  BY <2>2, <2>3
<1>8. ASSUME NEW r \in Key, NEW out \in Hop, RouteUpdate(r, out)
      PROVE  /\ route[r] = h /\ route'[r] # h
             /\ CellsOf(r, BfSize(h)) \cap C # {}
  <2> DEFINE in == route[r]
             cleared == [bf EXCEPT ![in] = BfRemove(@, r, BfSize(in))]
  <2>1. /\ in \in Hop /\ route'[r] = out
        /\ bf' = [cleared EXCEPT ![out] = BfInsert(@, r, BfSize(out))]
    BY <1>8 DEF RouteUpdate, TypeOK
  <2>2. DOMAIN cleared = Hop /\ DOMAIN cleared[h] = D
    BY <1>4 DEF BfRemove
  <2>3. \A c \in C : cleared[h][c] # 0 \/ (in = h /\ c \in CellsOf(r, BfSize(h)))
    <3>1. CASE in = h
      <4>1. cleared[h] = BfRemove(bf[h], r, BfSize(h))
        BY <1>4, <3>1
      <4> HIDE DEF cleared, in, C
      <4> QED  BY <1>1, <1>3, <3>1, <4>1 DEF BfRemove
    <3>2. CASE in # h
      <4>1. cleared[h] = bf[h]
        BY <1>4, <3>2
      <4> HIDE DEF cleared, in, C
      <4> QED  BY <1>1, <4>1
    <3> QED  BY <3>1, <3>2
  <2> HIDE DEF cleared, in, C
  <2>4. CASE out = h
    <3>1. bf'[h] = BfInsert(cleared[h], r, BfSize(h))
      BY <2>1, <2>2, <2>4
    <3>2. DOMAIN bf'[h] = D
      BY <2>2, <3>1 DEF BfInsert
    <3>3. \A c \in C : bf'[h][c] # 0
      BY <1>3, <2>2, <2>3, <3>1, BfInsertSets
    <3> QED  BY <1>5, <3>2, <3>3
  <2>5. CASE out # h
    <3>1. bf'[h] = cleared[h]
      BY <2>1, <2>2, <2>5
    <3>2. PICK c \in C : in = h /\ c \in CellsOf(r, BfSize(h))
      BY <1>5, <2>2, <2>3, <3>1
    <3> QED  BY <2>1, <2>5, <3>2 DEF in
  <2> QED  BY <2>4, <2>5
<1> QED
  BY <1>6, <1>7, <1>8 DEF Next, vars, Loaded, UpdateBfNull

\* A plain filter loses a key that stays only to a key with a cell in common that
\* moves away, or to a rebuild (see BfLossNeedsCollision).
THEOREM LossesAreCollisions == Spec => BfLossNeedsCollision
<1>1. TypeOK /\ [Next]_vars =>
        [ \A k \in Key : \A h \in Hop :
            /\ route[k] = h /\ route'[k] = h
            /\ BfContains(h, k) /\ ~ BfContains(h, k)'
            => \/ UpdateBf
               \/ \E r \in Key :
                    /\ route[r] = h /\ route'[r] # h
                    /\ CellsOf(r, BfSize(h)) \cap CellsOf(k, BfSize(h)) # {}
        ]_vars
  BY LossNext
<1>2. QED
  BY <1>1, TypeCorrect, PTL DEF Spec, BfLossNeedsCollision

----------------------------------------------------------------------------
\* The cell that update_bf copies last into cell b is one of the counting filter's,
\* and b is what it leaves modulo the size; for equal sizes it is b itself.
LEMMA SourceIs ==
    ASSUME NEW size \in Nat \ {0}, NEW b \in 0 .. size - 1, b < TotalTableSize
    PROVE  /\ LastSource(b, size) \in 0 .. TotalTableSize - 1
           /\ LastSource(b, size) % size = b
           /\ size = TotalTableSize => LastSource(b, size) = b
<1> DEFINE n == TotalTableSize - 1 - b
           q == n \div size
<1>1. n \in Nat /\ TotalTableSize \in Nat \ {0} /\ b \in Nat /\ b < size
  BY SizeAssumption
<1>2. q \in Nat /\ size * q \in 0 .. n
  BY <1>1
<1>3. LastSource(b, size) = b + size * q
  BY DEF LastSource
<1> HIDE DEF q
<1>4. (b + size * q) % size = b
  <2> DEFINE x == b + size * q
  <2>1. x \in Nat /\ x % size \in 0 .. size - 1 /\ x \div size \in Int
        /\ x = size * (x \div size) + (x % size)
    BY <1>1, <1>2
  <2>2. size * (q - x \div size) = (x % size) - b
    <3> HIDE DEF n
    <3> QED  BY <1>1, <1>2, <2>1
  <2>3. q - (x \div size) = 0
    <3> DEFINE d == q - (x \div size)
    <3>1. d \in Int /\ size * d < size /\ size * d > -size
      BY <1>1, <1>2, <2>1, <2>2
    <3> HIDE DEF d
    <3>2. ASSUME d >= 1 PROVE FALSE
      <4>1. size * d >= size
        BY <1>1, <3>1, <3>2
      <4> QED  BY <1>1, <3>1, <4>1
    <3>3. ASSUME d <= -1 PROVE FALSE
      <4>1. size * d <= -size
        BY <1>1, <3>1, <3>3
      <4> QED  BY <1>1, <3>1, <4>1
    <3>4. d = 0
      BY <3>1, <3>2, <3>3
    <3> QED  BY <3>4 DEF d
  <2> QED  BY <1>1, <1>2, <2>1, <2>2, <2>3
<1>5. ASSUME size = TotalTableSize PROVE q = 0
  BY <1>1, <1>5 DEF q
<1>6. b + size * q \in 0 .. TotalTableSize - 1
  BY <1>1, <1>2
<1>7. size = TotalTableSize => b + size * q = b
  BY <1>1, <1>5
<1> QED  BY <1>3, <1>4, <1>6, <1>7

\* What a rebuild of the plain filters from exact counters gives.
LEMMA RebuildNext ==
    ASSUME TypeOK, CounterExact, UpdateBf
    PROVE  NoStaleBit /\ FullSizeRestored
<1>1. /\ DOMAIN bf = Hop /\ route \in [Key -> Hop \cup {NoHop}]
      /\ \A h \in Hop : /\ DOMAIN bf[h] = 0 .. BfSize(h) - 1
                         /\ DOMAIN cbf[h] = 0 .. TotalTableSize - 1
  BY DEF TypeOK, UpdateBf
<1>2. ASSUME NEW h \in Hop, NEW b \in DOMAIN bf[h], b < TotalTableSize
      PROVE  /\ bf'[h][b] = cbf[h][LastSource(b, BfSize(h))]
             /\ LastSource(b, BfSize(h)) \in DOMAIN cbf[h]
             /\ LastSource(b, BfSize(h)) % BfSize(h) = b
             /\ BfSize(h) = TotalTableSize => LastSource(b, BfSize(h)) = b
  <2>1. bf'[h][b] = cbf[h][LastSource(b, BfSize(h))]
    BY <1>2 DEF UpdateBf, Rebuilt
  <2> QED  BY <1>1, <1>2, <2>1, SizeNat, SourceIs
<1>3. NoStaleBit
  <2> SUFFICES ASSUME NEW h \in Hop, NEW b \in DOMAIN bf[h],
                      b < TotalTableSize, bf'[h][b] # 0
               PROVE  \E k \in KeysAt(h) : \E c \in CellsOf(k, TotalTableSize) : c % BfSize(h) = b
    BY DEF NoStaleBit
  <2> DEFINE c == LastSource(b, BfSize(h))
  <2>1. cbf[h][c] # 0 /\ c \in DOMAIN cbf[h] /\ c % BfSize(h) = b
    BY <1>2
  <2> HIDE DEF c
  <2>2. Cardinality(HitsOf(route, h, c)) # 0
    BY <2>1 DEF CounterExact, HitsAt
  <2>3. PICK p \in HitsOf(route, h, c) : TRUE
    BY <2>2, FS_EmptySet
  <2>4. p[1] \in KeysAt(h) /\ c \in CellsOf(p[1], TotalTableSize)
    BY <2>3 DEF HitsOf, KeysAt, CellsOf
  <2> QED  BY <2>1, <2>4
<1>4. FullSizeRestored
  <2> SUFFICES ASSUME NEW k \in Key, NEW h \in Hop,
                      route[k] = h, BfSize(h) = TotalTableSize
               PROVE  BfContains(h, k)'
    BY DEF FullSizeRestored
  <2>1. DOMAIN cbf[h] # {} /\ \A c \in CellsOf(k, TotalTableSize) : cbf[h][c] # 0
    BY ExactFinds DEF UpdateBf, CbfNoFalseNegative, CbfContains, Contains
  <2>2. DOMAIN bf'[h] = DOMAIN bf[h]
    BY DEF UpdateBf, Rebuilt
  <2>3. \A c \in CellsOf(k, TotalTableSize) : c \in 0 .. TotalTableSize - 1
    BY CellInTable, SizeAssumption DEF CellsOf
  <2>4. \A c \in CellsOf(k, TotalTableSize) : bf'[h][c] # 0
    <3> SUFFICES ASSUME NEW c \in CellsOf(k, TotalTableSize)
                 PROVE  bf'[h][c] # 0
      OBVIOUS
    <3>1. c \in DOMAIN bf[h] /\ c < TotalTableSize
      BY <1>1, <2>3, SizeAssumption
    <3>2. bf'[h][c] = cbf[h][c]
      BY <1>2, <3>1
    <3> QED  BY <2>1, <3>2
  <2> QED  BY <1>1, <2>1, <2>2, <2>4 DEF BfContains, Contains
<1> QED  BY <1>3, <1>4

\* A rebuild leaves no bit that no key of the next hop holds up, and finds every
\* key again in a filter as large as its counters (see RebuildIsExact).
THEOREM RebuildsAreExact == ASSUME NoWrap PROVE Spec => RebuildIsExact
<1>1. TypeOK /\ CounterExact /\ [Next]_vars => [UpdateBf => NoStaleBit /\ FullSizeRestored]_vars
  BY RebuildNext
<1>2. QED
  BY <1>1, CountersAreExact, TypeCorrect, PTL DEF Spec, RebuildIsExact
============================================================================
