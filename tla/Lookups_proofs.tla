--------------------------- MODULE Lookups_proofs ---------------------------
(***************************************************************************)
(* LinearIPLookup routes every address but 0 as RouteTable promises, for   *)
(* any width of addresses, any prefixes and number of slots.               *)
(*                                                                         *)
(* DirectIPLookup's tables lead every address to its longest prefix, for   *)
(* any width of the tables and any limits.  The proof goes by what a loop  *)
(* over the tables visits: every entry that is not left out as part of the *)
(* block of a longer prefix.                                               *)
(***************************************************************************)
EXTENDS LinearIPLookup, RangeIPLookup, FiniteSetTheorems, SequenceTheorems, WellFoundedInduction, TLAPS

----------------------------------------------------------------------------
\* A set of numbers has a least one, and a bounded one a greatest.
LEMMA LeastNat ==
    ASSUME NEW S \in SUBSET Nat, S # {}
    PROVE  \E n \in S : \A m \in S : n <= m
<1> DEFINE T == {1 .. n : n \in S}
           R == StrictSubsetOrdering(Nat)
<1>1. IsWellFoundedOn(R, FiniteSubsetsOf(Nat))
  BY FS_StrictSubsetOrderingWellFounded
<1>2. T \subseteq FiniteSubsetsOf(Nat) /\ T # {}
  <2>1. \A n \in S : 1 .. n \in SUBSET Nat
    OBVIOUS
  <2>2. \A n \in S : IsFiniteSet(1 .. n)
    BY FS_Interval
  <2> QED  BY <2>1, <2>2 DEF FiniteSubsetsOf
<1>3. PICK x \in T : \A y \in T : ~(<<y, x>> \in R)
  BY <1>1, <1>2, WFMin
<1>4. PICK n \in S : x = 1 .. n
  BY <1>3
<1>5. ASSUME NEW m \in S, ~(n <= m)
      PROVE  FALSE
  <2>1. 1 .. m \in SUBSET Nat /\ 1 .. n \in SUBSET Nat
    OBVIOUS
  <2>2. 1 .. m \subseteq 1 .. n /\ 1 .. m # 1 .. n
    BY <1>5
  <2>3. <<1 .. m, 1 .. n>> \in R
    BY <2>1, <2>2 DEF StrictSubsetOrdering
  <2> QED  BY <1>3, <1>4, <2>3
<1>6. \A m \in S : n <= m
  BY <1>5
<1> QED  BY <1>4, <1>6, Zenon

LEMMA MinIs ==
    ASSUME NEW S \in SUBSET Nat, S # {}
    PROVE  Min(S) \in S /\ \A m \in S : Min(S) <= m
BY LeastNat DEF Min

LEMMA MaxIs ==
    ASSUME NEW n \in Nat, NEW S \in SUBSET (0 .. n), S # {}
    PROVE  Max(S) \in S /\ \A m \in S : m <= Max(S)
<1> DEFINE U == {u \in Nat : \A s \in S : s <= u}
<1>1. U \in SUBSET Nat /\ n \in U
  OBVIOUS
<1>2. PICK u \in U : \A v \in U : u <= v
  BY <1>1, LeastNat
<1>3. u \in S
  <2> SUFFICES ASSUME u \notin S
               PROVE  FALSE
    OBVIOUS
  <2>1. PICK s \in S : TRUE
    OBVIOUS
  <2>2. u - 1 \in U
    BY <2>1
  <2> QED  BY <1>2, <2>2
<1>4. \E x \in S : \A y \in S : x >= y
  BY <1>3
<1> QED  BY <1>4 DEF Max

----------------------------------------------------------------------------
\* Powers of two, counted as the subsets of a set: prefixes of different lengths
\* are blocks of sizes that divide each other.
LEMMA Powers ==
    ASSUME NEW a \in Nat, NEW b \in Nat
    PROVE  /\ 2^(a + b) = 2^a * 2^b
           /\ 2^a \in Nat \ {0}
<1> DEFINE A == 1 .. a
           B == a + 1 .. a + b
           C == 1 .. a + b
<1>1. /\ IsFiniteSet(A) /\ Cardinality(A) = a
      /\ IsFiniteSet(B) /\ Cardinality(B) = b
      /\ IsFiniteSet(C) /\ Cardinality(C) = a + b
  <2>1. /\ IsFiniteSet(A) /\ Cardinality(A) = IF 1 > a THEN 0 ELSE a - 1 + 1
        /\ IsFiniteSet(B) /\ Cardinality(B) = IF a + 1 > a + b THEN 0 ELSE (a + b) - (a + 1) + 1
        /\ IsFiniteSet(C) /\ Cardinality(C) = IF 1 > a + b THEN 0 ELSE (a + b) - 1 + 1
    BY FS_Interval
  <2> HIDE DEF A, B, C
  <2> QED  BY <2>1
<1>2. A \cup B = C /\ A \cap B = {}
  OBVIOUS
<1> HIDE DEF A, B, C
<1>3. /\ IsFiniteSet(SUBSET A) /\ Cardinality(SUBSET A) = 2^a
      /\ IsFiniteSet(SUBSET B) /\ Cardinality(SUBSET B) = 2^b
      /\ IsFiniteSet(SUBSET C) /\ Cardinality(SUBSET C) = 2^(a + b)
  BY <1>1, FS_SUBSET
<1> DEFINE D == (SUBSET A) \X (SUBSET B)
           f == [x \in D |-> x[1] \cup x[2]]
<1>4. IsFiniteSet(D) /\ Cardinality(D) = 2^a * 2^b
  <2>1. IsFiniteSet(D) /\ Cardinality(D) = Cardinality(SUBSET A) * Cardinality(SUBSET B)
    BY <1>3, FS_Product, Zenon
  <2> HIDE DEF D
  <2> QED  BY <1>3, <2>1
<1>5. f \in Bijection(D, SUBSET C)
  <2>1. f \in [D -> SUBSET C]
    BY <1>2
  <2>2. ASSUME NEW x \in D, NEW y \in D, f[x] = f[y]
        PROVE  x = y
    <3>1. /\ x[1] \subseteq A /\ x[2] \subseteq B /\ y[1] \subseteq A /\ y[2] \subseteq B
          /\ x[1] \cup x[2] = y[1] \cup y[2] /\ x = <<x[1], x[2]>> /\ y = <<y[1], y[2]>>
      BY <2>2
    <3>2. x[1] = y[1] /\ x[2] = y[2]
      BY <3>1, <1>2
    <3> QED  BY <3>1, <3>2
  <2>3. ASSUME NEW z \in SUBSET C
        PROVE  \E x \in D : f[x] = z
    <3>1. <<z \cap A, z \cap B>> \in D /\ f[<<z \cap A, z \cap B>>] = z
      BY <1>2
    <3> QED  BY <3>1
  <2> HIDE DEF f, D
  <2> QED  BY <2>1, <2>2, <2>3 DEF Bijection, Injection, Surjection, IsInjective
<1>6. Cardinality(SUBSET C) = Cardinality(D)
  BY <1>4, <1>5, FS_Bijection DEF ExistsBijection
<1>7. 2^a \in Nat
  BY <1>3, FS_CardinalityType
<1>8. 2^a # 0
  <2>1. {} \in SUBSET A
    OBVIOUS
  <2> QED  BY <1>3, <2>1, FS_EmptySet
<1> QED  BY <1>3, <1>4, <1>6, <1>7, <1>8

LEMMA PowerOfZero == 2^0 = 1
BY SMT

\* The quotient is the number that fits.
LEMMA DivIs ==
    ASSUME NEW a \in Nat, NEW q \in Nat, NEW d \in Nat \ {0},
           q * d <= a, a < (q + 1) * d
    PROVE  a \div d = q
<1> DEFINE x == a \div d
<1>1. x \in Nat /\ x * d <= a /\ a < (x + 1) * d
  OBVIOUS
<1> HIDE DEF x
<1>2. ASSUME x < q
      PROVE  FALSE
  <2>1. (x + 1) * d <= q * d
    BY <1>1, <1>2
  <2> QED  BY <1>1, <2>1
<1>3. ASSUME q < x
      PROVE  FALSE
  <2>1. (q + 1) * d <= x * d
    BY <1>1, <1>3
  <2> QED  BY <1>1, <2>1
<1>4. x = q
  BY <1>1, <1>2, <1>3
<1> QED  BY <1>4 DEF x

\* Cutting an address twice is cutting it once, to the shorter length.
LEMMA CutTwice ==
    ASSUME NEW a \in Nat, NEW n \in 0 .. W, NEW m \in 0 .. n
    PROVE  Masked(Masked(a, n), m) = Masked(a, m)
<1> DEFINE d == 2^(W - n)
           k == 2^(n - m)
           e == 2^(W - m)
<1>1. /\ W - n \in Nat /\ n - m \in Nat /\ W - m = (W - n) + (n - m)
  BY PrefixAssumption
<1>2. d \in Nat \ {0} /\ k \in Nat \ {0} /\ e = d * k
  BY <1>1, Powers
<1>3. e \in Nat \ {0}
  BY <1>1, Powers, PrefixAssumption
<1> HIDE DEF d, k, e
<1> DEFINE x == a \div e
           y == a \div d
<1>4. x \in Nat /\ x * e <= a /\ a < (x + 1) * e
  BY <1>3
<1>5. y \in Nat /\ y * d <= a /\ a < (y + 1) * d
  BY <1>2
<1> HIDE DEF x, y
<1>6. x * k <= y
  <2> SUFFICES ASSUME y + 1 <= x * k
               PROVE  FALSE
    BY <1>2, <1>4, <1>5
  <2>1. (y + 1) * d <= (x * k) * d
    BY <1>2, <1>4, <1>5
  <2>2. (x * k) * d = x * e
    BY <1>2, <1>4
  <2> QED  BY <1>2, <1>3, <1>4, <1>5, <2>1, <2>2
<1>7. x * e <= y * d
  <2>1. (x * k) * d <= y * d
    BY <1>2, <1>4, <1>5, <1>6
  <2>2. (x * k) * d = x * e
    BY <1>2, <1>4
  <2> QED  BY <2>1, <2>2
<1>8. y * d < (x + 1) * e
  <2>1. (x + 1) * e \in Nat /\ y * d \in Nat
    BY <1>2, <1>3, <1>4, <1>5
  <2> QED  BY <1>4, <1>5, <2>1
<1>9. (y * d) \div e = x
  <2>1. y * d \in Nat
    BY <1>2, <1>5
  <2> QED  BY <1>3, <1>4, <1>7, <1>8, <2>1, DivIs
<1> QED  BY <1>9 DEF Masked, d, e, x, y

LEMMA CutNothing ==
    ASSUME NEW a \in Nat
    PROVE  Masked(a, W) = a
<1>1. W - W = 0
  BY PrefixAssumption
<1>2. (a \div 1) * 1 = a
  OBVIOUS
<1> QED  BY <1>1, <1>2, PowerOfZero DEF Masked

\* An address is no power of two too large.
LEMMA AddrIsNat == Addr \subseteq Nat
BY PrefixAssumption, Powers DEF Addr

\* Of two prefixes that hold an address the longer is within the shorter.
LEMMA HoldBoth ==
    ASSUME NEW p, NEW q, p.len \in 0 .. W, q.len \in 0 .. W, NEW a \in Addr,
           Holds(p, a), Holds(q, a), p.len <= q.len
    PROVE  Within(q, p) /\ (p.len = q.len => p.addr = q.addr)
<1>1. a \in Nat /\ p.len \in 0 .. q.len
  BY AddrIsNat, PrefixAssumption
<1>2. Masked(Masked(a, q.len), p.len) = Masked(a, p.len)
  BY <1>1, CutTwice
<1> QED  BY <1>2 DEF Holds, Within
----------------------------------------------------------------------------
\* The vector.
Slot == [addr : Addr, len : 0 .. W, via : Via \cup {Dead}, extra : Nat]

\* What TypeOK and PointersOK say, of a vector s, with what its holes hold
Vector(s) ==
    /\ s \in Seq(Slot) /\ Len(s) <= MaxSlots
    /\ \A i \in Slots(s) : /\ Pfx(s[i]) \in Named \cup {Zero}
                           /\ s[i].extra \in i + 1 .. Inf
                           /\ ~Real(s[i]) => Pfx(s[i]) = Zero
    /\ \A i, j \in RealSlots(s) : i < j /\ j < s[i].extra => ~Within(s[j], s[i])
    /\ \A i, j \in RealSlots(s) : Pfx(s[i]) = Pfx(s[j]) => i = j

\* the route of s for address 0 alone is in slot z, before all holes
ZeroAt(s, z) ==
    /\ z \in 0 .. Len(s)
    /\ {i \in RealSlots(s) : Pfx(s[i]) = Zero} = IF z = 0 THEN {} ELSE {z}
    /\ \A i \in Slots(s) : i < z => Real(s[i])

\* p leads to via in s
Leads(s, p, via) == \E i \in RealSlots(s) : Pfx(s[i]) = p /\ s[i].via = via

LEMMA ZeroIs ==
    ASSUME LinearAssumption
    PROVE  /\ 0 \in Addr /\ W \in 0 .. W
           /\ Zero.len = W /\ Zero.addr = 0
           /\ \A p \in Named \cup {Zero} : /\ p.addr \in Addr /\ p.len \in 0 .. W
                                              /\ p = [addr |-> p.addr, len |-> p.len]
           /\ Dead \notin Via /\ Any # Dead /\ None # Dead /\ MaxSlots \in Nat
<1>1. 0 \in Addr /\ W \in 0 .. W
  BY Powers, PrefixAssumption DEF Addr
<1>2. \A p \in AllPrefixes : /\ p.addr \in Addr /\ p.len \in 0 .. W
                              /\ p = [addr |-> p.addr, len |-> p.len]
  BY DEF AllPrefixes
<1> QED  BY <1>1, <1>2 DEF Zero, LinearAssumption

LEMMA SlotFacts ==
    ASSUME NEW s, Vector(s)
    PROVE  /\ Len(s) \in Nat /\ DOMAIN s = Slots(s)
           /\ \A i \in Slots(s) : /\ s[i] \in Slot /\ i \in Nat /\ s[i].extra \in Nat
                                  /\ s[i].addr \in Addr /\ s[i].len \in 0 .. W
                                  /\ s[i].via \in Via \cup {Dead}
                                  /\ s[i] = [addr |-> s[i].addr, len |-> s[i].len,
                                             via |-> s[i].via, extra |-> s[i].extra]
           /\ \A i \in RealSlots(s) : i \in Slots(s) /\ s[i].via \in Via
<1>1. s \in Seq(Slot)
  BY DEF Vector
<1>2. Len(s) \in Nat /\ DOMAIN s = Slots(s) /\ \A i \in Slots(s) : s[i] \in Slot
  BY <1>1 DEF Slots
<1>3. \A x \in Slot : /\ x.extra \in Nat
                      /\ x.addr \in Addr /\ x.len \in 0 .. W
                      /\ x.via \in Via \cup {Dead}
                      /\ x = [addr |-> x.addr, len |-> x.len, via |-> x.via, extra |-> x.extra]
  BY DEF Slot
<1>4. \A i \in Slots(s) : i \in Nat
  BY <1>2 DEF Slots
<1> QED  BY <1>2, <1>3, <1>4 DEF RealSlots, Real

LEMMA FreeSlotIs ==
    ASSUME NEW s, Vector(s)
    PROVE  /\ FreeSlot(s) \in 1 .. Len(s) + 1
           /\ FreeSlot(s) \notin RealSlots(s)
           /\ \A i \in Slots(s) : i < FreeSlot(s) => Real(s[i])
<1> DEFINE holes == Slots(s) \ RealSlots(s)
<1>1. Len(s) \in Nat /\ holes \in SUBSET Nat
  BY SlotFacts
<1>2. CASE holes = {}
  <2>1. FreeSlot(s) = Len(s) + 1
    BY <1>2 DEF FreeSlot
  <2> QED  BY <1>1, <1>2, <2>1 DEF Slots, RealSlots
<1>3. CASE holes # {}
  <2>1. FreeSlot(s) = Min(holes)
    BY <1>3 DEF FreeSlot
  <2>2. Min(holes) \in holes /\ \A m \in holes : Min(holes) <= m
    BY <1>1, <1>3, MinIs
  <2> HIDE DEF holes
  <2>3. FreeSlot(s) \in holes /\ \A m \in holes : FreeSlot(s) <= m
    BY <2>1, <2>2
  <2>4. \A i \in Slots(s) : i < FreeSlot(s) => i \notin holes
    BY <1>1, <2>3 DEF holes, Slots
  <2> QED  BY <1>1, <2>3, <2>4 DEF holes, Slots, RealSlots
<1> QED  BY <1>2, <1>3

\* A slot without a route of its own is filled.
IsPlaced(r, s, p, via, f) ==
    /\ Vector(r)
    /\ f \in Slots(r) /\ RealSlots(r) = RealSlots(s) \cup {f}
    /\ Len(r) = IF f <= Len(s) THEN Len(s) ELSE Len(s) + 1
    /\ Pfx(r[f]) = p /\ r[f].via = via
    /\ \A i \in RealSlots(s) : i # f /\ Pfx(r[i]) = Pfx(s[i]) /\ r[i].via = s[i].via

LEMMA PlacedIs ==
    ASSUME LinearAssumption, NEW s, Vector(s), NEW p \in Named \cup {Zero}, NEW via \in Via,
           FreeSlot(s) <= MaxSlots, \A i \in RealSlots(s) : Pfx(s[i]) # p
    PROVE  IsPlaced(Placed(s, p, via, FreeSlot(s)), s, p, via, FreeSlot(s))
<1> DEFINE f == FreeSlot(s)
           N == IF f <= Len(s) THEN Len(s) ELSE Len(s) + 1
           within == {i \in RealSlots(s) : i > f /\ Within(s[i], p)}
           ext == IF within = {} THEN Inf ELSE Min(within)
           new == [addr |-> p.addr, len |-> p.len, via |-> via, extra |-> ext]
           r == Placed(s, p, via, f)
<1>1. /\ f \in 1 .. Len(s) + 1 /\ f \notin RealSlots(s) /\ f \in Nat
      /\ Len(s) \in Nat /\ N \in Nat /\ Len(s) <= N /\ f \in 1 .. N
      /\ Slots(s) \cup {f} = 1 .. N
  <2>1. f \in 1 .. Len(s) + 1 /\ f \notin RealSlots(s) /\ Len(s) \in Nat
    BY FreeSlotIs, SlotFacts
  <2> HIDE DEF f
  <2> QED  BY <2>1 DEF Slots
<1>14. N <= MaxSlots /\ f <= MaxSlots /\ MaxSlots \in Nat
  BY <1>1, ZeroIs DEF Vector
<1> HIDE DEF f, N
<1>2. /\ ext \in f + 1 .. Inf
      /\ \A i \in within : ext <= i
  <2>1. within \in SUBSET Nat
    BY SlotFacts
  <2>2. CASE within = {}
    BY <2>2, <1>1, <1>14 DEF Inf
  <2>3. CASE within # {}
    <3>1. Min(within) \in within /\ \A m \in within : Min(within) <= m
      BY <2>1, <2>3, MinIs
    <3> HIDE DEF within
    <3>2. ext \in within /\ \A m \in within : ext <= m
      BY <2>3, <3>1
    <3>3. ext \in Slots(s) /\ ext > f
      BY <3>2, SlotFacts DEF within
    <3>4. ext \in Nat /\ ext <= Inf
      BY <3>3, <1>14, SlotFacts DEF Slots, Inf, Vector
    <3> QED  BY <3>2, <3>3, <3>4, <1>1
  <2> QED  BY <2>2, <2>3
<1>3. /\ p.addr \in Addr /\ p.len \in 0 .. W /\ p = [addr |-> p.addr, len |-> p.len]
      /\ Dead \notin Via
  BY ZeroIs
<1> HIDE DEF ext
<1>4. new \in Slot /\ Pfx(new) = p /\ Real(new)
  BY <1>1, <1>2, <1>3 DEF Slot, Pfx, Real, Inf
<1>5. r = [i \in 1 .. N |->
             IF i = f THEN new
             ELSE IF i < f /\ Within(p, s[i]) /\ s[i].extra > f
                    THEN [s[i] EXCEPT !.extra = f] ELSE s[i]]
  BY <1>1 DEF Placed, ext, within
<1> HIDE DEF new, r
<1>6. r[f] = new
  BY <1>1, <1>5
<1>7. ASSUME NEW i \in 1 .. N, i # f
      PROVE  /\ i \in Slots(s) /\ r[i] \in Slot
             /\ Pfx(r[i]) = Pfx(s[i]) /\ r[i].via = s[i].via /\ (Real(r[i]) <=> Real(s[i]))
             /\ r[i].len = s[i].len /\ r[i].addr = s[i].addr
             /\ r[i].extra \in i + 1 .. Inf /\ r[i].extra <= s[i].extra
             /\ i < f /\ Within(p, s[i]) => r[i].extra <= f
  <2>1. i \in Slots(s)
    BY <1>1, <1>7
  <2>2. /\ s[i] = [addr |-> s[i].addr, len |-> s[i].len, via |-> s[i].via, extra |-> s[i].extra]
        /\ s[i] \in Slot /\ s[i].extra \in i + 1 .. Inf /\ s[i].extra \in Nat /\ i \in Nat
    BY <2>1, SlotFacts DEF Vector
  <2>3. CASE i < f /\ Within(p, s[i]) /\ s[i].extra > f
    <3>1. r[i] = [s[i] EXCEPT !.extra = f]
      BY <1>5, <1>7, <2>3
    <3>2. r[i] = [addr |-> s[i].addr, len |-> s[i].len, via |-> s[i].via, extra |-> f]
      BY <2>2, <3>1
    <3>3. r[i] \in Slot
      BY <3>2, <2>2, <1>1 DEF Slot
    <3>4. r[i].extra = f
      BY <3>2
    <3>5. f \in i + 1 .. Inf
      BY <1>1, <1>14, <2>2, <2>3 DEF Inf
    <3>6. r[i].len = s[i].len /\ r[i].addr = s[i].addr /\ r[i].via = s[i].via
      BY <3>2
    <3> QED  BY <2>1, <2>2, <2>3, <3>3, <3>4, <3>5, <3>6, <1>1 DEF Pfx, Real
  <2>4. CASE ~(i < f /\ Within(p, s[i]) /\ s[i].extra > f)
    <3>1. r[i] = s[i]
      BY <1>5, <1>7, <2>4
    <3> QED  BY <2>1, <2>2, <2>4, <3>1, <1>1
  <2> QED  BY <2>3, <2>4
<1>8. r \in Seq(Slot) /\ Len(r) = N /\ Slots(r) = 1 .. N
  <2>1. \A i \in 1 .. N : r[i] \in Slot
    BY <1>4, <1>6, <1>7
  <2>2. r \in [1 .. N -> Slot]
    BY <1>5, <2>1
  <2> QED  BY <1>1, <2>2 DEF Slots
<1>9. RealSlots(r) = RealSlots(s) \cup {f}
  <2>1. ASSUME NEW i \in 1 .. N
        PROVE  Real(r[i]) <=> i = f \/ Real(s[i])
    BY <1>4, <1>6, <1>7
  <2>2. RealSlots(s) \subseteq 1 .. N
    BY <1>1 DEF RealSlots
  <2>3. \A i \in 1 .. N : i \in RealSlots(s) <=> i # f /\ Real(s[i])
    BY <1>1, <1>7 DEF RealSlots
  <2>4. \A i : i \in RealSlots(r) <=> i \in 1 .. N /\ Real(r[i])
    BY <1>8 DEF RealSlots
  <2> QED  BY <2>1, <2>2, <2>3, <2>4, <1>1
<1>10. ASSUME NEW i \in RealSlots(s)
       PROVE  i \in 1 .. N /\ i # f
  BY <1>1 DEF RealSlots
<1>11. Vector(r)
  <2>1. ASSUME NEW i \in Slots(r)
        PROVE  /\ Pfx(r[i]) \in Named \cup {Zero}
               /\ r[i].extra \in i + 1 .. Inf
               /\ ~Real(r[i]) => Pfx(r[i]) = Zero
    <3>1. CASE i = f
      BY <3>1, <1>2, <1>4, <1>6 DEF new
    <3>2. CASE i # f
      <4>1. i \in 1 .. N
        BY <1>8
      <4> QED  BY <3>2, <4>1, <1>7 DEF Vector
    <3> QED  BY <3>1, <3>2
  <2>2. ASSUME NEW i \in RealSlots(r), NEW j \in RealSlots(r), i < j, j < r[i].extra
        PROVE  ~Within(r[j], r[i])
    <3>0. (i = f \/ i \in RealSlots(s)) /\ (j = f \/ j \in RealSlots(s))
      BY <1>9
    <3>1. CASE i = f
      <4>1. j \in RealSlots(s) /\ j > f /\ j < ext /\ j \in Nat
        BY <3>0, <3>1, <2>2, <1>1, <1>6, SlotFacts DEF new
      <4>2. j \notin within
        BY <4>1, <1>2
      <4>3. ~Within(s[j], p)
        BY <4>1, <4>2
      <4>4. r[j].len = s[j].len /\ r[j].addr = s[j].addr
        BY <4>1, <1>7, <1>10
      <4>5. r[i].len = p.len /\ r[i].addr = p.addr
        BY <3>1, <1>6 DEF new
      <4> QED  BY <4>3, <4>4, <4>5 DEF Within, Holds
    <3>2. CASE i \in RealSlots(s) /\ j = f
      <4>1. /\ r[i].len = s[i].len /\ r[i].addr = s[i].addr
            /\ Within(p, s[i]) => r[i].extra <= f
        BY <3>2, <2>2, <1>7, <1>10
      <4>2. ~Within(p, s[i])
        BY <3>2, <2>2, <4>1, <1>1, <1>7, <1>10
      <4>3. r[j].len = p.len /\ r[j].addr = p.addr
        BY <3>2, <1>6 DEF new
      <4> QED  BY <4>1, <4>2, <4>3 DEF Within, Holds
    <3>3. CASE i \in RealSlots(s) /\ j \in RealSlots(s)
      <4>1. /\ r[i].len = s[i].len /\ r[i].addr = s[i].addr /\ r[i].extra <= s[i].extra
            /\ s[i].extra \in Nat /\ i \in Nat /\ r[i].extra \in i + 1 .. Inf
        BY <3>3, <1>7, <1>10, SlotFacts
      <4>5. r[i].extra \in Int
        BY <4>1, <1>14 DEF Inf
      <4>2. r[j].len = s[j].len /\ r[j].addr = s[j].addr /\ j \in Nat
        BY <3>3, <1>7, <1>10, SlotFacts
      <4>3. j < s[i].extra
        BY <2>2, <4>1, <4>5, <4>2
      <4>4. ~Within(s[j], s[i])
        BY <2>2, <3>3, <4>3 DEF Vector
      <4> QED  BY <4>1, <4>2, <4>4 DEF Within, Holds
    <3> QED  BY <3>0, <3>1, <3>2, <3>3
  <2>3. ASSUME NEW i \in RealSlots(r), NEW j \in RealSlots(r), Pfx(r[i]) = Pfx(r[j])
        PROVE  i = j
    <3>0. (i = f \/ i \in RealSlots(s)) /\ (j = f \/ j \in RealSlots(s))
      BY <1>9
    <3>1. \A k \in RealSlots(s) : Pfx(r[k]) = Pfx(s[k]) /\ Pfx(s[k]) # p
      BY <1>7, <1>10
    <3>2. Pfx(r[f]) = p
      BY <1>4, <1>6
    <3>3. \A k, l \in RealSlots(s) : Pfx(s[k]) = Pfx(s[l]) => k = l
      BY DEF Vector
    <3> QED  BY <2>3, <3>0, <3>1, <3>2, <3>3
  <2> QED  BY <1>14, <1>8, <2>1, <2>2, <2>3 DEF Vector
<1>12. \A i \in RealSlots(s) : i # f /\ Pfx(r[i]) = Pfx(s[i]) /\ r[i].via = s[i].via
  BY <1>7, <1>10
<1>13. Pfx(r[f]) = p /\ r[f].via = via /\ f \in Slots(r)
  BY <1>1, <1>4, <1>6, <1>8 DEF new
<1> QED  BY <1>8, <1>9, <1>11, <1>12, <1>13 DEF IsPlaced, r, f, N

\* A killed slot is a hole like every other.
IsKilled(r, s, i) ==
    /\ Vector(r)
    /\ Len(r) = Len(s) /\ RealSlots(r) = RealSlots(s) \ {i}
    /\ \A k \in Slots(s) \ {i} : r[k] = s[k]
    /\ ~Real(s[i]) => r = s

LEMMA KilledIs ==
    ASSUME LinearAssumption, NEW s, Vector(s), NEW i \in Slots(s)
    PROVE  IsKilled([s EXCEPT ![i] = Killed(@)], s, i)
<1> DEFINE r == [s EXCEPT ![i] = Killed(@)]
           hole == [addr |-> 0, len |-> W, via |-> Dead, extra |-> s[i].extra]
<1>1. /\ s[i] = [addr |-> s[i].addr, len |-> s[i].len, via |-> s[i].via, extra |-> s[i].extra]
      /\ s[i].extra \in Nat /\ s[i].extra \in i + 1 .. Inf
      /\ ~Real(s[i]) => Pfx(s[i]) = Zero
  BY SlotFacts DEF Vector
<1>2. Killed(s[i]) = hole
  <2>1. s[i] \in Slot /\ 0 \in Addr /\ W \in 0 .. W
    BY SlotFacts, ZeroIs
  <2>2. Killed(s[i]) \in Slot
    BY <2>1 DEF Killed, Slot
  <2>3. /\ Killed(s[i]).addr = 0 /\ Killed(s[i]).len = W /\ Killed(s[i]).via = Dead
        /\ Killed(s[i]).extra = s[i].extra
    BY <2>1 DEF Killed, Slot
  <2> QED  BY <2>2, <2>3 DEF Slot
<1>3. hole \in Slot /\ Pfx(hole) = Zero /\ ~Real(hole)
  BY <1>1, ZeroIs DEF Slot, Pfx, Zero, Real
<1>4. Len(s) \in Nat /\ DOMAIN s = Slots(s) /\ s \in Seq(Slot)
  BY SlotFacts DEF Vector
<1>5. r = [k \in Slots(s) |-> IF k = i THEN hole ELSE s[k]]
  BY <1>2, <1>4
<1>6. ~Real(s[i]) => s[i] = hole
  <2> SUFFICES ASSUME ~Real(s[i])
               PROVE  s[i] = hole
    OBVIOUS
  <2>1. s[i].addr = 0 /\ s[i].len = W /\ s[i].via = Dead
    BY <1>1 DEF Pfx, Zero, Real
  <2> QED  BY <1>1, <2>1
<1>7. ~Real(s[i]) => r = s
  <2> SUFFICES ASSUME s[i] = hole
               PROVE  r = s
    BY <1>6
  <2>1. [k \in Slots(s) |-> IF k = i THEN hole ELSE s[k]] = [k \in Slots(s) |-> s[k]]
    OBVIOUS
  <2>2. s = [k \in Slots(s) |-> s[k]]
    BY <1>4
  <2> QED  BY <1>5, <2>1, <2>2
<1> HIDE DEF hole, r
<1>8. r[i] = hole /\ \A k \in Slots(s) \ {i} : r[k] = s[k]
  BY <1>5
<1>9. r \in Seq(Slot) /\ Len(r) = Len(s) /\ Slots(r) = Slots(s)
  <2>1. \A k \in Slots(s) : r[k] \in Slot
    BY <1>3, <1>8, SlotFacts
  <2>2. r \in [1 .. Len(s) -> Slot]
    BY <1>5, <2>1 DEF Slots
  <2> QED  BY <1>4, <2>2 DEF Slots
<1>10. RealSlots(r) = RealSlots(s) \ {i}
  <2>1. \A k \in Slots(s) : Real(r[k]) <=> k # i /\ Real(s[k])
    BY <1>3, <1>8
  <2> QED  BY <2>1, <1>9 DEF RealSlots
<1>11. \A k \in RealSlots(r) : k \in RealSlots(s) /\ r[k] = s[k]
  BY <1>8, <1>10 DEF RealSlots
<1>12. Vector(r)
  <2>1. ASSUME NEW k \in Slots(r)
        PROVE  /\ Pfx(r[k]) \in Named \cup {Zero}
               /\ r[k].extra \in k + 1 .. Inf
               /\ ~Real(r[k]) => Pfx(r[k]) = Zero
    <3>1. r[i].extra = s[i].extra
      BY <1>8 DEF hole
    <3> QED  BY <3>1, <1>1, <1>3, <1>8, <1>9 DEF Vector
  <2>2. ASSUME NEW k \in RealSlots(r), NEW l \in RealSlots(r), k < l, l < r[k].extra
        PROVE  ~Within(r[l], r[k])
    BY <2>2, <1>11 DEF Vector
  <2>3. ASSUME NEW k \in RealSlots(r), NEW l \in RealSlots(r), Pfx(r[k]) = Pfx(r[l])
        PROVE  k = l
    BY <2>3, <1>11 DEF Vector
  <2>4. Len(r) <= MaxSlots
    BY <1>9 DEF Vector
  <2> QED  BY <2>1, <2>2, <2>3, <2>4, <1>9 DEF Vector
<1> QED  BY <1>7, <1>8, <1>9, <1>10, <1>12 DEF IsKilled, r

\* A removal takes one route away, and moves the one for address 0 before the
\* hole that it leaves.
IsAfter(a, s, i) ==
    /\ Vector(a.t) /\ ZeroAt(a.t, a.zero)
    /\ \A p, via : Leads(a.t, p, via) <=> Leads(s, p, via) /\ ~(Real(s[i]) /\ Pfx(s[i]) = p)

LEMMA KilledLeads ==
    ASSUME NEW s, Vector(s), NEW i \in Slots(s), NEW r, IsKilled(r, s, i)
    PROVE  /\ \A p, via : Leads(r, p, via) <=> Leads(s, p, via) /\ ~(Real(s[i]) /\ Pfx(s[i]) = p)
           /\ \A k \in RealSlots(r) : k \in RealSlots(s) /\ k # i /\ r[k] = s[k]
<1>1. \A k \in RealSlots(r) : k \in RealSlots(s) /\ k # i /\ r[k] = s[k]
  BY DEF IsKilled, RealSlots
<1>2. \A k \in RealSlots(s) \ {i} : k \in RealSlots(r) /\ r[k] = s[k]
  BY DEF IsKilled, RealSlots
<1>3. \A k \in RealSlots(s) : Real(s[i]) /\ Pfx(s[i]) = Pfx(s[k]) => k = i
  BY DEF Vector, RealSlots
<1>4. i \in RealSlots(s) <=> Real(s[i])
  BY DEF RealSlots
<1>5. ASSUME NEW p, NEW via, Leads(r, p, via)
      PROVE  Leads(s, p, via) /\ ~(Real(s[i]) /\ Pfx(s[i]) = p)
  <2>1. PICK k \in RealSlots(r) : Pfx(r[k]) = p /\ r[k].via = via
    BY <1>5 DEF Leads
  <2>2. k \in RealSlots(s) /\ k # i /\ Pfx(s[k]) = p /\ s[k].via = via
    BY <2>1, <1>1
  <2> QED  BY <2>2, <1>3 DEF Leads
<1>6. ASSUME NEW p, NEW via, Leads(s, p, via), ~(Real(s[i]) /\ Pfx(s[i]) = p)
      PROVE  Leads(r, p, via)
  <2>1. PICK k \in RealSlots(s) : Pfx(s[k]) = p /\ s[k].via = via
    BY <1>6 DEF Leads
  <2>2. k # i
    BY <2>1, <1>4, <1>6
  <2> QED  BY <2>1, <2>2, <1>2 DEF Leads
<1> QED  BY <1>1, <1>5, <1>6

LEMMA PlacedLeads ==
    ASSUME NEW s, NEW r, NEW p, NEW via, NEW f, IsPlaced(r, s, p, via, f)
    PROVE  \A q, u : Leads(r, q, u) <=> Leads(s, q, u) \/ (q = p /\ u = via)
<1>1. RealSlots(r) = RealSlots(s) \cup {f} /\ Pfx(r[f]) = p /\ r[f].via = via
  BY DEF IsPlaced
<1>2. \A i \in RealSlots(s) : i # f /\ Pfx(r[i]) = Pfx(s[i]) /\ r[i].via = s[i].via
  BY DEF IsPlaced
<1>3. ASSUME NEW q, NEW u, Leads(r, q, u)
      PROVE  Leads(s, q, u) \/ (q = p /\ u = via)
  <2>1. PICK i \in RealSlots(r) : Pfx(r[i]) = q /\ r[i].via = u
    BY <1>3 DEF Leads
  <2> QED  BY <2>1, <1>1, <1>2 DEF Leads
<1>4. ASSUME NEW q, NEW u, Leads(s, q, u) \/ (q = p /\ u = via)
      PROVE  Leads(r, q, u)
  <2>1. CASE Leads(s, q, u)
    <3>1. PICK i \in RealSlots(s) : Pfx(s[i]) = q /\ s[i].via = u
      BY <2>1 DEF Leads
    <3> QED  BY <3>1, <1>1, <1>2 DEF Leads
  <2>2. CASE q = p /\ u = via
    BY <2>2, <1>1 DEF Leads
  <2> QED  BY <1>4, <2>1, <2>2
<1> QED  BY <1>3, <1>4

LEMMA AfterKillIs ==
    ASSUME LinearAssumption, Vector(t), ZeroAt(t, zero_route), NEW i \in Slots(t),
           ~Real(t[i]) => zero_route = 0
    PROVE  IsAfter(AfterKill([t EXCEPT ![i] = Killed(@)], i), t, i)
<1> DEFINE s == [t EXCEPT ![i] = Killed(@)]
           a == AfterKill(s, i)
           z == zero_route
<1>1. IsKilled(s, t, i)
  BY KilledIs
<1>2. Len(t) \in Nat /\ i \in Nat /\ i > 0 /\ z \in Nat /\ z <= Len(t)
  BY SlotFacts DEF Slots, ZeroAt
<1> HIDE DEF s
<1>3. Vector(s) /\ Len(s) = Len(t) /\ Slots(s) = Slots(t) /\ RealSlots(s) = RealSlots(t) \ {i}
  BY <1>1 DEF IsKilled, Slots
<1>4. /\ \A p, via : Leads(s, p, via) <=> Leads(t, p, via) /\ ~(Real(t[i]) /\ Pfx(t[i]) = p)
      /\ \A k \in RealSlots(s) : k \in RealSlots(t) /\ k # i /\ s[k] = t[k]
  BY <1>1, KilledLeads
<1>5. \A k \in RealSlots(t) : Pfx(t[k]) = Zero <=> k = z /\ z # 0
  BY DEF ZeroAt
<1>6. CASE i = z
  <2>1. a = [t |-> s, zero |-> 0]
    BY <1>6 DEF AfterKill
  <2>2. {k \in RealSlots(s) : Pfx(s[k]) = Zero} = {}
    BY <1>4, <1>5, <1>6
  <2>3. ZeroAt(s, 0)
    BY <1>2, <1>3, <2>2 DEF ZeroAt, Slots
  <2>4. a.t = s /\ a.zero = 0
    BY <2>1
  <2>5. IsAfter(a, t, i)
    <3> HIDE DEF a
    <3> QED  BY <2>3, <2>4, <1>3, <1>4 DEF IsAfter
  <2> QED  BY <2>5 DEF s
<1>7. CASE i > z
  <2>1. a = [t |-> s, zero |-> z]
    BY <1>2, <1>7 DEF AfterKill
  <2>2. z # 0 => z \in RealSlots(t) /\ Pfx(t[z]) = Zero
    BY DEF ZeroAt
  <2>3. \A k \in Slots(t) \ {i} : s[k] = t[k]
    BY <1>1 DEF IsKilled
  <2>4. z # 0 => z \in RealSlots(s) /\ Pfx(s[z]) = Zero
    BY <2>2, <2>3, <1>2, <1>3, <1>7 DEF RealSlots
  <2>5. {k \in RealSlots(s) : Pfx(s[k]) = Zero} = IF z = 0 THEN {} ELSE {z}
    BY <2>4, <1>4, <1>5
  <2>6. \A k \in Slots(s) : k < z => Real(s[k])
    <3> SUFFICES ASSUME NEW k \in Slots(s), k < z
                 PROVE  Real(s[k])
      OBVIOUS
    <3>1. k # i /\ k \in Slots(t) /\ Real(t[k])
      BY <1>2, <1>3, <1>7 DEF ZeroAt, Slots
    <3> QED  BY <3>1, <2>3
  <2>7. ZeroAt(s, z)
    BY <1>2, <1>3, <2>5, <2>6 DEF ZeroAt
  <2>8. a.t = s /\ a.zero = z
    BY <2>1
  <2>9. IsAfter(a, t, i)
    <3> HIDE DEF a
    <3> QED  BY <2>7, <2>8, <1>3, <1>4 DEF IsAfter
  <2> QED  BY <2>9 DEF s
<1>8. CASE i < z
  <2> DEFINE w == [s EXCEPT ![z] = Killed(@)]
             f == FreeSlot(w)
             r == Placed(w, Zero, s[z].via, f)
  <2>1. a = [t |-> r, zero |-> f]
    BY <1>2, <1>8 DEF AfterKill
  <2>2. Real(t[i]) /\ z # 0 /\ z \in Slots(t) /\ z \in RealSlots(t) /\ Pfx(t[z]) = Zero
    BY <1>2, <1>8 DEF ZeroAt, RealSlots
  <2>3. s[z] = t[z] /\ z \in RealSlots(s) /\ z \in Slots(s)
    BY <2>2, <1>1, <1>2, <1>3, <1>8 DEF IsKilled
  <2>4. IsKilled(w, s, z)
    BY <2>3, <1>3, KilledIs
  <2> HIDE DEF w
  <2>5. Vector(w) /\ Len(w) = Len(t) /\ RealSlots(w) = (RealSlots(t) \ {i}) \ {z}
    BY <2>4, <1>3 DEF IsKilled
  <2>6. /\ \A p, via : Leads(w, p, via) <=> Leads(s, p, via) /\ ~(Real(s[z]) /\ Pfx(s[z]) = p)
        /\ \A k \in RealSlots(w) : k \in RealSlots(s) /\ k # z /\ w[k] = s[k]
    BY <2>3, <2>4, <1>3, KilledLeads
  <2>7. /\ f \in 1 .. Len(w) + 1 /\ f \notin RealSlots(w)
        /\ \A k \in Slots(w) : k < f => Real(w[k])
    BY <2>5, FreeSlotIs
  <2> HIDE DEF f
  <2>8. i \in Slots(w) /\ ~Real(w[i])
    BY <2>5, <1>3 DEF RealSlots, Slots
  <2>9. f \in Nat /\ f <= i /\ f <= MaxSlots /\ f <= Len(w) /\ f >= 1
    <3>1. f \in Nat /\ f <= i /\ f >= 1
      BY <2>5, <2>7, <2>8, <1>2
    <3>2. i <= Len(w) /\ Len(w) <= MaxSlots /\ MaxSlots \in Nat
      BY <2>5, <2>8, ZeroIs DEF Vector, Slots
    <3> QED  BY <3>1, <3>2, <2>5, <1>2
  <2>10. \A k \in RealSlots(w) : Pfx(w[k]) # Zero
    BY <2>6, <1>4, <1>5
  <2>11. s[z].via \in Via
    BY <2>3, <1>3, SlotFacts
  <2>12. IsPlaced(r, w, Zero, s[z].via, f)
    BY <2>5, <2>9, <2>10, <2>11, PlacedIs DEF f
  <2> HIDE DEF r
  <2>13. \A q, u : Leads(r, q, u) <=> Leads(w, q, u) \/ (q = Zero /\ u = s[z].via)
    BY <2>12, PlacedLeads
  <2>14. \A q, u : Leads(t, q, u) /\ q = Zero <=> q = Zero /\ u = s[z].via
    BY <2>2, <2>3, <1>5 DEF Leads
  <2>15. Real(s[z]) /\ Pfx(s[z]) = Zero /\ Pfx(t[i]) # Zero
    BY <2>2, <2>3, <1>2, <1>5, <1>8 DEF RealSlots
  <2>16. \A p, via : Leads(r, p, via) <=> Leads(t, p, via) /\ ~(Real(t[i]) /\ Pfx(t[i]) = p)
    BY <2>6, <2>13, <2>14, <2>15, <1>4, Zenon
  <2>17. ZeroAt(r, f)
    <3>1. /\ RealSlots(r) = RealSlots(w) \cup {f} /\ Pfx(r[f]) = Zero /\ Len(r) = Len(w)
          /\ \A k \in RealSlots(w) : k # f /\ Pfx(r[k]) = Pfx(w[k])
      BY <2>9, <2>12 DEF IsPlaced
    <3>2. {k \in RealSlots(r) : Pfx(r[k]) = Zero} = {f}
      BY <3>1, <2>10
    <3>3. \A k \in Slots(r) : k < f => Real(r[k])
      BY <3>1, <2>7 DEF Slots, RealSlots
    <3> QED  BY <3>1, <3>2, <3>3, <2>5, <2>9, <1>2 DEF ZeroAt
  <2>18. Vector(r) /\ a.t = r /\ a.zero = f
    BY <2>1, <2>12 DEF IsPlaced
  <2>19. IsAfter(a, t, i)
    <3> HIDE DEF a
    <3> QED  BY <2>16, <2>17, <2>18 DEF IsAfter
  <2> QED  BY <2>19 DEF s
<1> QED  BY <1>2, <1>6, <1>7, <1>8

\* A route that is set keeps its slot, its prefix and its pointer.
IsSet(r, s, i, via) ==
    /\ Vector(r)
    /\ Len(r) = Len(s) /\ RealSlots(r) = RealSlots(s)
    /\ r[i].via = via
    /\ \A k \in Slots(s) : Pfx(r[k]) = Pfx(s[k]) /\ r[k].extra = s[k].extra
                            /\ r[k].addr = s[k].addr /\ r[k].len = s[k].len
                            /\ (k # i => r[k] = s[k])

LEMMA SetIs ==
    ASSUME LinearAssumption, NEW s, Vector(s), NEW i \in RealSlots(s), NEW via \in Via
    PROVE  IsSet([s EXCEPT ![i].via = via], s, i, via)
<1> DEFINE r == [s EXCEPT ![i].via = via]
           new == [addr |-> s[i].addr, len |-> s[i].len, via |-> via, extra |-> s[i].extra]
<1>1. /\ s[i] = [addr |-> s[i].addr, len |-> s[i].len, via |-> s[i].via, extra |-> s[i].extra]
      /\ s[i] \in Slot /\ i \in Slots(s) /\ Real(s[i])
  BY SlotFacts DEF RealSlots
<1>2. [s[i] EXCEPT !.via = via] = new
  BY <1>1
<1>3. new \in Slot /\ Real(new)
  BY <1>1, ZeroIs DEF Slot, Real
<1>4. Len(s) \in Nat /\ DOMAIN s = Slots(s) /\ s \in Seq(Slot)
  BY SlotFacts DEF Vector
<1>5. r = [k \in Slots(s) |-> IF k = i THEN new ELSE s[k]]
  BY <1>2, <1>4
<1> HIDE DEF new, r
<1>6. r[i] = new /\ \A k \in Slots(s) : k # i => r[k] = s[k]
  BY <1>1, <1>5
<1>7. \A k \in Slots(s) : /\ Pfx(r[k]) = Pfx(s[k]) /\ r[k].extra = s[k].extra
                          /\ r[k].addr = s[k].addr /\ r[k].len = s[k].len
                          /\ r[k] \in Slot /\ (Real(r[k]) <=> Real(s[k]))
  <2>1. /\ Pfx(r[i]) = Pfx(s[i]) /\ r[i].extra = s[i].extra
        /\ r[i].addr = s[i].addr /\ r[i].len = s[i].len
    BY <1>6 DEF new, Pfx
  <2> QED  BY <2>1, <1>1, <1>3, <1>6, SlotFacts
<1>8. r \in Seq(Slot) /\ Len(r) = Len(s) /\ Slots(r) = Slots(s)
  <2>1. r \in [1 .. Len(s) -> Slot]
    BY <1>5, <1>7 DEF Slots
  <2> QED  BY <1>4, <2>1 DEF Slots
<1>9. RealSlots(r) = RealSlots(s)
  BY <1>7, <1>8 DEF RealSlots
<1>10. Vector(r)
  <2>1. ASSUME NEW k \in Slots(r)
        PROVE  /\ Pfx(r[k]) \in Named \cup {Zero}
               /\ r[k].extra \in k + 1 .. Inf
               /\ ~Real(r[k]) => Pfx(r[k]) = Zero
    BY <1>7, <1>8 DEF Vector
  <2>2. ASSUME NEW k \in RealSlots(r), NEW l \in RealSlots(r), k < l, l < r[k].extra
        PROVE  ~Within(r[l], r[k])
    <3>1. k \in Slots(s) /\ l \in Slots(s)
      BY <1>9, SlotFacts
    <3>2. ~Within(s[l], s[k])
      BY <2>2, <3>1, <1>7, <1>9 DEF Vector
    <3> QED  BY <3>1, <3>2, <1>7 DEF Within, Holds
  <2>3. ASSUME NEW k \in RealSlots(r), NEW l \in RealSlots(r), Pfx(r[k]) = Pfx(r[l])
        PROVE  k = l
    <3>1. k \in Slots(s) /\ l \in Slots(s)
      BY <1>9, SlotFacts
    <3> QED  BY <2>3, <3>1, <1>7, <1>9 DEF Vector
  <2>4. Len(r) <= MaxSlots
    BY <1>8 DEF Vector
  <2> QED  BY <2>1, <2>2, <2>3, <2>4, <1>8 DEF Vector
<1>11. r[i].via = via
  BY <1>6 DEF new
<1> QED  BY <1>6, <1>7, <1>8, <1>9, <1>10, <1>11 DEF IsSet, r

LEMMA SetLeads ==
    ASSUME NEW s, Vector(s), NEW i \in RealSlots(s), NEW via, NEW r, IsSet(r, s, i, via)
    PROVE  \A q, u : Leads(r, q, u) <=> IF q = Pfx(s[i]) THEN u = via ELSE Leads(s, q, u)
<1>1. /\ RealSlots(r) = RealSlots(s) /\ r[i].via = via
      /\ \A k \in RealSlots(s) : Pfx(r[k]) = Pfx(s[k]) /\ (k # i => r[k].via = s[k].via)
  BY SlotFacts DEF IsSet
<1>2. \A k \in RealSlots(s) : Pfx(s[k]) = Pfx(s[i]) => k = i
  BY DEF Vector
<1>3. ASSUME NEW q, NEW u, q = Pfx(s[i])
      PROVE  Leads(r, q, u) <=> u = via
  BY <1>1, <1>2, <1>3 DEF Leads
<1>4. ASSUME NEW q, NEW u, q # Pfx(s[i])
      PROVE  Leads(r, q, u) <=> Leads(s, q, u)
  <2>1. \A k \in RealSlots(s) : Pfx(s[k]) = q => k # i
    BY <1>4
  <2> QED  BY <1>1, <2>1 DEF Leads
<1> QED  BY <1>3, <1>4

----------------------------------------------------------------------------
\* Lookups: the entry that lookup_entry finds in s for address a.
Hits(s, a) == {i \in Slots(s) : Holds(s[i], a)}
EntryOf(s, a) ==
    LET first == Min(Hits(s, a))
        met == {first} \cup {i \in Hits(s, a) : i >= s[first].extra}
    IN  IF Hits(s, a) = {} THEN 0
        ELSE Max({i \in met : \A k \in met : s[k].len <= s[i].len})

\* It is the longest of the first hit and those from its pointer on.
IsEntry(e, s, a) ==
    IF Hits(s, a) = {} THEN e = 0
    ELSE /\ e \in Hits(s, a)
         /\ \E first \in Hits(s, a) :
               /\ \A i \in Hits(s, a) : first <= i
               /\ \A k \in Hits(s, a) : k = first \/ k >= s[first].extra => s[k].len <= s[e].len

LEMMA EntryIs ==
    ASSUME PrefixAssumption, NEW s, Vector(s), NEW a
    PROVE  IsEntry(EntryOf(s, a), s, a) /\ EntryOf(s, a) \in 0 .. Len(s)
<1> DEFINE hits == Hits(s, a)
           first == Min(hits)
           met == {first} \cup {i \in hits : i >= s[first].extra}
           lens == {s[i].len : i \in met}
           best == {i \in met : \A k \in met : s[k].len <= s[i].len}
<1>1. Len(s) \in Nat /\ hits \subseteq Slots(s) /\ Slots(s) \subseteq 0 .. Len(s)
  BY SlotFacts DEF Hits, Slots
<1>2. CASE hits = {}
  <2>1. EntryOf(s, a) = 0
    BY <1>2 DEF EntryOf
  <2> QED  BY <1>1, <1>2, <2>1 DEF IsEntry
<1>3. CASE hits # {}
  <2>1. first \in hits /\ \A m \in hits : first <= m
    <3>1. hits \in SUBSET Nat
      BY <1>1
    <3> HIDE DEF hits
    <3> QED  BY <3>1, <1>3, MinIs
  <2>2. EntryOf(s, a) = Max(best)
    BY <1>3 DEF EntryOf
  <2> HIDE DEF hits, first
  <2>3. met \subseteq hits /\ met # {}
    BY <2>1
  <2>4. \A i \in met : s[i].len \in 0 .. W
    BY <2>3, <1>1, SlotFacts
  <2>5. lens \in SUBSET (0 .. W) /\ lens # {}
    BY <2>3, <2>4
  <2>6. W \in Nat
    BY DEF PrefixAssumption
  <2>7. Max(lens) \in lens /\ \A m \in lens : m <= Max(lens)
    <3> HIDE DEF lens
    <3> QED  BY <2>5, <2>6, MaxIs
  <2>8. PICK i \in met : s[i].len = Max(lens)
    BY <2>7
  <2>9. i \in best
    BY <2>7, <2>8
  <2>10. best \in SUBSET (0 .. Len(s)) /\ best # {}
    BY <2>3, <2>9, <1>1
  <2>11. Max(best) \in best
    <3> HIDE DEF best
    <3> QED  BY <2>10, <1>1, MaxIs
  <2>12. EntryOf(s, a) \in met /\ \A k \in met : s[k].len <= s[EntryOf(s, a)].len
    BY <2>2, <2>11
  <2>13. \A k \in hits : k = first \/ k >= s[first].extra => k \in met
    OBVIOUS
  <2> HIDE DEF met
  <2> QED  BY <2>1, <2>3, <2>12, <2>13, <1>1, <1>3 DEF IsEntry, hits
<1> QED  BY <1>2, <1>3

\* A hole holds address 0 alone.
LEMMA HitsAreReal ==
    ASSUME LinearAssumption, NEW s, Vector(s), NEW a \in Addr, a # 0
    PROVE  Hits(s, a) \subseteq RealSlots(s)
<1> SUFFICES ASSUME NEW i \in Slots(s), Holds(s[i], a), ~Real(s[i])
             PROVE  FALSE
  BY DEF Hits, RealSlots
<1>1. s[i].addr = 0 /\ s[i].len = W
  BY DEF Vector, Pfx, Zero
<1>2. Masked(a, W) = a
  BY AddrIsNat, CutNothing
<1> QED  BY <1>1, <1>2 DEF Holds

\* The pointer of the first hit passes over no hit that is longer.
LEMMA EntryIsLongest ==
    ASSUME LinearAssumption, NEW s, Vector(s), NEW a \in Addr, a # 0, Hits(s, a) # {}
    PROVE  /\ EntryOf(s, a) \in Hits(s, a)
           /\ \A k \in Hits(s, a) : s[k].len <= s[EntryOf(s, a)].len
<1> DEFINE e == EntryOf(s, a)
<1>1. IsEntry(e, s, a)
  BY EntryIs, PrefixAssumption
<1> HIDE DEF e
<1>2. e \in Hits(s, a)
  BY <1>1 DEF IsEntry
<1>3. PICK first \in Hits(s, a) :
         /\ \A i \in Hits(s, a) : first <= i
         /\ \A k \in Hits(s, a) : k = first \/ k >= s[first].extra => s[k].len <= s[e].len
  BY <1>1 DEF IsEntry
<1>4. Hits(s, a) \subseteq RealSlots(s)
  BY HitsAreReal
<1>5. ASSUME NEW k \in Hits(s, a)
      PROVE  s[k].len <= s[e].len
  <2>1. /\ k \in RealSlots(s) /\ first \in RealSlots(s)
        /\ k \in Slots(s) /\ first \in Slots(s) /\ e \in Slots(s)
        /\ Holds(s[k], a) /\ Holds(s[first], a)
    BY <1>2, <1>4 DEF Hits
  <2>2. /\ k \in Nat /\ first \in Nat /\ s[first].extra \in Nat
        /\ s[k].len \in 0 .. W /\ s[first].len \in 0 .. W /\ s[e].len \in 0 .. W
    BY <2>1, SlotFacts
  <2>3. CASE k = first \/ k >= s[first].extra
    BY <2>3, <1>3
  <2>4. CASE first < k /\ k < s[first].extra
    <3>1. ~Within(s[k], s[first])
      BY <2>1, <2>4 DEF Vector
    <3>2. ~(s[first].len <= s[k].len)
      BY <2>1, <2>2, <3>1, HoldBoth
    <3>3. s[first].len <= s[e].len
      BY <1>3
    <3> QED  BY <2>2, <3>2, <3>3, PrefixAssumption
  <2> QED  BY <1>3, <2>2, <2>3, <2>4
<1> QED  BY <1>2, <1>5 DEF e

----------------------------------------------------------------------------
\* The routes of s, a function.
Routes(s) == [p \in {Pfx(s[i]) : i \in RealSlots(s)} |->
                s[Min({i \in RealSlots(s) : Pfx(s[i]) = p})].via]

LEMMA RouteOfSlot ==
    ASSUME NEW s, Vector(s), NEW i \in RealSlots(s)
    PROVE  Pfx(s[i]) \in DOMAIN Routes(s) /\ Routes(s)[Pfx(s[i])] = s[i].via
<1> DEFINE S == {k \in RealSlots(s) : Pfx(s[k]) = Pfx(s[i])}
<1>1. S \in SUBSET Nat /\ i \in S
  BY SlotFacts
<1>2. \A k \in S : k = i
  BY DEF Vector
<1>3. Min(S) = i
  <2> HIDE DEF S
  <2> QED  BY <1>1, <1>2, MinIs
<1> QED  BY <1>3 DEF Routes

\* They are what the slots lead to.
LEMMA RoutesLead ==
    ASSUME NEW s, Vector(s)
    PROVE  /\ \A p, via : Leads(s, p, via) <=> p \in DOMAIN Routes(s) /\ via = Routes(s)[p]
           /\ Routes(s) = [p \in DOMAIN Routes(s) |-> Routes(s)[p]]
<1>1. DOMAIN Routes(s) = {Pfx(s[i]) : i \in RealSlots(s)}
  BY DEF Routes
<1>2. Routes(s) = [p \in DOMAIN Routes(s) |-> Routes(s)[p]]
  BY DEF Routes
<1>3. ASSUME NEW p, NEW via, Leads(s, p, via)
      PROVE  p \in DOMAIN Routes(s) /\ via = Routes(s)[p]
  <2>1. PICK i \in RealSlots(s) : Pfx(s[i]) = p /\ s[i].via = via
    BY <1>3 DEF Leads
  <2> QED  BY <2>1, RouteOfSlot
<1>4. ASSUME NEW p, NEW via, p \in DOMAIN Routes(s), via = Routes(s)[p]
      PROVE  Leads(s, p, via)
  <2>1. PICK i \in RealSlots(s) : Pfx(s[i]) = p
    BY <1>1, <1>4
  <2>2. s[i].via = via
    BY <1>4, <2>1, RouteOfSlot
  <2> QED  BY <2>1, <2>2 DEF Leads
<1> QED  BY <1>2, <1>3, <1>4

LEMMA RoutesAre ==
    ASSUME NEW s, Vector(s), NEW f, f = [q \in DOMAIN f |-> f[q]],
           \A q, u : Leads(s, q, u) <=> q \in DOMAIN f /\ u = f[q]
    PROVE  Routes(s) = f
<1>1. /\ \A p, via : Leads(s, p, via) <=> p \in DOMAIN Routes(s) /\ via = Routes(s)[p]
      /\ Routes(s) = [p \in DOMAIN Routes(s) |-> Routes(s)[p]]
  BY RoutesLead
<1> DEFINE g == Routes(s)
<1> HIDE DEF g
<1>2. \A q, u : q \in DOMAIN g /\ u = g[q] <=> q \in DOMAIN f /\ u = f[q]
  BY <1>1 DEF g
<1>3. DOMAIN g = DOMAIN f /\ \A q \in DOMAIN f : g[q] = f[q]
  <2>1. \A q : q \in DOMAIN g => q \in DOMAIN f /\ g[q] = f[q]
    BY <1>2
  <2>2. \A q : q \in DOMAIN f => q \in DOMAIN g
    BY <1>2
  <2> QED  BY <2>1, <2>2
<1>4. g = [q \in DOMAIN g |-> g[q]]
  BY <1>1 DEF g
<1>5. g = f
  BY <1>3, <1>4
<1> QED  BY <1>5 DEF g

\* A lookup of any address but 0 leads where the longest prefix does.
LEMMA LookupIsBest ==
    ASSUME LinearAssumption, NEW s, Vector(s), NEW a \in Addr, a # 0
    PROVE  (IF EntryOf(s, a) = 0 THEN None ELSE s[EntryOf(s, a)].via) = Best(Routes(s), a)
<1> DEFINE e == EntryOf(s, a)
           held == {p \in DOMAIN Routes(s) : Holds(p, a)}
<1>1. DOMAIN Routes(s) = {Pfx(s[i]) : i \in RealSlots(s)}
  BY DEF Routes
<1>2. Hits(s, a) \subseteq RealSlots(s)
  BY HitsAreReal
<1>3. \A i \in RealSlots(s) : /\ i \in Slots(s)
                              /\ Pfx(s[i]).len = s[i].len /\ Pfx(s[i]).addr = s[i].addr
  BY SlotFacts DEF Pfx
<1>4. \A i \in RealSlots(s) : Holds(Pfx(s[i]), a) <=> Holds(s[i], a)
  BY <1>3 DEF Holds
<1>5. \A p : p \in held <=> \E i \in Hits(s, a) : p = Pfx(s[i])
  <2>1. \A p \in held : \E i \in Hits(s, a) : p = Pfx(s[i])
    BY <1>1, <1>3, <1>4 DEF Hits
  <2>2. \A i \in Hits(s, a) : Pfx(s[i]) \in held
    BY <1>1, <1>2, <1>4 DEF Hits
  <2> QED  BY <2>1, <2>2
<1>6. CASE Hits(s, a) = {}
  <2>1. e = 0
    BY <1>6 DEF EntryOf
  <2>2. held = {}
    BY <1>5, <1>6
  <2> QED  BY <2>1, <2>2 DEF Best
<1>7. CASE Hits(s, a) # {}
  <2>1. e \in Hits(s, a) /\ \A k \in Hits(s, a) : s[k].len <= s[e].len
    BY <1>7, EntryIsLongest
  <2> DEFINE P == Pfx(s[e])
             longest == CHOOSE p \in held : \A q \in held : q.len <= p.len
  <2> HIDE DEF e, held
  <2>2. e \in RealSlots(s) /\ e \in Slots(s) /\ e \in Nat /\ e # 0
    BY <2>1, <1>2, SlotFacts DEF Hits, Slots
  <2>3. P \in held /\ \A q \in held : q.len <= P.len
    BY <2>1, <2>2, <1>2, <1>3, <1>5
  <2>4. longest \in held /\ \A q \in held : q.len <= longest.len
    BY <2>3
  <2>5. PICK k \in Hits(s, a) : longest = Pfx(s[k])
    BY <2>4, <1>5
  <2>6. k \in RealSlots(s) /\ k \in Slots(s)
    BY <2>5, <1>2, <1>3
  <2>7. s[k].len = s[e].len
    <3>1. s[k].len \in 0 .. W /\ s[e].len \in 0 .. W /\ W \in Nat
      BY <2>2, <2>6, SlotFacts, PrefixAssumption
    <3>2. s[e].len <= s[k].len
      BY <2>2, <2>3, <2>4, <2>5, <2>6, <1>3
    <3> QED  BY <2>1, <2>5, <3>1, <3>2
  <2>8. s[k].addr = s[e].addr
    BY <2>1, <2>5, <2>7 DEF Hits, Holds
  <2>9. longest = P
    BY <2>5, <2>7, <2>8 DEF Pfx
  <2>10. Routes(s)[P] = s[e].via
    BY <2>2, RouteOfSlot
  <2>11. Best(Routes(s), a) = Routes(s)[longest]
    BY <2>3 DEF Best, held
  <2> QED  BY <2>2, <2>9, <2>10, <2>11 DEF e
<1> QED  BY <1>6, <1>7

----------------------------------------------------------------------------
\* The inductive invariant: TypeOK, PointersOK, ZeroBeforeHoles and CachesOK,
\* with the prefix of a hole.
IInv ==
    /\ Vector(t) /\ ZeroAt(t, zero_route)
    /\ \A c \in {1, 2} : /\ cache[c].addr \in Addr /\ cache[c].entry \in 0 .. Len(t)
                         /\ cache[c].addr # 0 => EntryOf(t, cache[c].addr) = cache[c].entry

LEMMA EntryDefined == \A a : LookupEntry(a) = EntryOf(t, a)
BY DEF LookupEntry, EntryOf, Hits

LEMMA Inits == ASSUME LinearAssumption, Init
               PROVE  IInv /\ Routes(t) = << >>
<1>1. t = << >> /\ zero_route = 0 /\ cache = NoCache
  BY DEF Init
<1>2. Len(t) = 0 /\ Slots(t) = {} /\ RealSlots(t) = {}
  BY <1>1 DEF Slots, RealSlots
<1>3. t \in Seq(Slot)
  BY <1>1
<1>4. Vector(t)
  BY <1>2, <1>3, ZeroIs DEF Vector
<1>5. ZeroAt(t, zero_route)
  BY <1>1, <1>2 DEF ZeroAt
<1>6. \A c \in {1, 2} : cache[c].addr = 0 /\ cache[c].entry = 0
  BY <1>1 DEF NoCache
<1>7. Routes(t) = << >>
  BY <1>2 DEF Routes
<1> QED  BY <1>2, <1>4, <1>5, <1>6, <1>7, ZeroIs DEF IInv

\* What the operations do to the routes.
ChangedTo(f, p, via) == [q \in DOMAIN f \cup {p} |-> IF q = p THEN via ELSE f[q]]
WithoutOne(f, p) == [q \in DOMAIN f \ {p} |-> f[q]]

LEMMA EmptyCache ==
    ASSUME LinearAssumption, Vector(t)', cache' = NoCache
    PROVE  \A c \in {1, 2} : /\ cache'[c].addr \in Addr /\ cache'[c].entry \in 0 .. Len(t')
                             /\ cache'[c].addr = 0
<1>1. \A c \in {1, 2} : NoCache[c].addr = 0 /\ NoCache[c].entry = 0
  BY DEF NoCache
<1>2. Len(t') \in Nat
  BY DEF Vector
<1> QED  BY <1>1, <1>2, ZeroIs

LEMMA SlotOfIs == ASSUME Vector(t), NEW p
                  PROVE  /\ SlotOf(p) = {i \in RealSlots(t) : Pfx(t[i]) = p}
                         /\ SlotOf(p) # {} => /\ Min(SlotOf(p)) \in RealSlots(t)
                                              /\ Pfx(t[Min(SlotOf(p))]) = p
                         /\ SlotOf(p) # {} <=> p \in DOMAIN Routes(t)
<1>1. SlotOf(p) = {i \in RealSlots(t) : Pfx(t[i]) = p}
  BY DEF SlotOf
<1>2. SlotOf(p) \in SUBSET Nat
  BY <1>1, SlotFacts
<1>3. SlotOf(p) # {} => Min(SlotOf(p)) \in SlotOf(p)
  BY <1>2, MinIs
<1>4. DOMAIN Routes(t) = {Pfx(t[i]) : i \in RealSlots(t)}
  BY DEF Routes
<1> QED  BY <1>1, <1>3, <1>4

LEMMA Adds ==
    ASSUME LinearAssumption, IInv, NEW p \in Named, NEW via \in Via, NEW set \in BOOLEAN,
           AddRoute(p, via, set)
    PROVE  /\ IInv'
           /\ \/ /\ p \notin DOMAIN Routes(t) \/ set
                 /\ Routes(t') = ChangedTo(Routes(t), p, via)
              \/ Routes(t') = Routes(t)
<1>1. Vector(t) /\ ZeroAt(t, zero_route)
  BY DEF IInv
<1>2. /\ \A q, u : Leads(t, q, u) <=> q \in DOMAIN Routes(t) /\ u = Routes(t)[q]
      /\ Routes(t) = [q \in DOMAIN Routes(t) |-> Routes(t)[q]]
  BY <1>1, RoutesLead
<1> DEFINE new == ChangedTo(Routes(t), p, via)
<1>3. /\ new = [q \in DOMAIN new |-> new[q]]
      /\ \A q, u : q \in DOMAIN new /\ u = new[q]
                   <=> IF q = p THEN u = via ELSE q \in DOMAIN Routes(t) /\ u = Routes(t)[q]
  BY DEF ChangedTo
<1> HIDE DEF new
<1>4. CASE SlotOf(p) # {} /\ set
  <2> DEFINE i == Min(SlotOf(p))
  <2>1. i \in RealSlots(t) /\ Pfx(t[i]) = p
    BY <1>1, <1>4, SlotOfIs
  <2>2. t' = [t EXCEPT ![i].via = via] /\ zero_route' = zero_route /\ cache' = cache
    BY <1>4 DEF AddRoute
  <2> HIDE DEF i
  <2>3. IsSet(t', t, i, via)
    BY <1>1, <2>1, <2>2, SetIs
  <2>4. Vector(t') /\ Len(t') = Len(t) /\ RealSlots(t') = RealSlots(t) /\ Slots(t') = Slots(t)
    BY <2>3 DEF IsSet, Slots
  <2>11. \A k \in Slots(t) : /\ Pfx(t'[k]) = Pfx(t[k]) /\ t'[k].extra = t[k].extra
                             /\ t'[k].addr = t[k].addr /\ t'[k].len = t[k].len
    BY <2>3 DEF IsSet
  <2>5. ZeroAt(t', zero_route')
    <3>1. \A k \in RealSlots(t) : Pfx(t'[k]) = Pfx(t[k])
      BY <2>11 DEF RealSlots
    <3>2. {k \in RealSlots(t') : Pfx(t'[k]) = Zero} = {k \in RealSlots(t) : Pfx(t[k]) = Zero}
      BY <2>4, <3>1
    <3>3. \A k \in Slots(t) : Real(t'[k]) <=> Real(t[k])
      BY <2>4 DEF RealSlots
    <3> QED  BY <1>1, <2>2, <2>4, <3>2, <3>3 DEF ZeroAt
  <2>6. \A a : EntryOf(t', a) = EntryOf(t, a)
    <3> SUFFICES ASSUME NEW a
                 PROVE  EntryOf(t', a) = EntryOf(t, a)
      OBVIOUS
    <3>1. Hits(t', a) = Hits(t, a)
      <4>1. \A k \in Slots(t) : Holds(t'[k], a) <=> Holds(t[k], a)
        BY <2>11 DEF Holds
      <4> QED  BY <4>1, <2>4 DEF Hits
    <3>2. CASE Hits(t, a) = {}
      BY <3>1, <3>2 DEF EntryOf
    <3>3. CASE Hits(t, a) # {}
      <4> DEFINE first == Min(Hits(t, a))
                 met(s) == {first} \cup {k \in Hits(t, a) : k >= s[first].extra}
                 best(s) == {k \in met(s) : \A l \in met(s) : s[l].len <= s[k].len}
      <4>1. Hits(t, a) \in SUBSET Nat /\ Hits(t, a) \subseteq Slots(t)
        BY <1>1, SlotFacts DEF Hits
      <4>2. first \in Hits(t, a)
        BY <3>3, <4>1, MinIs
      <4>3. EntryOf(t', a) = Max(best(t')) /\ EntryOf(t, a) = Max(best(t))
        BY <3>1, <3>3 DEF EntryOf
      <4> HIDE DEF first
      <4>4. met(t') = met(t) /\ met(t) \subseteq Slots(t)
        BY <2>11, <4>1, <4>2
      <4> HIDE DEF met
      <4>5. best(t') = best(t)
        BY <2>11, <4>4
      <4> HIDE DEF best
      <4> QED  BY <4>3, <4>5
    <3> QED  BY <3>2, <3>3
  <2>7. IInv'
    BY <2>2, <2>4, <2>5, <2>6 DEF IInv
  <2>8. \A q, u : Leads(t', q, u) <=> IF q = p THEN u = via ELSE Leads(t, q, u)
    BY <1>1, <2>1, <2>3, SetLeads
  <2>9. \A q, u : Leads(t', q, u) <=> q \in DOMAIN new /\ u = new[q]
    BY <2>8, <1>2, <1>3
  <2>10. Routes(t') = new
    BY <2>4, <2>9, <1>3, RoutesAre
  <2> QED  BY <2>7, <2>10, <1>4 DEF new
<1>5. CASE SlotOf(p) # {} /\ ~set
  <2>1. t' = t /\ zero_route' = zero_route /\ cache' = cache
    BY <1>5 DEF AddRoute
  <2>2. IInv'
    BY <2>1 DEF IInv
  <2> QED  BY <2>1, <2>2
<1>6. CASE SlotOf(p) = {}
  <2> DEFINE f == FreeSlot(t)
  <2>1. /\ f <= MaxSlots /\ t' = Placed(t, p, via, f) /\ cache' = NoCache
        /\ zero_route' = IF p = Zero THEN f ELSE zero_route
    BY <1>6 DEF AddRoute
  <2>2. \A i \in RealSlots(t) : Pfx(t[i]) # p
    BY <1>1, <1>6, SlotOfIs
  <2>3. IsPlaced(t', t, p, via, f)
    BY <1>1, <2>1, <2>2, PlacedIs
  <2>4. /\ f \in 1 .. Len(t) + 1 /\ f \notin RealSlots(t)
        /\ \A i \in Slots(t) : i < f => Real(t[i])
        /\ Len(t) \in Nat
    BY <1>1, FreeSlotIs, SlotFacts
  <2> HIDE DEF f
  <2>5. /\ Vector(t') /\ f \in Slots(t') /\ RealSlots(t') = RealSlots(t) \cup {f}
        /\ Len(t') = (IF f <= Len(t) THEN Len(t) ELSE Len(t) + 1) /\ Pfx(t'[f]) = p
        /\ \A i \in RealSlots(t) : i # f /\ Pfx(t'[i]) = Pfx(t[i])
    BY <2>3 DEF IsPlaced
  <2>6. ZeroAt(t', zero_route')
    <3>1. \A i \in Slots(t') : i < f => i \in Slots(t)
      BY <2>4, <2>5 DEF Slots
    <3>2. \A i \in Slots(t') : i < f => Real(t'[i])
      BY <3>1, <2>4, <2>5 DEF RealSlots
    <3>3. CASE p = Zero
      <4>1. zero_route' = f /\ f # 0 /\ f \in 0 .. Len(t')
        BY <3>3, <2>1, <2>4, <2>5 DEF Slots
      <4>2. {i \in RealSlots(t') : Pfx(t'[i]) = Zero} = {f}
        BY <3>3, <2>2, <2>5
      <4> QED  BY <3>2, <4>1, <4>2 DEF ZeroAt
    <3>4. CASE p # Zero
      <4>1. zero_route' = zero_route
        BY <3>4, <2>1
      <4>2. {i \in RealSlots(t') : Pfx(t'[i]) = Zero} = {i \in RealSlots(t) : Pfx(t[i]) = Zero}
        BY <3>4, <2>5
      <4>3. zero_route \in 0 .. Len(t) /\ \A i \in Slots(t) : i < zero_route => Real(t[i])
        BY <1>1 DEF ZeroAt
      <4>4. zero_route' \in 0 .. Len(t')
        BY <4>1, <4>3, <2>4, <2>5
      <4>5. ASSUME NEW i \in Slots(t'), i < zero_route
            PROVE  Real(t'[i])
        <5>1. i \in Slots(t)
          BY <4>3, <4>5, <2>4 DEF Slots
        <5> QED  BY <5>1, <4>3, <4>5, <2>5 DEF RealSlots
      <4> QED  BY <1>1, <4>1, <4>2, <4>4, <4>5 DEF ZeroAt
    <3> QED  BY <3>3, <3>4
  <2>7. IInv'
    BY <2>1, <2>5, <2>6, EmptyCache DEF IInv
  <2>8. \A q, u : Leads(t', q, u) <=> Leads(t, q, u) \/ (q = p /\ u = via)
    BY <2>3, PlacedLeads
  <2>9. p \notin DOMAIN Routes(t)
    BY <1>1, <1>6, SlotOfIs
  <2>10. \A q, u : Leads(t', q, u) <=> q \in DOMAIN new /\ u = new[q]
    BY <2>8, <2>9, <1>2, <1>3
  <2>11. Routes(t') = new
    BY <2>5, <2>10, <1>3, RoutesAre
  <2> QED  BY <2>7, <2>9, <2>11 DEF new
<1> QED  BY <1>4, <1>5, <1>6

LEMMA Removes ==
    ASSUME LinearAssumption, IInv, NEW p \in Named, NEW via \in Via \cup {Any},
           RemoveRoute(p, via)
    PROVE  /\ IInv'
           /\ \/ /\ p \in DOMAIN Routes(t) /\ via \in {Any, Routes(t)[p]}
                 /\ Routes(t') = WithoutOne(Routes(t), p)
              \/ Routes(t') = Routes(t)
<1>1. Vector(t) /\ ZeroAt(t, zero_route)
  BY DEF IInv
<1>2. /\ \A q, u : Leads(t, q, u) <=> q \in DOMAIN Routes(t) /\ u = Routes(t)[q]
      /\ Routes(t) = [q \in DOMAIN Routes(t) |-> Routes(t)[q]]
  BY <1>1, RoutesLead
<1>3. CASE Matching(p, via) = {}
  <2>1. t' = t /\ zero_route' = zero_route /\ cache' = cache
    BY <1>3 DEF RemoveRoute, vars
  <2>2. IInv'
    BY <2>1 DEF IInv
  <2> QED  BY <2>1, <2>2
<1>4. CASE Matching(p, via) # {}
  <2> DEFINE i == Min(Matching(p, via))
             a == AfterKill([t EXCEPT ![i] = Killed(@)], i)
  <2>1. t' = a.t /\ zero_route' = a.zero /\ cache' = NoCache
    BY <1>4 DEF RemoveRoute, CacheAfterRemove
  <2>2. i \in Matching(p, via) /\ \A k \in Matching(p, via) : i <= k
    <3>1. Matching(p, via) \in SUBSET Nat
      BY <1>1, SlotFacts DEF Matching
    <3> QED  BY <3>1, <1>4, MinIs
  <2> HIDE DEF i
  <2>3. i \in Slots(t) /\ Pfx(t[i]) = p /\ via \in {Any, t[i].via}
    BY <2>2 DEF Matching
  <2>4. ASSUME ~Real(t[i])
        PROVE  zero_route = 0
    <3>1. p = Zero /\ t[i].via = Dead /\ via = Any
      BY <2>3, <2>4, <1>1, ZeroIs DEF Vector, Real
    <3> SUFFICES ASSUME zero_route # 0
                 PROVE  FALSE
      OBVIOUS
    <3>2. zero_route \in RealSlots(t) /\ Pfx(t[zero_route]) = Zero
      BY <1>1 DEF ZeroAt
    <3>3. zero_route \in Slots(t) /\ Real(t[zero_route]) /\ zero_route \in Nat /\ i \in Nat
      BY <3>2, <2>3, <1>1, SlotFacts DEF RealSlots
    <3>4. zero_route \in Matching(p, via)
      BY <3>1, <3>2, <3>3 DEF Matching
    <3>5. i < zero_route
      BY <3>3, <3>4, <2>2, <2>4
    <3> QED  BY <3>5, <2>3, <2>4, <1>1 DEF ZeroAt
  <2>5. IsAfter(a, t, i)
    BY <1>1, <2>3, <2>4, AfterKillIs
  <2> HIDE DEF a
  <2>6. /\ Vector(t') /\ ZeroAt(t', zero_route')
        /\ \A q, u : Leads(t', q, u) <=> Leads(t, q, u) /\ ~(Real(t[i]) /\ Pfx(t[i]) = q)
    BY <2>1, <2>5 DEF IsAfter
  <2>7. IInv'
    BY <2>1, <2>6, EmptyCache DEF IInv
  <2>8. CASE Real(t[i])
    <3> DEFINE new == WithoutOne(Routes(t), p)
    <3>1. i \in RealSlots(t)
      BY <2>3, <2>8 DEF RealSlots
    <3>2. p \in DOMAIN Routes(t) /\ Routes(t)[p] = t[i].via
      BY <3>1, <2>3, <1>1, RouteOfSlot
    <3>3. /\ new = [q \in DOMAIN new |-> new[q]]
          /\ \A q, u : q \in DOMAIN new /\ u = new[q]
                       <=> q # p /\ q \in DOMAIN Routes(t) /\ u = Routes(t)[q]
      BY DEF WithoutOne
    <3> HIDE DEF new
    <3>4. \A q, u : Leads(t', q, u) <=> q \in DOMAIN new /\ u = new[q]
      BY <2>3, <2>6, <2>8, <3>3, <1>2
    <3>5. Routes(t') = new
      BY <2>6, <3>3, <3>4, RoutesAre
    <3> QED  BY <2>3, <2>7, <3>2, <3>5 DEF new
  <2>9. CASE ~Real(t[i])
    <3>1. \A q, u : Leads(t', q, u) <=> q \in DOMAIN Routes(t) /\ u = Routes(t)[q]
      BY <2>6, <2>9, <1>2
    <3>2. Routes(t') = Routes(t)
      BY <2>6, <3>1, <1>2, RoutesAre
    <3> QED  BY <2>7, <3>2
  <2> QED  BY <2>8, <2>9
<1> QED  BY <1>3, <1>4

LEMMA Pushes ==
    ASSUME LinearAssumption, IInv, NEW addr \in Addr, Push(addr)
    PROVE  IInv' /\ t' = t
<1>1. t' = t /\ zero_route' = zero_route
  BY DEF Push
<1>2. cache' = <<[addr |-> addr, entry |-> EntryOf(t, addr)], cache[1]>>
  BY EntryDefined DEF Push
<1>3. EntryOf(t, addr) \in 0 .. Len(t)
  BY EntryIs, PrefixAssumption DEF IInv
<1>4. /\ cache'[1].addr = addr /\ cache'[1].entry = EntryOf(t, addr)
      /\ cache'[2].addr = cache[1].addr /\ cache'[2].entry = cache[1].entry
  BY <1>2
<1>5. /\ cache[1].addr \in Addr /\ cache[1].entry \in 0 .. Len(t)
      /\ cache[1].addr # 0 => EntryOf(t, cache[1].addr) = cache[1].entry
  BY DEF IInv
<1> DEFINE Sound(c) == /\ cache[c].addr \in Addr /\ cache[c].entry \in 0 .. Len(t)
                       /\ cache[c].addr # 0 => EntryOf(t, cache[c].addr) = cache[c].entry
<1>6. Sound(1)' /\ Sound(2)'
  BY <1>1, <1>3, <1>4, <1>5
<1>7. \A c \in {1, 2} : Sound(c)'
  BY <1>6
<1> QED  BY <1>1, <1>7 DEF IInv

\* Every command and every push keeps the invariant.
THEOREM Invariance == ASSUME LinearAssumption
                      PROVE  Spec => []IInv
<1>1. Init => IInv
  BY Inits
<1>2. IInv /\ [Next]_vars => IInv'
  <2> SUFFICES ASSUME IInv, [Next]_vars
               PROVE  IInv'
    OBVIOUS
  <2>1. ASSUME NEW p \in Named, NEW via \in Via, NEW set \in BOOLEAN, AddRoute(p, via, set)
        PROVE  IInv'
    BY <2>1, Adds
  <2>2. ASSUME NEW p \in Named, NEW via \in Via \cup {Any}, RemoveRoute(p, via)
        PROVE  IInv'
    BY <2>2, Removes
  <2>3. ASSUME NEW addr \in Addr, Push(addr)
        PROVE  IInv'
    BY <2>3, Pushes
  <2>4. CASE UNCHANGED vars
    BY <2>4 DEF vars, IInv
  <2> QED  BY <2>1, <2>2, <2>3, <2>4 DEF Next
<1> QED  BY <1>1, <1>2, PTL DEF Spec

\* The pointers of the routes pass over no route within theirs and no prefix is
\* there twice; the route for address 0 alone is before all holes; the cached
\* entries are those that a lookup finds; and no slot is out of range.  The
\* assertions of check() hold after any command (lineariplookup.cc:53-91).
THEOREM VectorIsSound ==
    ASSUME LinearAssumption
    PROVE  Spec => [](TypeOK /\ PointersOK /\ ZeroBeforeHoles /\ CachesOK)
<1>1. IInv => TypeOK
  <2> SUFFICES ASSUME IInv
               PROVE  TypeOK
    OBVIOUS
  <2>1. Vector(t) /\ ZeroAt(t, zero_route)
    BY DEF IInv
  <2>2. \A i \in Slots(t) : /\ Pfx(t[i]) \in Named \cup {Zero}
                             /\ t[i].via \in Via \cup {Dead}
                             /\ t[i].extra \in i + 1 .. Inf
    BY <2>1, SlotFacts DEF Vector
  <2> QED  BY <2>1, <2>2 DEF IInv, TypeOK, Vector, ZeroAt
<1>2. IInv => PointersOK
  BY DEF IInv, Vector, PointersOK
<1>3. IInv => ZeroBeforeHoles
  BY DEF IInv, ZeroAt, ZeroBeforeHoles, SlotOf
<1>4. IInv => CachesOK
  BY EntryDefined DEF IInv, CachesOK
<1> QED  BY <1>1, <1>2, <1>3, <1>4, Invariance, PTL

----------------------------------------------------------------------------
\* RouteTable, with the routes of the vector and what push takes for an address.
Abstract == INSTANCE RouteTable WITH Prefixes <- Named, table <- Table,
                                     answer <- [a \in Asked |-> ViaOf(Served(a))]

ServedFrom(s, c, a) == IF a # 0 /\ a = c[1].addr THEN c[1].entry
                       ELSE IF a # 0 /\ a = c[2].addr THEN c[2].entry
                       ELSE EntryOf(s, a)
ViaIn(s, e) == IF e = 0 THEN None ELSE s[e].via

LEMMA AnswerIs ==
    ASSUME LinearAssumption, NEW s, Vector(s), NEW c, NEW a \in Asked, a # 0,
           \A k \in {1, 2} : c[k].addr # 0 => EntryOf(s, c[k].addr) = c[k].entry
    PROVE  ViaIn(s, ServedFrom(s, c, a)) = Best(Routes(s), a)
<1>1. ServedFrom(s, c, a) = EntryOf(s, a)
  BY DEF ServedFrom
<1>2. a \in Addr
  BY DEF LinearAssumption
<1> QED  BY <1>1, <1>2, LookupIsBest DEF ViaIn

\* Every step of LinearIPLookup is a step of RouteTable or changes nothing that
\* its commands and lookups show, when address 0 is not looked up: commands do
\* what iproutetable.hh:82-109 promises, and a packet follows the longest
\* prefix that holds its destination, however many holes were made and filled.
THEOREM LinearImplementsTable ==
    ASSUME LinearAssumption, 0 \notin Asked
    PROVE  Spec => Abstract!Spec
<1> DEFINE shown == [a \in Asked |-> ViaOf(Served(a))]
           best(f) == [a \in Asked |-> Best(f, a)]
<1>1. Table = Routes(t) /\ Table' = Routes(t')
  BY DEF Table, Routes, SlotOf
<1>2. \A a : LookupEntry(a) = EntryOf(t, a) /\ LookupEntry(a)' = EntryOf(t', a)
  BY DEF LookupEntry, EntryOf, Hits
<1>3. \A a : Served(a) = ServedFrom(t, cache, a) /\ Served(a)' = ServedFrom(t', cache', a)
  BY <1>2 DEF Served, ServedFrom
<1>4. \A e : ViaOf(e) = ViaIn(t, e) /\ ViaOf(e)' = ViaIn(t', e)
  BY DEF ViaOf, ViaIn
<1>5. shown = [a \in Asked |-> ViaIn(t, ServedFrom(t, cache, a))]
  BY <1>3, <1>4
<1>6. shown' = [a \in Asked |-> ViaIn(t', ServedFrom(t', cache', a))]
  BY <1>3, <1>4 DEF ViaOf
<1>7. IInv => shown = best(Routes(t))
  BY <1>5, AnswerIs DEF IInv
<1>8. IInv' => shown' = best(Routes(t'))
  BY <1>6, AnswerIs DEF IInv
<1>9. \A f : Abstract!Answers(f) = best(f)
  BY DEF Abstract!Answers, Abstract!Best, Abstract!Holds, Abstract!Masked, Best, Holds, Masked
<1>10. /\ \A p, via : Abstract!Changed(p, via) = ChangedTo(Table, p, via)
       /\ \A p : Abstract!Without(p) = WithoutOne(Table, p)
  BY DEF Abstract!Changed, Abstract!Without, ChangedTo, WithoutOne
<1> HIDE DEF shown, best
<1>11. Init => Abstract!Init
  <2> SUFFICES ASSUME Init
               PROVE  Abstract!Init
    OBVIOUS
  <2>1. IInv /\ Routes(t) = << >>
    BY Inits
  <2>2. Table = << >> /\ shown = Abstract!Answers(Table)
    BY <2>1, <1>1, <1>7, <1>9
  <2> QED  BY <2>2 DEF Abstract!Init, shown
<1>12. IInv /\ IInv' /\ [Next]_vars => [Abstract!Next]_(Abstract!vars)
  <2> SUFFICES ASSUME IInv, IInv', [Next]_vars
               PROVE  [Abstract!Next]_(Abstract!vars)
    OBVIOUS
  <2>1. shown = Abstract!Answers(Table) /\ shown' = Abstract!Answers(Table')
    BY <1>1, <1>7, <1>8, <1>9
  <2>2. ASSUME Routes(t') = Routes(t)
        PROVE  UNCHANGED Abstract!vars
    BY <2>1, <2>2, <1>1, <1>9 DEF Abstract!vars, shown
  <2>3. ASSUME NEW p \in Named, NEW via \in Via, NEW set \in BOOLEAN, AddRoute(p, via, set)
        PROVE  [Abstract!Next]_(Abstract!vars)
    <3>1. \/ /\ p \notin DOMAIN Routes(t) \/ set
             /\ Routes(t') = ChangedTo(Routes(t), p, via)
          \/ Routes(t') = Routes(t)
      BY <2>3, Adds
    <3>2. CASE Routes(t') = Routes(t)
      BY <2>2, <3>2
    <3>3. CASE (p \notin DOMAIN Routes(t) \/ set) /\ Routes(t') = ChangedTo(Routes(t), p, via)
      <4>1. Abstract!AddRoute(p, via, set)
        BY <3>3, <2>1, <1>1, <1>10 DEF Abstract!AddRoute, shown
      <4> QED  BY <4>1 DEF Abstract!Next
    <3> QED  BY <3>1, <3>2, <3>3
  <2>4. ASSUME NEW p \in Named, NEW via \in Via \cup {Any}, RemoveRoute(p, via)
        PROVE  [Abstract!Next]_(Abstract!vars)
    <3>1. \/ /\ p \in DOMAIN Routes(t) /\ via \in {Any, Routes(t)[p]}
             /\ Routes(t') = WithoutOne(Routes(t), p)
          \/ Routes(t') = Routes(t)
      BY <2>4, Removes
    <3>2. CASE Routes(t') = Routes(t)
      BY <2>2, <3>2
    <3>3. CASE /\ p \in DOMAIN Routes(t) /\ via \in {Any, Routes(t)[p]}
               /\ Routes(t') = WithoutOne(Routes(t), p)
      <4>1. Abstract!RemoveRoute(p, via)
        BY <3>3, <2>1, <1>1, <1>10 DEF Abstract!RemoveRoute, shown
      <4> QED  BY <4>1 DEF Abstract!Next
    <3> QED  BY <3>1, <3>2, <3>3
  <2>5. ASSUME NEW addr \in Addr, Push(addr)
        PROVE  [Abstract!Next]_(Abstract!vars)
    BY <2>2, <2>5, Pushes
  <2>6. CASE UNCHANGED vars
    BY <2>2, <2>6 DEF vars
  <2> QED  BY <2>3, <2>4, <2>5, <2>6 DEF Next
<1> QED  BY <1>11, <1>12, Invariance, PTL DEF Spec, Abstract!Spec
----------------------------------------------------------------------------
\* The tables of DirectIPLookup.  A loop that goes from the first index of its
\* span to next[k] passes over an index only from a visited one before it.
LEMMA WalkIs ==
    ASSUME NEW n \in Nat, NEW span \in SUBSET (0 .. n), NEW next,
           \A k, l \in span : \A m \in 0 .. n : k <= m /\ m <= l => m \in span,
           \A k \in span : next[k] \in Nat /\ next[k] > k,
           span # {}
    PROVE  /\ Walk(span, next) \subseteq span
           /\ \A k \in span : (\A m \in span : k <= m) => k \in Walk(span, next)
           /\ \A k \in span \ Walk(span, next) :
                 \E m \in Walk(span, next) : m < k /\ k < next[m]
<1> DEFINE First(k) == \A m \in span : k <= m
           Closed(S) == \A k \in span : First(k) \/ (\E m \in span : m < k /\ m \in S /\ next[m] = k) => k \in S
           V == {k \in span : \A S \in SUBSET span : Closed(S) => k \in S}
           Eq(f) == f = [k \in span |-> \/ First(k)
                                        \/ \E m \in span : m < k /\ f[m] /\ next[m] = k]
           g == [k \in span |-> k \in V]
<1>1. Closed(V)
  OBVIOUS
<1>2. \A k \in V : First(k) \/ \E m \in span : m < k /\ m \in V /\ next[m] = k
  <2> SUFFICES ASSUME NEW k \in V, ~First(k), ~(\E m \in span : m < k /\ m \in V /\ next[m] = k)
               PROVE  FALSE
    OBVIOUS
  <2>1. Closed(V \ {k})
    <3> SUFFICES ASSUME NEW l \in span,
                        First(l) \/ (\E m \in span : m < l /\ m \in V \ {k} /\ next[m] = l)
                 PROVE  l \in V \ {k}
      OBVIOUS
    <3>1. l \in V
      BY <1>1
    <3>2. l # k
      OBVIOUS
    <3> QED  BY <3>1, <3>2
  <2>2. V \ {k} \in SUBSET span
    OBVIOUS
  <2>3. k \in V \ {k}
    BY <2>1, <2>2
  <2> QED  BY <2>3
<1>3. \A k \in span : k \in V <=> First(k) \/ \E m \in span : m < k /\ m \in V /\ next[m] = k
  BY <1>1, <1>2
<1> HIDE DEF V, First
<1>4. \A m \in span : g[m] = (m \in V)
  OBVIOUS
<1>5. ASSUME NEW k \in span
      PROVE  g[k] = (First(k) \/ \E m \in span : m < k /\ g[m] /\ next[m] = k)
  <2> HIDE DEF g
  <2>1. (\E m \in span : m < k /\ g[m] /\ next[m] = k) <=> \E m \in span : m < k /\ m \in V /\ next[m] = k
    BY <1>4, Zenon
  <2>2. g[k] <=> k \in V
    BY <1>4, Zenon
  <2>3. g[k] = (k \in V)
    BY <1>4, Zenon
  <2> DEFINE R == First(k) \/ \E m \in span : m < k /\ m \in V /\ next[m] = k
             v == k \in V
  <2>4. v \in BOOLEAN /\ R \in BOOLEAN /\ (v <=> R)
    BY <1>3 DEF First
  <2>5. v = R
    <3> HIDE DEF v, R
    <3> QED  BY <2>4
  <2> QED  BY <2>1, <2>3, <2>5, Zenon
<1>6. Eq(g)
  <2> DEFINE h == [k \in span |-> First(k) \/ \E m \in span : m < k /\ g[m] /\ next[m] = k]
  <2>1. \A k \in span : g[k] = h[k]
    <3> HIDE DEF g
    <3> QED  BY <1>5
  <2>2. g = [k \in span |-> g[k]] /\ h = [k \in span |-> h[k]]
    OBVIOUS
  <2> HIDE DEF g, h
  <2>3. g = h
    BY <2>1, <2>2, Zenon
  <2> QED  BY <2>3 DEF h
<1> DEFINE at == CHOOSE f : Eq(f)
<1>7. Eq(at)
  <2> HIDE DEF Eq, g
  <2> QED  BY <1>6
<1>8. Walk(span, next) = {k \in span : at[k]}
  BY Zenon DEF Walk, First
<1> HIDE DEF at
<1>9. ASSUME NEW k \in span
      PROVE  at[k] <=> First(k) \/ \E m \in span : m < k /\ at[m] /\ next[m] = k
  BY <1>7
<1>10. ASSUME NEW k \in span, ~at[k]
       PROVE  \E m \in span : at[m] /\ m < k /\ k < next[m]
  <2> DEFINE S == {m \in span : at[m] /\ m < k}
  <2>1. S \in SUBSET (0 .. n)
    OBVIOUS
  <2>2. S # {}
    <3>1. PICK l \in span : First(l)
      BY LeastNat DEF First
    <3>2. at[l]
      BY <1>9, <3>1
    <3>3. l <= k
      BY <3>1 DEF First
    <3>4. l # k
      BY <3>2, <1>10
    <3>5. l < k
      BY <3>3, <3>4
    <3> QED  BY <3>2, <3>5
  <2>3. PICK m \in S : \A l \in S : l <= m
    <3> HIDE DEF S
    <3> QED  BY <2>1, <2>2, MaxIs
  <2>4. m \in span /\ at[m] /\ m < k /\ next[m] \in Nat /\ next[m] > m
    OBVIOUS
  <2>5. CASE next[m] <= k
    <3>1. next[m] \in span
      BY <2>4, <2>5
    <3>2. at[next[m]]
      BY <1>9, <2>4, <3>1
    <3>3. next[m] # k
      BY <3>2, <1>10
    <3>4. next[m] \in S
      BY <2>5, <3>1, <3>2, <3>3
    <3> QED  BY <2>3, <2>4, <3>4
  <2>6. CASE k < next[m]
    BY <2>4, <2>6
  <2> QED  BY <2>4, <2>5, <2>6
<1>11. \A k \in span : First(k) => at[k]
  BY <1>9
<1> HIDE DEF Eq
<1>12. \A k \in span \ Walk(span, next) : \E m \in Walk(span, next) : m < k /\ k < next[m]
  BY <1>8, <1>10
<1> QED  BY <1>8, <1>11, <1>12 DEF First

\* The addresses of one primary entry, and the j-th of the i-th.
Size == 2^(W - PBits)
\* the address that entry i and the low bits j stand for
At(i, j) == i * Size + j

\* How many entries and addresses there are.
LEMMA Sizes ==
    /\ PBits \in 1 .. W - 1 /\ PBits \in Nat /\ W - PBits \in Nat /\ W \in Nat
    /\ Size \in Nat \ {0} /\ 2^PBits \in Nat \ {0} /\ 2^W = 2^PBits * Size /\ 2^W \in Nat \ {0}
    /\ Primary = 0 .. 2^PBits - 1 /\ Low = 0 .. Size - 1 /\ Addr = 0 .. 2^W - 1
    /\ Primary \subseteq Nat /\ Low \subseteq Nat /\ Addr \subseteq Nat
<1>1. PBits \in 1 .. W - 1 /\ PBits \in Nat /\ W - PBits \in Nat /\ W \in Nat /\ W = PBits + (W - PBits)
  BY PrefixAssumption, DirectAssumption
<1>2. Size \in Nat \ {0} /\ 2^PBits \in Nat \ {0} /\ 2^W \in Nat \ {0}
  BY <1>1, Powers DEF Size
<1>3. 2^W = 2^PBits * Size
  <2>1. 2^(PBits + (W - PBits)) = 2^PBits * 2^(W - PBits)
    BY <1>1, Powers
  <2> QED  BY <1>1, <2>1 DEF Size
<1>4. Primary = 0 .. 2^PBits - 1 /\ Low = 0 .. Size - 1 /\ Addr = 0 .. 2^W - 1
  BY DEF Primary, Low, Addr, Size
<1>5. Primary \subseteq Nat /\ Low \subseteq Nat /\ Addr \subseteq Nat
  BY <1>2, <1>4
<1> QED  BY <1>1, <1>2, <1>3, <1>4, <1>5

\* An address is its high and its low bits.
LEMMA AtIs ==
    /\ \A i \in Primary, j \in Low : At(i, j) \in Addr
    /\ \A a \in Addr : /\ a \div Size \in Primary /\ a % Size \in Low
                       /\ a = At(a \div Size, a % Size)
<1> DEFINE N == 2^PBits
           S == Size
<1>1. S \in Nat \ {0} /\ N \in Nat \ {0} /\ Primary = 0 .. N - 1 /\ Low = 0 .. S - 1 /\ Addr = 0 .. N * S - 1
  BY Sizes
<1> HIDE DEF N, S
<1>2. ASSUME NEW i \in Primary, NEW j \in Low
      PROVE  At(i, j) \in Addr
  <2>1. i \in Nat /\ j \in Nat /\ i + 1 <= N /\ j < S
    BY <1>1
  <2>2. (i + 1) * S <= N * S /\ (i + 1) * S = i * S + S
    BY <1>1, <2>1
  <2>3. i * S \in Nat /\ N * S \in Nat
    BY <1>1, <2>1
  <2>4. i * S + j \in 0 .. N * S - 1
    BY <1>1, <2>1, <2>2, <2>3
  <2> QED  BY <1>1, <2>4 DEF At, S
<1>3. ASSUME NEW a \in Addr
      PROVE  a \div S \in Primary /\ a % S \in Low /\ a = (a \div S) * S + (a % S)
  <2>1. a \in Nat /\ a < N * S /\ N * S \in Nat
    BY <1>1
  <2> DEFINE q == a \div S
             r == a % S
  <2>2. q \in Nat /\ r \in 0 .. S - 1 /\ a = q * S + r
    BY <1>1, <2>1
  <2> HIDE DEF q, r
  <2>3. q < N
    <3> SUFFICES ASSUME N <= q
                 PROVE  FALSE
      BY <1>1, <2>2
    <3>1. N * S <= q * S
      BY <1>1, <2>2
    <3> QED  BY <1>1, <2>1, <2>2, <3>1
  <2> QED  BY <1>1, <2>2, <2>3 DEF q, r
<1> QED  BY <1>2, <1>3 DEF At, S

\* A prefix holds a block of addresses.
LEMMA HoldsBlock ==
    ASSUME NEW p \in AllPrefixes
    PROVE  /\ p.addr \in Addr /\ p.len \in 0 .. W /\ W - p.len \in Nat /\ 2^(W - p.len) \in Nat \ {0}
           /\ p = [addr |-> p.addr, len |-> p.len]
           /\ p.addr = (p.addr \div 2^(W - p.len)) * 2^(W - p.len)
           /\ \A a \in Addr : Holds(p, a) <=> p.addr <= a /\ a < p.addr + 2^(W - p.len)
<1> DEFINE B == 2^(W - p.len)
           k == p.addr \div B
<1>1. p.addr \in Addr /\ p.len \in 0 .. W /\ p = [addr |-> p.addr, len |-> p.len] /\ p.addr = k * B
  BY DEF AllPrefixes, Masked
<1>2. W - p.len \in Nat
  BY <1>1, PrefixAssumption
<1>3. B \in Nat \ {0}
  BY <1>2, Powers
<1>4. \A a \in Addr : Holds(p, a) <=> (a \div B) * B = p.addr
  BY DEF Holds, Masked
<1>5. p.addr \in Nat
  BY <1>1, Sizes
<1> HIDE DEF B
<1>6. k \in Nat
  BY <1>3, <1>5
<1> HIDE DEF k
<1>7. ASSUME NEW a \in Addr
      PROVE  (a \div B) * B = k * B <=> k * B <= a /\ a < k * B + B
  <2>1. a \in Nat
    BY Sizes
  <2> DEFINE x == a \div B
  <2>2. x \in Nat /\ x * B <= a /\ a < (x + 1) * B /\ (x + 1) * B = x * B + B /\ (k + 1) * B = k * B + B
    BY <1>3, <1>6, <2>1
  <2> HIDE DEF x
  <2>3. ASSUME x * B = k * B
        PROVE  k * B <= a /\ a < k * B + B
    BY <2>2, <2>3
  <2>4. ASSUME k * B <= a, a < k * B + B
        PROVE  x = k
    BY <1>3, <1>6, <2>1, <2>2, <2>4, DivIs DEF x
  <2> QED  BY <2>3, <2>4 DEF x
<1>8. \A a \in Addr : Holds(p, a) <=> p.addr <= a /\ a < p.addr + B
  BY <1>1, <1>4, <1>7
<1> QED  BY <1>1, <1>2, <1>3, <1>8 DEF B, k

\* Products keep the order.
LEMMA Times ==
    ASSUME NEW S \in Nat \ {0}, NEW x \in Int, NEW y \in Int
    PROVE  /\ x * S \in Int /\ (x + y) * S = x * S + y * S
           /\ x <= y <=> x * S <= y * S
           /\ x < y <=> x * S < y * S
           /\ x < y <=> x * S + S <= y * S
<1>1. x * S \in Int /\ y * S \in Int /\ (x + y) * S = x * S + y * S /\ (x + 1) * S = x * S + S
  OBVIOUS
<1>2. ASSUME NEW u \in Int, NEW v \in Int, u <= v
      PROVE  u * S <= v * S
  BY <1>2
<1>3. x <= y => x * S <= y * S
  BY <1>2
<1>4. y <= x => y * S <= x * S
  BY <1>2
<1>5. x + 1 <= y => x * S + S <= y * S
  BY <1>1, <1>2
<1>6. y + 1 <= x => y * S + S <= x * S
  <2>1. (y + 1) * S = y * S + S
    OBVIOUS
  <2> QED  BY <2>1, <1>2
<1> QED  BY <1>1, <1>3, <1>4, <1>5, <1>6

\* A prefix that is not longer than an index holds all of some entries.
LEMMA ShortSpan ==
    ASSUME NEW p \in AllPrefixes, p.len <= PBits
    PROVE  /\ Start(p) \in Nat /\ 2^(PBits - p.len) \in Nat \ {0} /\ PBits - p.len \in Nat
           /\ Span(p) = Start(p) .. Start(p) + 2^(PBits - p.len) - 1
           /\ Span(p) \subseteq Primary /\ SecSpan(p) = Low
           /\ \A i \in Span(p) : BlockEnd(i, 2^(PBits - p.len)) = Start(p) + 2^(PBits - p.len) - 1
           /\ \A i \in Primary, j \in Low : Holds(p, At(i, j)) <=> i \in Span(p)
<1> DEFINE B == 2^(W - p.len)
           m == 2^(PBits - p.len)
           S == Size
           n == 2^p.len
           N == 2^PBits
           k == p.addr \div B
           s == Start(p)
<1>1. /\ p.len \in Nat /\ PBits - p.len \in Nat /\ W - PBits \in Nat /\ W - p.len \in Nat
      /\ W - p.len = (PBits - p.len) + (W - PBits) /\ PBits = p.len + (PBits - p.len)
  <2>1. p.len \in 0 .. W /\ PBits \in Nat /\ W \in Nat /\ PBits \in 1 .. W - 1
    BY HoldsBlock, Sizes
  <2>2. p.len \in Nat
    BY <2>1
  <2> QED  BY <2>1, <2>2
<1>2. B \in Nat \ {0} /\ m \in Nat \ {0} /\ S \in Nat \ {0} /\ n \in Nat \ {0} /\ N \in Nat \ {0}
  BY <1>1, Powers, Sizes
<1>3. B = m * S /\ N = n * m
  <2>1. 2^((PBits - p.len) + (W - PBits)) = 2^(PBits - p.len) * 2^(W - PBits)
    BY <1>1, Powers
  <2>2. 2^(p.len + (PBits - p.len)) = 2^p.len * 2^(PBits - p.len)
    BY <1>1, Powers
  <2> QED  BY <1>1, <2>1, <2>2 DEF Size
<1>4. p.addr = k * B /\ p.addr \in Nat /\ p.addr < N * S
  <2>1. p.addr = k * B /\ p.addr \in Addr
    BY HoldsBlock
  <2>2. Addr = 0 .. N * S - 1 /\ N * S \in Nat
    BY Sizes
  <2> HIDE DEF k, B, N, S
  <2> QED  BY <2>1, <2>2
<1>5. k \in Nat
  BY <1>2, <1>4
<1>6. Span(p) = s .. s + m - 1
  <2>1. (IF p.len < PBits THEN 2^(PBits - p.len) ELSE 1) = m
    <3>1. CASE p.len < PBits
      BY <3>1
    <3>2. CASE p.len = PBits
      <4>1. PBits - p.len = 0
        BY <3>2, Sizes
      <4> QED  BY <3>2, <4>1, PowerOfZero
    <3> QED  BY <1>1, <3>1, <3>2
  <2> QED  BY <2>1 DEF Span
<1>7. SecSpan(p) = Low
  BY <1>1 DEF SecSpan
<1>8. \A a \in Addr : Holds(p, a) <=> p.addr <= a /\ a < p.addr + B
  BY HoldsBlock
<1>9. Primary = 0 .. N - 1 /\ Low = 0 .. S - 1
  BY Sizes
<1>10. s = p.addr \div S
  BY DEF Start, Size
<1>11. \A i, b : BlockEnd(i, b) = (i \div b) * b + b - 1
  BY DEF BlockEnd
<1> HIDE DEF B, m, S, n, N, k, s
<1>12. k * m \in Nat /\ (k * m) * S = k * B /\ (k + 1) * m = k * m + m /\ (n * m) * S = n * B
  <2>1. (k * m) * S = k * (m * S) /\ (n * m) * S = n * (m * S)
    BY <1>2, <1>5
  <2> QED  BY <1>2, <1>3, <1>5, <2>1
<1>13. s = k * m
  <2>1. (k * m) * S <= p.addr /\ p.addr < ((k * m) + 1) * S
    <3>1. ((k * m) + 1) * S = (k * m) * S + S
      BY <1>2, <1>12
    <3> QED  BY <1>2, <1>4, <1>12, <3>1
  <2> QED  BY <1>2, <1>4, <1>10, <1>12, <2>1, DivIs
<1>14. s + m <= N
  <2>1. k * B < n * B
    BY <1>3, <1>4, <1>12
  <2>2. k < n
    BY <1>2, <1>5, <2>1, Times
  <2>3. k * m + m <= n * m
    BY <1>2, <1>5, <2>2, Times
  <2> QED  BY <1>3, <1>13, <2>3
<1>15. Span(p) \subseteq Primary /\ s \in Nat
  BY <1>2, <1>6, <1>9, <1>12, <1>13, <1>14, SMTT(30)
<1>16. ASSUME NEW i \in Span(p)
       PROVE  BlockEnd(i, m) = s + m - 1
  <2>1. i \in Nat /\ k * m <= i /\ i < (k + 1) * m
    BY <1>2, <1>6, <1>12, <1>13, <1>15, SMTT(30)
  <2>2. i \div m = k
    BY <1>2, <1>5, <2>1, DivIs
  <2> QED  BY <1>11, <1>13, <2>2
<1>17. ASSUME NEW i \in Primary, NEW j \in Low
       PROVE  Holds(p, At(i, j)) <=> i \in Span(p)
  <2>1. i \in Nat /\ j \in Nat /\ j < S /\ i * S \in Nat /\ s * S \in Nat
    BY <1>2, <1>9, <1>15
  <2>2. Holds(p, At(i, j)) <=> s * S <= i * S + j /\ i * S + j < s * S + m * S
    <3>1. At(i, j) \in Addr /\ At(i, j) = i * S + j
      BY AtIs DEF At, S
    <3> QED  BY <1>3, <1>4, <1>8, <1>12, <1>13, <3>1
  <2>3. (s + m) * S = s * S + m * S /\ m * S \in Int /\ s + m \in Nat
    BY <1>2, <1>15, Times
  <2>4. (i < s <=> i * S + S <= s * S) /\ (s <= i <=> s * S <= i * S)
    BY <1>2, <1>15, <2>1, Times
  <2>5. (i < s + m <=> i * S + S <= (s + m) * S) /\ (s + m <= i <=> (s + m) * S <= i * S)
    BY <1>2, <2>1, <2>3, Times
  <2>6. i \in Span(p) <=> s <= i /\ i < s + m
    BY <1>2, <1>6, <1>15, <2>1
  <2> QED  BY <1>2, <1>15, <2>1, <2>2, <2>3, <2>4, <2>5, <2>6
<1> QED  BY <1>1, <1>2, <1>6, <1>7, <1>15, <1>16, <1>17 DEF m, s

\* A longer prefix holds a part of one.
LEMMA LongSpan ==
    ASSUME NEW p \in AllPrefixes, PBits < p.len
    PROVE  /\ Span(p) = {Start(p)} /\ Start(p) \in Primary
           /\ SecSpan(p) \subseteq Low /\ SecSpan(p) # {}
           /\ W - p.len \in Nat /\ 2^(W - p.len) \in Nat \ {0}
           /\ \E f \in Low : /\ SecSpan(p) = f .. f + 2^(W - p.len) - 1
                             /\ \A j \in SecSpan(p) : BlockEnd(j, 2^(W - p.len)) = f + 2^(W - p.len) - 1
           /\ \A i \in Primary, j \in Low : Holds(p, At(i, j)) <=> i = Start(p) /\ j \in SecSpan(p)
<1> DEFINE B == 2^(W - p.len)
           m == 2^(p.len - PBits)
           S == Size
           k == p.addr \div B
           s == Start(p)
           f == p.addr % S
<1>1. /\ p.len - PBits \in Nat /\ W - PBits \in Nat /\ W - p.len \in Nat
      /\ W - PBits = (W - p.len) + (p.len - PBits) /\ p.len \in Nat /\ PBits \in Nat
  <2>1. p.len \in 0 .. W /\ PBits \in Nat /\ W \in Nat /\ PBits \in 1 .. W - 1
    BY HoldsBlock, Sizes
  <2>2. p.len \in Nat
    BY <2>1
  <2> QED  BY <2>1, <2>2
<1>2. B \in Nat \ {0} /\ m \in Nat \ {0} /\ S \in Nat \ {0}
  BY <1>1, Powers, Sizes
<1>3. S = B * m
  <2>1. 2^((W - p.len) + (p.len - PBits)) = 2^(W - p.len) * 2^(p.len - PBits)
    BY <1>1, Powers
  <2> QED  BY <1>1, <2>1 DEF Size
<1>4. p.addr = k * B /\ p.addr \in Nat
  <2>1. p.addr = k * B /\ p.addr \in Addr
    BY HoldsBlock
  <2>2. Addr \subseteq Nat
    BY Sizes
  <2> QED  BY <2>1, <2>2
<1>5. s \in Primary /\ f \in Low /\ p.addr = s * S + f
  <2>1. p.addr \in Addr
    BY HoldsBlock
  <2>2. p.addr \div Size \in Primary /\ p.addr % Size \in Low /\ p.addr = At(p.addr \div Size, p.addr % Size)
    BY <2>1, AtIs
  <2> QED  BY <2>2 DEF At, Start, Size
<1>6. Primary \subseteq Nat /\ Low = 0 .. S - 1
  BY Sizes
<1>7. Span(p) = {s}
  <2> HIDE DEF s
  <2>1. ~(p.len < PBits) /\ s \in Nat
    BY <1>1, <1>5, <1>6
  <2>2. Span(p) = s .. s + 1 - 1
    BY <2>1 DEF Span, s
  <2>3. s .. s + 1 - 1 = {s}
    BY <2>1
  <2> QED  BY <2>2, <2>3
<1>8. SecSpan(p) = f .. f + B - 1
  BY DEF SecSpan, Size
<1>9. \A a \in Addr : Holds(p, a) <=> p.addr <= a /\ a < p.addr + B
  BY HoldsBlock
<1>11. \A i, b : BlockEnd(i, b) = (i \div b) * b + b - 1
  BY DEF BlockEnd
<1> HIDE DEF B, m, S, k, s, f
<1>12. k \in Nat /\ s \in Nat /\ f \in Nat /\ f < S
  BY <1>2, <1>4, <1>5, <1>6 DEF k
<1> DEFINE g == k - s * m
<1>13. s * m \in Nat /\ g \in Int /\ f = g * B
  <2>1. s * m \in Nat /\ s * S = s * (B * m) /\ s * (B * m) = (s * m) * B
    BY <1>2, <1>3, <1>12
  <2>2. g \in Int
    BY <1>12, <2>1
  <2>3. (g + s * m) * B = g * B + (s * m) * B
    BY <1>2, <2>1, <2>2, Times
  <2>4. g + s * m = k
    BY <1>12, <2>1
  <2>5. g * B \in Int /\ s * S \in Int /\ k * B \in Int
    BY <1>2, <1>12, <2>2
  <2>6. k * B = s * S + f
    BY <1>4, <1>5
  <2> HIDE DEF g
  <2> QED  BY <1>12, <2>1, <2>2, <2>3, <2>4, <2>5, <2>6
<1> HIDE DEF g
<1>14. g \in Nat /\ f + B <= S
  <2>1. 0 * B = 0
    BY <1>2
  <2>2. 0 <= g
    BY <1>2, <1>12, <1>13, <2>1, Times
  <2>3. m * B = S
    BY <1>2, <1>3
  <2>4. g < m
    BY <1>2, <1>12, <1>13, <2>3, Times
  <2>5. g * B + B <= m * B
    BY <1>2, <1>13, <2>4, Times
  <2> QED  BY <1>13, <2>2, <2>3, <2>5
<1>15. SecSpan(p) \subseteq Low /\ f \in SecSpan(p)
  BY <1>2, <1>6, <1>8, <1>12, <1>14
<1>16. ASSUME NEW j \in SecSpan(p)
       PROVE  BlockEnd(j, B) = f + B - 1
  <2>1. j \in Nat /\ g * B <= j /\ j < g * B + B /\ (g + 1) * B = g * B + B
    BY <1>2, <1>8, <1>12, <1>13, <1>14
  <2>2. j \div B = g
    BY <1>2, <1>14, <2>1, DivIs
  <2> QED  BY <1>11, <1>13, <2>2
<1>17. ASSUME NEW i \in Primary, NEW j \in Low
       PROVE  Holds(p, At(i, j)) <=> i = s /\ j \in SecSpan(p)
  <2>1. i \in Nat /\ j \in Nat /\ j < S /\ i * S \in Nat /\ s * S \in Nat
    BY <1>2, <1>6, <1>12
  <2>2. Holds(p, At(i, j)) <=> s * S + f <= i * S + j /\ i * S + j < s * S + f + B
    <3>1. At(i, j) \in Addr /\ At(i, j) = i * S + j
      BY AtIs DEF At, S
    <3> QED  BY <1>5, <1>9, <3>1
  <2>3. i < s <=> i * S + S <= s * S
    BY <1>2, <1>12, <2>1, Times
  <2>4. s < i <=> s * S + S <= i * S
    BY <1>2, <1>12, <2>1, Times
  <2>5. j \in SecSpan(p) <=> f <= j /\ j < f + B
    BY <1>2, <1>8, <1>12, <2>1
  <2> QED  BY <1>2, <1>12, <1>14, <2>1, <2>2, <2>3, <2>4, <2>5
<1>18. f \in Low
  BY <1>5
<1> QED  BY <1>1, <1>2, <1>5, <1>7, <1>8, <1>15, <1>16, <1>17, <1>18 DEF s, B

\* What a lookup of entry i and the low bits j finds.
EntryAt(tb, sc, i, j) == IF tb[i].sec THEN sc[tb[i].ix][j] ELSE [ix |-> tb[i].ix, plen |-> tb[i].plen]

\* q is the longest route for address a, and e what it asks for.
Longest(rt, q, a) == /\ q \in DOMAIN rt /\ Holds(q, a)
                     /\ \A r \in DOMAIN rt : Holds(r, a) => r.len <= q.len
Leading(rt, e, a) == \E q \in DOMAIN rt : Longest(rt, q, a) /\ e.ix = rt[q] /\ e.plen = q.len

\* The routes, of which the default route is one.
RoutesFit(rt) == /\ DOMAIN rt \subseteq AllPrefixes /\ IsFiniteSet(DOMAIN rt)
                 /\ Default \in DOMAIN rt /\ rt[Default] = 1
                 /\ \A q \in DOMAIN rt : rt[q] \in Nat

\* Secondary tables are free or belong to one entry.
LowTable == [Low -> [ix : Nat, plen : Nat]]
TablesFit(tb, sc, se) ==
    /\ tb \in [Primary -> [sec : BOOLEAN, ix : Nat, plen : Nat]]
    /\ sc \in Seq(LowTable) /\ se \in Seq(Nat) /\ Listed(se)
    /\ Ext!ToSet(se) \subseteq DOMAIN sc
    /\ \A s \in DOMAIN sc : s \in Ext!ToSet(se) \/ \E i \in Primary : tb[i].sec /\ tb[i].ix = s
    /\ \A i \in Primary : tb[i].sec => /\ tb[i].ix \in DOMAIN sc /\ tb[i].ix \notin Ext!ToSet(se)
                                       /\ \A k \in Primary : tb[k].sec /\ tb[k].ix = tb[i].ix => i = k

\* Every entry leads to the longest prefix; one has a secondary table where
\* there is a prefix longer than an index, and nowhere else.
TablesLead(rt, tb, sc) ==
    /\ \A i \in Primary : ~tb[i].sec => tb[i].plen <= PBits
    /\ \A i \in Primary : tb[i].sec => \E j \in Low : sc[tb[i].ix][j].plen > PBits
    /\ \A i \in Primary, j \in Low : Leading(rt, EntryAt(tb, sc, i, j), At(i, j))

\* Virtual ports are used or free.
Port == [via : Via \cup {None}, ref : Int]
PortsFit(vs) ==
    /\ vs \in [all : Seq(Port), head : Seq(Nat), empty : Seq(Nat)] /\ Listed(vs.head) /\ Listed(vs.empty)
    /\ Ext!ToSet(vs.head) \cup Ext!ToSet(vs.empty) = DOMAIN vs.all
    /\ \A v \in DOMAIN vs.all : v \in Ext!ToSet(vs.head) <=> vs.all[v].ref > 0
    /\ \A v \in DOMAIN vs.all : v \in Ext!ToSet(vs.empty) <=> vs.all[v].ref <= 0
UsersOf(rt, v) == {q \in DOMAIN rt : rt[q] = v}
Counted(vs, rt) == \A v \in DOMAIN vs.all : vs.all[v].ref = Cardinality(UsersOf(rt, v))

\* The routes lead where the commands ask for.
RoutesAsked(vs, rt, asked) ==
    /\ \A q \in DOMAIN rt \ {Default} : vs.all[rt[q]].via \in Via
    /\ DOMAIN asked = {q \in DOMAIN rt : q # Default \/ vs.all[1].via # None}
    /\ \A q \in DOMAIN asked : asked[q] = vs.all[rt[q]].via

\* The inductive invariant: tables, ports and commands agree with the routes,
\* each up to the event that the code does not provide for.
DirectInv ==
    /\ RoutesFit(rtable) /\ PortsFit(Vports)
    /\ \A q \in DOMAIN rtable : rtable[q] \in DOMAIN vport
    /\ "unreferenced" \notin faults => Counted(Vports, rtable)
    /\ "pruned" \notin faults => TablesFit(tbl, sec, sempty) /\ TablesLead(rtable, tbl, sec)
    /\ faults = {} => RoutesAsked(Vports, rtable, routes)

\* The part of it that the loops over the tables rely on and keep.
Tables == RoutesFit(rtable) /\ TablesFit(tbl, sec, sempty) /\ TablesLead(rtable, tbl, sec)

\* What a lookup finds in the entries.
LEMMA EntryFacts ==
    ASSUME Tables, NEW i \in Primary, NEW j \in Low
    PROVE  /\ EntryAt(tbl, sec, i, j) \in [ix : Nat, plen : Nat]
           /\ tbl[i].sec => EntryAt(tbl, sec, i, j) = sec[tbl[i].ix][j]
           /\ ~tbl[i].sec => EntryAt(tbl, sec, i, j) = [ix |-> tbl[i].ix, plen |-> tbl[i].plen]
           /\ tbl[i] \in [sec : BOOLEAN, ix : Nat, plen : Nat]
           /\ tbl[i].sec => tbl[i].ix \in DOMAIN sec /\ sec[tbl[i].ix] \in LowTable
           /\ \E q \in DOMAIN rtable :
                 /\ q \in AllPrefixes /\ Longest(rtable, q, At(i, j))
                 /\ EntryAt(tbl, sec, i, j).ix = rtable[q] /\ EntryAt(tbl, sec, i, j).plen = q.len
           /\ \A r \in DOMAIN rtable : Holds(r, At(i, j)) => r.len <= EntryAt(tbl, sec, i, j).plen
<1>1. tbl[i] \in [sec : BOOLEAN, ix : Nat, plen : Nat]
  BY DEF Tables, TablesFit
<1>2. tbl[i].sec => tbl[i].ix \in DOMAIN sec /\ sec[tbl[i].ix] \in LowTable
  BY DEF Tables, TablesFit
<1>3. EntryAt(tbl, sec, i, j) \in [ix : Nat, plen : Nat]
  BY <1>1, <1>2 DEF EntryAt, LowTable
<1>4. Leading(rtable, EntryAt(tbl, sec, i, j), At(i, j))
  BY DEF Tables, TablesLead
<1>5. PICK q \in DOMAIN rtable : /\ Longest(rtable, q, At(i, j))
                                 /\ EntryAt(tbl, sec, i, j).ix = rtable[q] /\ EntryAt(tbl, sec, i, j).plen = q.len
  BY <1>4, Zenon DEF Leading
<1>6. q \in AllPrefixes
  BY DEF Tables, RoutesFit
<1>7. \A r \in DOMAIN rtable : Holds(r, At(i, j)) => r.len <= EntryAt(tbl, sec, i, j).plen
  BY <1>5, Zenon DEF Longest
<1> QED  BY <1>1, <1>2, <1>3, <1>5, <1>6, <1>7 DEF EntryAt

\* A loop that leaves out the block of a longer prefix in a secondary table stays
\* in the table, and passes over entries that are as long at least.
LEMMA BlockOfSec ==
    ASSUME Tables, NEW i \in Primary, NEW j \in Low, EntryAt(tbl, sec, i, j).plen > PBits
    PROVE  LET end == BlockEnd(j, 2^(W - EntryAt(tbl, sec, i, j).plen))
           IN  /\ end \in Low /\ j <= end
               /\ \A k \in Low : j <= k /\ k <= end => EntryAt(tbl, sec, i, k).plen >= EntryAt(tbl, sec, i, j).plen
<1> DEFINE e == EntryAt(tbl, sec, i, j)
           end == BlockEnd(j, 2^(W - e.plen))
<1>1. PICK q \in DOMAIN rtable : q \in AllPrefixes /\ Longest(rtable, q, At(i, j)) /\ e.plen = q.len
  BY EntryFacts
<1>2. i = Start(q) /\ j \in SecSpan(q)
  BY <1>1, LongSpan DEF Longest
<1>3. PICK f \in Low : /\ SecSpan(q) = f .. f + 2^(W - q.len) - 1
                       /\ \A k \in SecSpan(q) : BlockEnd(k, 2^(W - q.len)) = f + 2^(W - q.len) - 1
  BY <1>1, LongSpan
<1>4. SecSpan(q) \subseteq Low /\ 2^(W - q.len) \in Nat \ {0}
  BY <1>1, LongSpan
<1>5. end = f + 2^(W - q.len) - 1
  BY <1>1, <1>2, <1>3, Zenon
<1> HIDE DEF e, end
<1>6. Low \subseteq Nat
  BY Sizes
<1>7. end \in SecSpan(q) /\ j <= end /\ \A k \in Low : j <= k /\ k <= end => k \in SecSpan(q)
  <2> DEFINE b == 2^(W - q.len)
  <2> HIDE DEF b
  <2>1. SecSpan(q) = f .. f + b - 1 /\ b \in Nat \ {0} /\ end = f + b - 1
    BY <1>3, <1>4, <1>5 DEF b
  <2> QED  BY <1>2, <1>6, <2>1
<1>8. ASSUME NEW k \in Low, j <= k, k <= end
      PROVE  EntryAt(tbl, sec, i, k).plen >= e.plen
  <2>1. Holds(q, At(i, k))
    BY <1>1, <1>2, <1>7, <1>8, LongSpan DEF e
  <2>2. q.len <= EntryAt(tbl, sec, i, k).plen
    BY <2>1, EntryFacts
  <2>3. EntryAt(tbl, sec, i, k).plen \in Nat /\ e.plen \in Nat
    BY EntryFacts DEF e
  <2> QED  BY <1>1, <2>2, <2>3
<1> QED  BY <1>4, <1>7, <1>8 DEF e, end

\* The same of the primary table.
LEMMA BlockOfPrimary ==
    ASSUME Tables, NEW i \in Primary, NEW j \in Low, EntryAt(tbl, sec, i, j).plen <= PBits
    PROVE  LET end == BlockEnd(i, 2^(PBits - EntryAt(tbl, sec, i, j).plen))
           IN  /\ end \in Primary /\ i <= end
               /\ \A k \in Primary, l \in Low :
                     i <= k /\ k <= end => EntryAt(tbl, sec, k, l).plen >= EntryAt(tbl, sec, i, j).plen
<1> DEFINE e == EntryAt(tbl, sec, i, j)
           end == BlockEnd(i, 2^(PBits - e.plen))
<1>1. PICK q \in DOMAIN rtable : q \in AllPrefixes /\ Longest(rtable, q, At(i, j)) /\ e.plen = q.len
  BY EntryFacts
<1>2. i \in Span(q)
  BY <1>1, ShortSpan DEF Longest
<1>3. /\ Span(q) = Start(q) .. Start(q) + 2^(PBits - q.len) - 1 /\ Start(q) \in Nat
      /\ \A k \in Span(q) : BlockEnd(k, 2^(PBits - q.len)) = Start(q) + 2^(PBits - q.len) - 1
      /\ Span(q) \subseteq Primary /\ 2^(PBits - q.len) \in Nat \ {0}
  BY <1>1, ShortSpan
<1>5. end = Start(q) + 2^(PBits - q.len) - 1
  BY <1>1, <1>2, <1>3, Zenon
<1> HIDE DEF e, end
<1>6. Primary \subseteq Nat
  BY Sizes
<1>7. end \in Span(q) /\ i <= end /\ \A k \in Primary : i <= k /\ k <= end => k \in Span(q)
  <2> DEFINE b == 2^(PBits - q.len)
             s == Start(q)
  <2> HIDE DEF b, s
  <2>1. Span(q) = s .. s + b - 1 /\ s \in Nat /\ b \in Nat \ {0} /\ end = s + b - 1
    BY <1>3, <1>5 DEF b, s
  <2> QED  BY <1>2, <1>6, <2>1
<1>8. ASSUME NEW k \in Primary, NEW l \in Low, i <= k, k <= end
      PROVE  EntryAt(tbl, sec, k, l).plen >= e.plen
  <2>1. Holds(q, At(k, l))
    BY <1>1, <1>7, <1>8, ShortSpan DEF e
  <2>2. q.len <= EntryAt(tbl, sec, k, l).plen
    BY <2>1, EntryFacts
  <2>3. EntryAt(tbl, sec, k, l).plen \in Nat /\ e.plen \in Nat
    BY EntryFacts DEF e
  <2> QED  BY <1>1, <2>2, <2>3
<1> QED  BY <1>3, <1>7, <1>8 DEF e, end

\* What add_route and remove_route ask of the loops.
Asks(op, p) == /\ p \in AllPrefixes /\ op \in {"add", "set", "remove"}
               /\ op = "add" => p \notin DOMAIN rtable
               /\ op = "remove" => p \in DOMAIN rtable

\* What the loops go over, the prefix holds; an entry there is no shorter than a
\* route that holds it.
LEMMA SpanHolds ==
    ASSUME NEW p \in AllPrefixes
    PROVE  /\ Span(p) \subseteq Primary /\ SecSpan(p) \subseteq Low /\ SecSpan(p) # {} /\ Start(p) \in Span(p)
           /\ p.len \in Nat /\ PBits \in Nat
           /\ \A i \in Span(p) : Start(p) <= i
           /\ \A i \in Primary, j \in Low : Holds(p, At(i, j)) <=> i \in Span(p) /\ j \in SecSpan(p)
           /\ \A k, l \in Span(p) : \A m \in Nat : k <= m /\ m <= l => m \in Span(p)
           /\ \A k, l \in SecSpan(p) : \A m \in Nat : k <= m /\ m <= l => m \in SecSpan(p)
<1>1. p.len \in Nat /\ PBits \in Nat
  <2>1. p.len \in 0 .. W /\ W \in Nat
    BY HoldsBlock, Sizes
  <2> QED  BY <2>1, Sizes
<1>2. Low = 0 .. Size - 1 /\ Size \in Nat \ {0} /\ Primary \subseteq Nat
  BY Sizes
<1>3. CASE p.len <= PBits
  <2> DEFINE b == 2^(PBits - p.len)
             s == Start(p)
  <2>1. /\ Span(p) = s .. s + b - 1 /\ s \in Nat /\ b \in Nat \ {0}
        /\ Span(p) \subseteq Primary /\ SecSpan(p) = Low
        /\ \A i \in Primary, j \in Low : Holds(p, At(i, j)) <=> i \in Span(p)
    BY <1>3, ShortSpan
  <2> HIDE DEF b, s
  <2>2. s \in Span(p) /\ \A i \in Span(p) : s <= i
    BY <2>1
  <2> QED  BY <1>1, <1>2, <2>1, <2>2, SMTT(30) DEF s
<1>4. CASE PBits < p.len
  <2>1. PICK f \in Low : SecSpan(p) = f .. f + 2^(W - p.len) - 1
    BY <1>4, LongSpan
  <2> DEFINE b == 2^(W - p.len)
             s == Start(p)
  <2>2. /\ b \in Nat \ {0} /\ SecSpan(p) = f .. f + b - 1
        /\ Span(p) = {s} /\ s \in Primary /\ SecSpan(p) \subseteq Low /\ SecSpan(p) # {}
        /\ \A i \in Primary, j \in Low : Holds(p, At(i, j)) <=> i = s /\ j \in SecSpan(p)
    BY <1>4, <2>1, LongSpan
  <2> HIDE DEF b, s
  <2>3. f \in Nat /\ s \in Nat
    BY <1>2, <2>2
  <2> QED  BY <1>1, <1>2, <2>2, <2>3 DEF s
<1> QED  BY <1>1, <1>3, <1>4

\* A command for a prefix that is absent, or present, meets no contradiction.
LEMMA NoBug ==
    ASSUME Tables, NEW op, NEW p, Asks(op, p), NEW i \in Span(p), NEW j \in SecSpan(p)
    PROVE  /\ ~Bug(op, p, EntryAt(tbl, sec, i, j))
           /\ op = "add" => EntryAt(tbl, sec, i, j).plen # p.len
           /\ op = "remove" => EntryAt(tbl, sec, i, j).plen >= p.len
<1>1. p \in AllPrefixes /\ i \in Primary /\ j \in Low /\ Holds(p, At(i, j)) /\ p.len \in Nat
  BY SpanHolds DEF Asks
<1> DEFINE e == EntryAt(tbl, sec, i, j)
<1>2. e.plen \in Nat
  BY <1>1, EntryFacts
<1>3. op = "remove" => e.plen >= p.len
  BY <1>1, <1>2, EntryFacts DEF Asks
<1>4. op = "add" => e.plen # p.len
  <2> SUFFICES ASSUME op = "add", e.plen = p.len
               PROVE  FALSE
    OBVIOUS
  <2>1. PICK q \in DOMAIN rtable : q \in AllPrefixes /\ Longest(rtable, q, At(i, j)) /\ e.plen = q.len
    BY <1>1, EntryFacts
  <2>2. Holds(q, At(i, j)) /\ At(i, j) \in Addr
    BY <1>1, <2>1, AtIs DEF Longest
  <2>3. q.len \in 0 .. W /\ p.len \in 0 .. W /\ q = [addr |-> q.addr, len |-> q.len] /\ p = [addr |-> p.addr, len |-> p.len]
    BY <1>1, <2>1, HoldsBlock
  <2>4. q.len = p.len /\ p.len <= q.len
    BY <1>1, <2>1
  <2>5. p.addr = q.addr
    BY <1>1, <2>2, <2>3, <2>4, HoldBoth
  <2>6. p = q
    BY <2>3, <2>4, <2>5
  <2> QED  BY <2>6 DEF Asks
<1> HIDE DEF e
<1> QED  BY <1>1, <1>2, <1>3, <1>4 DEF Bug, Asks, e

\* The inner loop visits every entry that it may have to write.
LEMMA SecWalkIs ==
    ASSUME Tables, NEW op, NEW p, Asks(op, p), NEW i \in Span(p), tbl[i].sec
    PROVE  /\ SecWalk(op, p, tbl[i].ix) \subseteq SecSpan(p)
           /\ \A j \in SecSpan(p) \ SecWalk(op, p, tbl[i].ix) : EntryAt(tbl, sec, i, j).plen > p.len
<1> DEFINE s == tbl[i].ix
           span == SecSpan(p)
           e(j) == sec[s][j]
           next == [j \in span |->
               IF Bug(op, p, e(j)) \/ Breaks(op, p, e(j)) THEN Past
               ELSE IF p.len < e(j).plen THEN BlockEnd(j, 2^(W - e(j).plen)) + 1 ELSE j + 1]
<1>1. SecWalk(op, p, s) = Walk(span, next)
  BY DEF SecWalk
<1>2. /\ p \in AllPrefixes /\ i \in Primary /\ span \subseteq Low /\ span # {} /\ p.len \in Nat /\ PBits \in Nat
      /\ \A k, l \in span : \A m \in Nat : k <= m /\ m <= l => m \in span
  BY SpanHolds DEF Asks
<1>3. Low = 0 .. Size - 1 /\ Size - 1 \in Nat /\ Low \subseteq Nat
  BY Sizes
<1>4. \A j \in span : e(j) = EntryAt(tbl, sec, i, j) /\ e(j).plen \in Nat /\ ~Bug(op, p, e(j))
  BY <1>2, EntryFacts, NoBug
<1>5. Past \in Nat /\ \A j \in Low : j < Past
  <2>1. Past = 2^PBits * Size /\ Size \in Nat \ {0} /\ 2^PBits \in Nat \ {0}
    BY Sizes DEF Past
  <2>2. 1 * Size <= 2^PBits * Size
    BY <2>1, Times
  <2> QED  BY <1>3, <2>1, <2>2
<1>6. ASSUME NEW j \in span, ~Breaks(op, p, e(j)), p.len < e(j).plen
      PROVE  /\ BlockEnd(j, 2^(W - e(j).plen)) \in Low /\ j <= BlockEnd(j, 2^(W - e(j).plen))
             /\ next[j] = BlockEnd(j, 2^(W - e(j).plen)) + 1
             /\ \A k \in Low : j <= k /\ k <= BlockEnd(j, 2^(W - e(j).plen)) => EntryAt(tbl, sec, i, k).plen >= e(j).plen
  <2>1. e(j).plen > PBits
    BY <1>2, <1>4, <1>6 DEF Breaks
  <2>2. EntryAt(tbl, sec, i, j).plen > PBits /\ j \in Low
    BY <1>2, <1>4, <2>1
  <2>3. LET end == BlockEnd(j, 2^(W - EntryAt(tbl, sec, i, j).plen))
           IN  /\ end \in Low /\ j <= end
               /\ \A k \in Low : j <= k /\ k <= end => EntryAt(tbl, sec, i, k).plen >= EntryAt(tbl, sec, i, j).plen
    BY <1>2, <2>2, BlockOfSec
  <2>4. next[j] = BlockEnd(j, 2^(W - e(j).plen)) + 1
    BY <1>4, <1>6
  <2>5. e(j) = EntryAt(tbl, sec, i, j)
    BY <1>4
  <2> HIDE DEF e, next
  <2> QED  BY <2>3, <2>4, <2>5
<1>7. ASSUME NEW j \in span, Breaks(op, p, e(j))
      PROVE  /\ next[j] = Past
             /\ \A k \in Low : EntryAt(tbl, sec, i, k).plen > p.len
  <2>1. e(j).plen <= PBits /\ p.len < e(j).plen
    BY <1>7 DEF Breaks
  <2>2. e(j) = EntryAt(tbl, sec, i, j) /\ e(j).plen \in Nat
    BY <1>4
  <2> HIDE DEF e
  <2>3. EntryAt(tbl, sec, i, j).plen <= PBits /\ j \in Low
    BY <1>2, <2>1, <2>2
  <2>4. \A k \in Low : EntryAt(tbl, sec, i, k).plen >= EntryAt(tbl, sec, i, j).plen
    <3>1. i <= i
      BY <1>2, Sizes
    <3>2. i <= BlockEnd(i, 2^(PBits - EntryAt(tbl, sec, i, j).plen))
      BY <1>2, <2>3, BlockOfPrimary
    <3> QED  BY <1>2, <2>3, <3>1, <3>2, BlockOfPrimary
  <2>5. \A k \in Low : EntryAt(tbl, sec, i, k).plen \in Nat
    BY <1>2, EntryFacts
  <2>6. \A k \in Low : EntryAt(tbl, sec, i, k).plen > p.len
    BY <1>2, <2>1, <2>2, <2>4, <2>5
  <2> QED  BY <1>7, <2>6 DEF e
<1>8. ASSUME NEW j \in span, ~Breaks(op, p, e(j)), ~(p.len < e(j).plen)
      PROVE  next[j] = j + 1
  BY <1>4, <1>8
<1> HIDE DEF e, next, span
<1>9. \A j \in span : next[j] \in Nat /\ next[j] > j
  <2>1. \A j \in span : j \in Low /\ j \in Nat
    BY <1>2, <1>3
  <2> QED  BY <1>3, <1>5, <1>6, <1>7, <1>8, <2>1
<1>10. \A k, l \in span : \A m \in 0 .. Size - 1 : k <= m /\ m <= l => m \in span
  BY <1>2, <1>3
<1>11. span \in SUBSET (0 .. Size - 1)
  BY <1>2, <1>3
<1>12. /\ Walk(span, next) \subseteq span
       /\ \A k \in span \ Walk(span, next) :
             \E m \in Walk(span, next) : m < k /\ k < next[m]
  BY <1>2, <1>3, <1>9, <1>10, <1>11, WalkIs, Zenon
<1>13. ASSUME NEW k \in span \ Walk(span, next)
       PROVE  EntryAt(tbl, sec, i, k).plen > p.len
  <2>1. PICK m \in Walk(span, next) : m < k /\ k < next[m]
    BY <1>12
  <2>2. m \in span /\ m \in Nat /\ k \in Low /\ k \in Nat
    BY <1>2, <1>3, <1>12
  <2>3. CASE Breaks(op, p, e(m))
    BY <1>7, <2>2, <2>3
  <2>4. CASE ~Breaks(op, p, e(m)) /\ p.len < e(m).plen
    <3>1. /\ BlockEnd(m, 2^(W - e(m).plen)) \in Low /\ next[m] = BlockEnd(m, 2^(W - e(m).plen)) + 1
          /\ \A l \in Low : m <= l /\ l <= BlockEnd(m, 2^(W - e(m).plen)) => EntryAt(tbl, sec, i, l).plen >= e(m).plen
      BY <1>6, <2>2, <2>4
    <3> DEFINE end == BlockEnd(m, 2^(W - e(m).plen))
    <3>2. end \in Nat /\ k < end + 1 /\ \A l \in Low : m <= l /\ l <= end => EntryAt(tbl, sec, i, l).plen >= e(m).plen
      BY <1>3, <2>1, <3>1
    <3> HIDE DEF end
    <3>3. EntryAt(tbl, sec, i, k).plen >= e(m).plen
      BY <2>1, <2>2, <3>2
    <3>4. EntryAt(tbl, sec, i, k).plen \in Nat /\ e(m).plen \in Nat
      BY <1>2, <1>4, <2>2, EntryFacts
    <3> QED  BY <1>2, <2>4, <3>3, <3>4
  <2>5. CASE ~Breaks(op, p, e(m)) /\ ~(p.len < e(m).plen)
    <3>1. next[m] = m + 1
      BY <1>8, <2>2, <2>5
    <3> QED  BY <2>1, <2>2, <3>1
  <2> QED  BY <2>3, <2>4, <2>5
<1> QED  BY <1>1, <1>12, <1>13 DEF span

\* Where the outer loop goes on, only longer prefixes were passed over.
LEMMA SkipIs ==
    ASSUME Tables, NEW i \in Primary, NEW j \in Low, EntryAt(tbl, sec, i, j).plen <= PBits
    PROVE  LET n == EntryAt(tbl, sec, i, j).plen
           IN  /\ SkipTo(i, n) \in Primary /\ i <= SkipTo(i, n)
               /\ \A k \in Primary, l \in Low : i < k /\ k <= SkipTo(i, n) => EntryAt(tbl, sec, k, l).plen >= n
<1> DEFINE n == EntryAt(tbl, sec, i, j).plen
<1>1. i \in Nat /\ Primary \subseteq Nat /\ PBits \in Nat
  BY Sizes
<1>2. CASE n >= PBits
  <2>1. SkipTo(i, n) = i
    BY <1>2 DEF SkipTo
  <2> HIDE DEF n
  <2>2. \A k \in Primary : ~(i < k /\ k <= i)
    BY <1>1
  <2> QED  BY <1>1, <2>1, <2>2 DEF n
<1>3. CASE ~(n >= PBits)
  <2> DEFINE end == BlockEnd(i, 2^(PBits - n))
  <2>1. SkipTo(i, n) = end
    BY <1>3 DEF SkipTo
  <2>2. end \in Primary /\ i <= end /\ \A k \in Primary, l \in Low : i <= k /\ k <= end => EntryAt(tbl, sec, k, l).plen >= n
    BY BlockOfPrimary
  <2> HIDE DEF n, end
  <2>3. \A k \in Primary : i < k => i <= k
    BY <1>1
  <2> QED  BY <2>1, <2>2, <2>3 DEF n
<1> QED  BY <1>2, <1>3

\* So it does after an entry of either kind.
LEMMA LastIs ==
    ASSUME Tables, NEW op, NEW p, Asks(op, p), NEW i \in Span(p)
    PROVE  /\ Last(op, p, i) \in Primary /\ i <= Last(op, p, i)
           /\ ~Stops(op, p, i)
           /\ \A k \in Primary, l \in Low : i < k /\ k <= Last(op, p, i) => EntryAt(tbl, sec, k, l).plen > p.len
<1>1. /\ p \in AllPrefixes /\ i \in Primary /\ SecSpan(p) \subseteq Low /\ SecSpan(p) # {}
      /\ p.len \in Nat /\ PBits \in Nat
  BY SpanHolds DEF Asks
<1>2. i \in Nat /\ Primary \subseteq Nat
  BY <1>1, Sizes
<1>3. \A k \in Primary, l \in Low : EntryAt(tbl, sec, k, l).plen \in Nat
  BY EntryFacts
<1>4. ~Stops(op, p, i)
  <2>1. CASE tbl[i].sec
    <3>1. SecWalk(op, p, tbl[i].ix) \subseteq SecSpan(p)
      BY <2>1, SecWalkIs
    <3>2. \A j \in SecSpan(p) : EntryAt(tbl, sec, i, j) = sec[tbl[i].ix][j]
      BY <2>1 DEF EntryAt
    <3>3. \A j \in SecSpan(p) : ~Bug(op, p, EntryAt(tbl, sec, i, j))
      BY NoBug
    <3> QED  BY <2>1, <3>1, <3>2, <3>3 DEF Stops
  <2>2. CASE ~tbl[i].sec
    <3>1. PICK j \in SecSpan(p) : TRUE
      BY <1>1
    <3>2. op = "add" => EntryAt(tbl, sec, i, j).plen # p.len
      BY NoBug
    <3>3. EntryAt(tbl, sec, i, j).plen = tbl[i].plen
      BY <2>2 DEF EntryAt
    <3> QED  BY <2>2, <3>2, <3>3 DEF Stops, PrimaryBug
  <2> QED  BY <2>1, <2>2
<1>5. CASE Last(op, p, i) = i
  <2>1. \A k \in Primary : ~(i < k /\ k <= i)
    BY <1>2
  <2> QED  BY <1>1, <1>2, <1>4, <1>5, <2>1
<1>6. ASSUME NEW j \in Low, NEW n \in Nat, n = EntryAt(tbl, sec, i, j).plen, n <= PBits, p.len < n,
             Last(op, p, i) = SkipTo(i, n)
      PROVE  /\ Last(op, p, i) \in Primary /\ i <= Last(op, p, i)
             /\ \A k \in Primary, l \in Low : i < k /\ k <= Last(op, p, i) => EntryAt(tbl, sec, k, l).plen > p.len
  <2>1. /\ SkipTo(i, n) \in Primary /\ i <= SkipTo(i, n)
        /\ \A k \in Primary, l \in Low : i < k /\ k <= SkipTo(i, n) => EntryAt(tbl, sec, k, l).plen >= n
    BY <1>1, <1>6, SkipIs
  <2> QED  BY <1>1, <1>3, <1>6, <2>1
<1>7. CASE tbl[i].sec
  <2> DEFINE e == tbl[i]
             breaks == {sec[e.ix][j].plen : j \in {j \in SecWalk(op, p, e.ix) : Breaks(op, p, sec[e.ix][j])}}
             n == CHOOSE n \in breaks : TRUE
  <2>1. Last(op, p, i) = IF breaks = {} THEN i ELSE SkipTo(i, n)
    BY <1>7 DEF Last
  <2>2. CASE breaks # {}
    <3>1. n \in breaks
      BY <2>2
    <3> HIDE DEF n
    <3>2. PICK j \in SecWalk(op, p, e.ix) : Breaks(op, p, sec[e.ix][j]) /\ n = sec[e.ix][j].plen
      BY <3>1
    <3>3. j \in Low
      BY <1>1, <1>7, SecWalkIs
    <3>4. EntryAt(tbl, sec, i, j) = sec[e.ix][j]
      BY <1>7 DEF EntryAt
    <3>5. n \in Nat /\ n = EntryAt(tbl, sec, i, j).plen /\ n <= PBits /\ p.len < n
      BY <1>1, <1>3, <3>2, <3>3, <3>4 DEF Breaks
    <3>6. Last(op, p, i) = SkipTo(i, n)
      BY <2>1, <2>2
    <3> QED  BY <1>4, <1>6, <3>3, <3>5, <3>6
  <2> QED  BY <1>5, <2>1, <2>2, Zenon
<1>8. CASE ~tbl[i].sec
  <2>1. PICK j \in Low : TRUE
    BY <1>1
  <2>2. EntryAt(tbl, sec, i, j).plen = tbl[i].plen
    BY <1>8 DEF EntryAt
  <2>3. tbl[i].plen <= PBits
    BY <1>1, <1>8 DEF Tables, TablesLead
  <2>4. Last(op, p, i) = IF p.len < tbl[i].plen THEN SkipTo(i, tbl[i].plen) ELSE i
    BY <1>8 DEF Last
  <2> QED  BY <1>3, <1>1, <1>4, <1>5, <1>6, <2>1, <2>2, <2>3, <2>4
<1> QED  BY <1>7, <1>8

\* The outer loop ends at no contradiction, and what it leaves out is longer.
LEMMA PrimaryWalkIs ==
    ASSUME Tables, NEW op, NEW p, Asks(op, p)
    PROVE  /\ PrimaryWalk(op, p) \subseteq Span(p) /\ Start(p) \in PrimaryWalk(op, p)
           /\ ~Stopped(op, p)
           /\ \A i \in Span(p) \ PrimaryWalk(op, p), l \in Low : EntryAt(tbl, sec, i, l).plen > p.len
<1> DEFINE span == Span(p)
           last(i) == Last(op, p, i)
           next == [i \in Span(p) |-> IF Stops(op, p, i) THEN Past ELSE Last(op, p, i) + 1]
<1>1. PrimaryWalk(op, p) = Walk(span, next)
  BY DEF PrimaryWalk
<1>2. /\ p \in AllPrefixes /\ span \subseteq Primary /\ Start(p) \in span /\ \A i \in span : Start(p) <= i
      /\ \A k, l \in span : \A m \in Nat : k <= m /\ m <= l => m \in span
  BY SpanHolds DEF Asks
<1>3. Primary = 0 .. 2^PBits - 1 /\ 2^PBits - 1 \in Nat /\ Primary \subseteq Nat
  BY Sizes
<1>4. \A i \in span : /\ last(i) \in Primary /\ i <= last(i) /\ ~Stops(op, p, i)
                      /\ \A k \in Primary, l \in Low : i < k /\ k <= last(i) => EntryAt(tbl, sec, k, l).plen > p.len
  BY LastIs
<1>5. \A i \in span : next[i] = last(i) + 1
  BY <1>4
<1> HIDE DEF span, next, last
<1>6. \A i \in span : next[i] \in Nat /\ next[i] > i
  BY <1>2, <1>3, <1>4, <1>5
<1> DEFINE N == 2^PBits - 1
<1>7. N \in Nat /\ span \in SUBSET (0 .. N) /\ Primary = 0 .. N
  BY <1>2, <1>3
<1> HIDE DEF N
<1>8. \A k, l \in span : \A m \in 0 .. N : k <= m /\ m <= l => m \in span
  BY <1>2, <1>7
<1>9. span # {}
  BY <1>2
<1>10. /\ Walk(span, next) \subseteq span
       /\ \A k \in span : (\A m \in span : k <= m) => k \in Walk(span, next)
       /\ \A k \in span \ Walk(span, next) :
             \E m \in Walk(span, next) : m < k /\ k < next[m]
  BY <1>6, <1>7, <1>8, <1>9, WalkIs, Zenon
<1>11. ASSUME NEW k \in span \ Walk(span, next), NEW l \in Low
       PROVE  EntryAt(tbl, sec, k, l).plen > p.len
  <2>1. PICK m \in Walk(span, next) : m < k /\ k < next[m]
    BY <1>10
  <2>2. m \in span /\ k \in Primary /\ k \in Nat /\ last(m) \in Nat
    BY <1>2, <1>3, <1>4, <1>10
  <2>3. k <= last(m)
    BY <1>5, <2>1, <2>2
  <2> QED  BY <1>4, <2>1, <2>2, <2>3
<1>12. \A i \in Walk(span, next) : ~Stops(op, p, i)
  BY <1>4, <1>10
<1> QED  BY <1>1, <1>2, <1>10, <1>11, <1>12 DEF Stopped, span

\* An entry of a longer prefix is no hit.
LEMMA NoHit ==
    ASSUME Tables, NEW op, NEW p, Asks(op, p), NEW e, e.plen \in Nat, e.plen > p.len
    PROVE  ~Hit(op, p, e)
<1>1. p.len \in Nat
  BY SpanHolds DEF Asks
<1> QED  BY <1>1 DEF Hit

\* After the loops exactly the hits within the prefix lead to the new entry.
LEMMA WrittenIs ==
    ASSUME Tables, NEW op, NEW p, Asks(op, p), NEW new \in [ix : Nat, plen : Nat],
           p.len > PBits => tbl[Start(p)].sec
    PROVE  LET tb == WrittenPrimary(op, p, new)
               sc == Written(op, p, new)
           IN  /\ tb \in [Primary -> [sec : BOOLEAN, ix : Nat, plen : Nat]]
               /\ sc \in Seq(LowTable) /\ DOMAIN sc = DOMAIN sec /\ Len(sc) = Len(sec)
               /\ \A i \in Primary : tb[i].sec = tbl[i].sec /\ (tbl[i].sec => tb[i] = tbl[i])
               /\ \A i \in Primary, j \in Low :
                     EntryAt(tb, sc, i, j) = IF Holds(p, At(i, j)) /\ Hit(op, p, EntryAt(tbl, sec, i, j))
                                               THEN new ELSE EntryAt(tbl, sec, i, j)
<1> DEFINE tb == WrittenPrimary(op, p, new)
           sc == Written(op, p, new)
           walk == PrimaryWalk(op, p)
<1>1. /\ walk \subseteq Span(p)
      /\ \A i \in Span(p) \ walk, l \in Low : EntryAt(tbl, sec, i, l).plen > p.len
  BY PrimaryWalkIs
<1>2. /\ p \in AllPrefixes /\ Span(p) \subseteq Primary /\ SecSpan(p) \subseteq Low
      /\ \A i \in Primary, j \in Low : Holds(p, At(i, j)) <=> i \in Span(p) /\ j \in SecSpan(p)
  BY SpanHolds DEF Asks
<1>3. new = [ix |-> new.ix, plen |-> new.plen] /\ new.ix \in Nat /\ new.plen \in Nat
  OBVIOUS
<1>4. \A i \in Primary : tb[i] = IF i \in PrimaryHits(op, p) THEN [sec |-> FALSE, ix |-> new.ix, plen |-> new.plen] ELSE tbl[i]
  BY DEF WrittenPrimary
<1>5. \A i \in Primary : tbl[i].sec => i \notin PrimaryHits(op, p)
  BY DEF PrimaryHits
<1>6. \A i \in Primary : i \in PrimaryHits(op, p) => ~tbl[i].sec
  BY DEF PrimaryHits
<1>7. \A i \in Primary : tbl[i] \in [sec : BOOLEAN, ix : Nat, plen : Nat]
  BY DEF Tables, TablesFit
<1>8. \A i \in Primary : tb[i].sec = tbl[i].sec /\ (tbl[i].sec => tb[i] = tbl[i])
  <2> SUFFICES ASSUME NEW i \in Primary
               PROVE  tb[i].sec = tbl[i].sec /\ (tbl[i].sec => tb[i] = tbl[i])
    OBVIOUS
  <2> HIDE DEF tb
  <2>1. CASE i \in PrimaryHits(op, p)
    <3>1. ~tbl[i].sec /\ tbl[i].sec \in BOOLEAN
      BY <1>6, <1>7, <2>1
    <3>2. tb[i].sec = FALSE
      BY <1>4, <2>1
    <3> QED  BY <3>1, <3>2
  <2>2. CASE i \notin PrimaryHits(op, p)
    BY <1>4, <2>2
  <2> QED  BY <2>1, <2>2
<1>9. tb \in [Primary -> [sec : BOOLEAN, ix : Nat, plen : Nat]]
  <2>1. \A i \in Primary : tb[i] \in [sec : BOOLEAN, ix : Nat, plen : Nat]
    <3> HIDE DEF tb
    <3>1. [sec |-> FALSE, ix |-> new.ix, plen |-> new.plen] \in [sec : BOOLEAN, ix : Nat, plen : Nat]
      BY <1>3
    <3> DEFINE R == [sec : BOOLEAN, ix : Nat, plen : Nat]
               r == [sec |-> FALSE, ix |-> new.ix, plen |-> new.plen]
    <3>2. r \in R /\ \A i \in Primary : tbl[i] \in R /\ tb[i] = IF i \in PrimaryHits(op, p) THEN r ELSE tbl[i]
      BY <1>4, <1>7, <3>1
    <3> HIDE DEF R, r
    <3>3. \A i \in Primary : tb[i] \in R
      BY <3>2
    <3> QED  BY <3>3 DEF R
  <2>2. tb = [i \in Primary |-> IF i \in PrimaryHits(op, p) THEN [sec |-> FALSE, ix |-> new.ix, plen |-> new.plen] ELSE tbl[i]]
    BY DEF WrittenPrimary
  <2> HIDE DEF tb
  <2>3. tb = [i \in Primary |-> tb[i]]
    BY <2>2
  <2> QED  BY <2>1, <2>3
<1>10. sec \in Seq(LowTable)
  BY DEF Tables, TablesFit
<1>11. \A s \in DOMAIN sec : WrittenSec(op, p, s, new) \in LowTable
  <2> SUFFICES ASSUME NEW s \in DOMAIN sec
               PROVE  WrittenSec(op, p, s, new) \in LowTable
    OBVIOUS
  <2>1. sec[s] \in LowTable
    BY <1>10
  <2>2. \A j \in Low : sec[s][j] \in [ix : Nat, plen : Nat]
    BY <2>1 DEF LowTable
  <2> QED  BY <2>2 DEF WrittenSec, LowTable
<1>12. DOMAIN sc = DOMAIN sec /\ \A s \in DOMAIN sec : sc[s] = IF \E i \in walk : tbl[i].sec /\ tbl[i].ix = s
                                                               THEN WrittenSec(op, p, s, new) ELSE sec[s]
  BY DEF Written
<1>13. sc \in Seq(LowTable) /\ Len(sc) = Len(sec)
  <2>1. \A s \in DOMAIN sec : sc[s] \in LowTable
    <3> HIDE DEF sc, walk
    <3> QED  BY <1>10, <1>11, <1>12
  <2>2. sc = [s \in 1 .. Len(sec) |-> sc[s]] /\ Len(sec) \in Nat
    <3>1. DOMAIN sec = 1 .. Len(sec) /\ Len(sec) \in Nat
      BY <1>10
    <3>2. sc = [s \in DOMAIN sec |-> sc[s]]
      BY DEF Written
    <3> QED  BY <3>1, <3>2
  <2>3. DOMAIN sec = 1 .. Len(sec)
    BY <1>10
  <2> DEFINE n == Len(sec)
  <2> HIDE DEF n
  <2>4. n \in Nat /\ sc = [s \in 1 .. n |-> sc[s]] /\ \A s \in 1 .. n : sc[s] \in LowTable
    BY <2>1, <2>2, <2>3 DEF n
  <2> HIDE DEF sc
  <2>5. sc \in [1 .. n -> LowTable]
    BY <2>4
  <2>6. sc \in Seq(LowTable) /\ Len(sc) = n
    BY <2>4, <2>5
  <2> QED  BY <2>6 DEF n
<1> DEFINE old(i, j) == EntryAt(tbl, sec, i, j)
<1> HIDE DEF tb, sc, walk
<1>14. \A i \in Primary, j \in Low : old(i, j).plen \in Nat
  BY EntryFacts
<1>15. ASSUME NEW i \in Primary, NEW j \in Low, tbl[i].sec
       PROVE  EntryAt(tb, sc, i, j) = IF Holds(p, At(i, j)) /\ Hit(op, p, old(i, j)) THEN new ELSE old(i, j)
  <2>1. tbl[i].ix \in DOMAIN sec /\ \A k \in Primary : tbl[k].sec /\ tbl[k].ix = tbl[i].ix => i = k
    BY <1>15 DEF Tables, TablesFit
  <2>2. EntryAt(tb, sc, i, j) = sc[tbl[i].ix][j] /\ old(i, j) = sec[tbl[i].ix][j]
    BY <1>8, <1>15 DEF EntryAt
  <2>3. CASE i \in walk
    <3>1. EntryAt(tb, sc, i, j) = WrittenSec(op, p, tbl[i].ix, new)[j]
      BY <1>12, <1>15, <2>1, <2>2, <2>3
    <3>2. EntryAt(tb, sc, i, j) = IF /\ j \in SecWalk(op, p, tbl[i].ix)
                                     /\ ~Bug(op, p, old(i, j)) /\ Hit(op, p, old(i, j)) THEN new ELSE old(i, j)
      BY <2>2, <3>1 DEF WrittenSec
    <3>3. /\ SecWalk(op, p, tbl[i].ix) \subseteq SecSpan(p)
          /\ \A k \in SecSpan(p) \ SecWalk(op, p, tbl[i].ix) : old(i, k).plen > p.len
      BY <1>1, <1>15, <2>3, SecWalkIs
    <3>4. j \in SecSpan(p) => ~Bug(op, p, old(i, j))
      BY <1>1, <2>3, NoBug
    <3>5. j \in SecSpan(p) /\ j \notin SecWalk(op, p, tbl[i].ix) => ~Hit(op, p, old(i, j))
      BY <1>14, <3>3, NoHit
    <3>6. Holds(p, At(i, j)) <=> j \in SecSpan(p)
      BY <1>1, <1>2, <2>3
    <3> HIDE DEF old
    <3> QED  BY <3>2, <3>3, <3>4, <3>5, <3>6
  <2>4. CASE i \notin walk
    <3>1. \A k \in walk : ~(tbl[k].sec /\ tbl[k].ix = tbl[i].ix)
      BY <1>1, <1>2, <1>15, <2>1, <2>4
    <3>2. EntryAt(tb, sc, i, j) = old(i, j)
      BY <1>12, <2>1, <2>2, <3>1
    <3>3. i \in Span(p) => ~Hit(op, p, old(i, j))
      BY <1>1, <1>14, <2>4, NoHit
    <3> HIDE DEF old
    <3> QED  BY <1>2, <3>2, <3>3
  <2> QED  BY <2>3, <2>4
<1>16. ASSUME NEW i \in Primary, NEW j \in Low, ~tbl[i].sec
       PROVE  EntryAt(tb, sc, i, j) = IF Holds(p, At(i, j)) /\ Hit(op, p, old(i, j)) THEN new ELSE old(i, j)
  <2>1. ~tb[i].sec
    BY <1>8, <1>16
  <2>2. EntryAt(tb, sc, i, j) = [ix |-> tb[i].ix, plen |-> tb[i].plen] /\ old(i, j) = [ix |-> tbl[i].ix, plen |-> tbl[i].plen]
    BY <1>16, <2>1 DEF EntryAt
  <2>3. EntryAt(tb, sc, i, j) = IF i \in PrimaryHits(op, p) THEN new ELSE old(i, j)
    <3> HIDE DEF old
    <3> QED  BY <1>3, <1>4, <2>2
  <2>4. old(i, j).plen = tbl[i].plen
    BY <2>2
  <2>5. Hit(op, p, tbl[i]) <=> Hit(op, p, old(i, j))
    BY <2>4 DEF Hit
  <2>6. CASE i \in walk
    <3>1. ~PrimaryBug(op, p, tbl[i])
      BY <1>1, <1>16, <2>6, LastIs DEF Stops
    <3>2. i \in PrimaryHits(op, p) <=> Hit(op, p, old(i, j))
      BY <1>16, <2>5, <2>6, <3>1 DEF PrimaryHits, walk
    <3>3. ~(p.len > PBits)
      <4> SUFFICES ASSUME p.len > PBits
                   PROVE  FALSE
        OBVIOUS
      <4>1. Span(p) = {Start(p)}
        BY <1>2, LongSpan
      <4> QED  BY <1>1, <1>16, <2>6, <4>1
    <3>4. p.len <= PBits
      BY <1>2, <3>3, SpanHolds
    <3>5. SecSpan(p) = Low
      BY <1>2, <3>4, ShortSpan
    <3>6. Holds(p, At(i, j))
      BY <1>1, <1>2, <2>6, <3>5
    <3> HIDE DEF old
    <3> QED  BY <2>3, <3>2, <3>6
  <2>7. CASE i \notin walk
    <3>1. i \notin PrimaryHits(op, p)
      BY <2>7 DEF PrimaryHits, walk
    <3>2. i \in Span(p) => ~Hit(op, p, old(i, j))
      BY <1>1, <1>14, <2>7, NoHit
    <3> HIDE DEF old
    <3> QED  BY <1>2, <2>3, <3>1, <3>2
  <2> QED  BY <2>6, <2>7
<1> QED  BY <1>8, <1>9, <1>12, <1>13, <1>15, <1>16 DEF tb, sc, old

\* The default route holds every address.
LEMMA DefaultHolds ==
    /\ Default \in AllPrefixes /\ Default.len = 0
    /\ \A a \in Addr : Holds(Default, a)
    /\ \A p \in AllPrefixes : Within(p, Default) /\ Holds(p, p.addr) /\ p.addr \in Addr /\ p.len \in Nat
<1>1. W \in Nat /\ 2^W \in Nat \ {0} /\ Addr = 0 .. 2^W - 1
  BY Sizes
<1>2. \A a \in Addr : Masked(a, 0) = 0
  <2> SUFFICES ASSUME NEW a \in Addr
               PROVE  Masked(a, 0) = 0
    OBVIOUS
  <2> DEFINE N == 2^W
  <2>1. N \in Nat \ {0} /\ a \in 0 .. N - 1 /\ W - 0 = W
    BY <1>1
  <2> HIDE DEF N
  <2>2. a \in Nat /\ 0 \in Nat /\ 0 * N <= a /\ a < (0 + 1) * N
    BY <2>1
  <2>3. a \div N = 0
    BY <2>1, <2>2, DivIs
  <2> QED  BY <2>1, <2>3 DEF Masked, N
<1>3. Default = [addr |-> 0, len |-> 0] /\ 0 \in Addr /\ 0 \in 0 .. W
  BY <1>1 DEF Default
<1>4. Default \in AllPrefixes
  BY <1>2, <1>3 DEF AllPrefixes
<1>5. \A a \in Addr : Holds(Default, a)
  BY <1>2, <1>3 DEF Holds
<1>6. ASSUME NEW p \in AllPrefixes
      PROVE  Within(p, Default) /\ Holds(p, p.addr) /\ p.addr \in Addr /\ p.len \in Nat
  <2>1. p.addr \in Addr /\ p.len \in 0 .. W /\ Masked(p.addr, p.len) = p.addr
    BY DEF AllPrefixes
  <2>2. p.len \in Nat /\ p.len >= 0
    BY <1>1, <2>1
  <2> QED  BY <1>3, <1>5, <2>1, <2>2 DEF Holds, Within
<1> QED  BY <1>3, <1>4, <1>5, <1>6

\* What a prefix holds, the one that it is within holds too.
LEMMA WithinHolds ==
    ASSUME NEW p \in AllPrefixes, NEW q \in AllPrefixes, Within(p, q), NEW a \in Addr, Holds(p, a)
    PROVE  Holds(q, a)
<1>1. /\ p.len \in 0 .. W /\ q.len \in 0 .. W /\ W \in Nat /\ a \in Nat
      /\ Masked(a, p.len) = p.addr /\ Masked(p.addr, q.len) = q.addr /\ q.len <= p.len
  BY Sizes, HoldsBlock DEF Within, Holds
<1>2. q.len \in 0 .. p.len
  BY <1>1
<1>3. Masked(Masked(a, p.len), q.len) = Masked(a, q.len)
  BY <1>1, <1>2, CutTwice
<1> QED  BY <1>1, <1>3 DEF Holds

\* The route that takes over what a removed one held.
LEMMA CoverIs ==
    ASSUME RoutesFit(rtable), NEW p \in DOMAIN rtable, p # Default
    PROVE  /\ Cover(p) \in DOMAIN rtable \ {p} /\ Within(p, Cover(p))
           /\ \A r \in DOMAIN rtable \ {p} : Within(p, r) => r.len <= Cover(p).len
<1> DEFINE C == {q \in DOMAIN rtable \ {p} : Within(p, q)}
           L == {q.len : q \in C}
<1>1. DOMAIN rtable \subseteq AllPrefixes /\ Default \in DOMAIN rtable
  BY DEF RoutesFit
<1>2. Default \in C
  BY <1>1, DefaultHolds
<1>3. \A q \in C : q.len \in 0 .. W
  BY <1>1, HoldsBlock
<1>4. L \in SUBSET (0 .. W) /\ L # {} /\ W \in Nat
  BY <1>2, <1>3, Sizes
<1> HIDE DEF L
<1>5. Max(L) \in L /\ \A m \in L : m <= Max(L)
  BY <1>4, MaxIs
<1>6. PICK q \in C : q.len = Max(L)
  BY <1>5 DEF L
<1>7. \A r \in C : r.len <= q.len
  BY <1>5, <1>6 DEF L
<1>8. \E c \in DOMAIN rtable \ {p} : /\ Within(p, c)
                                     /\ \A r \in DOMAIN rtable \ {p} : Within(p, r) => r.len <= c.len
  BY <1>6, <1>7
<1> QED  BY <1>8, Zenon DEF Cover

\* The longest route once p has been added or led elsewhere,
LEMMA AddLeads ==
    ASSUME Tables, NEW op, NEW p, Asks(op, p), NEW v, NEW rt, NEW i \in Primary, NEW j \in Low, NEW e,
           rt = [q \in DOMAIN rtable \cup {p} |-> IF q = p THEN v ELSE rtable[q]],
           e = IF Holds(p, At(i, j)) /\ EntryAt(tbl, sec, i, j).plen <= p.len
                 THEN [ix |-> v, plen |-> p.len] ELSE EntryAt(tbl, sec, i, j)
    PROVE  Leading(rt, e, At(i, j))
<1> DEFINE old == EntryAt(tbl, sec, i, j)
           a == At(i, j)
<1>1. /\ old.plen \in Nat /\ \A r \in DOMAIN rtable : Holds(r, a) => r.len <= old.plen
      /\ \E q \in DOMAIN rtable : /\ q \in AllPrefixes /\ Longest(rtable, q, a)
                                  /\ old.ix = rtable[q] /\ old.plen = q.len
  BY EntryFacts
<1>2. p \in AllPrefixes /\ p.len \in Nat
  BY DefaultHolds DEF Asks
<1>3. \A q \in DOMAIN rtable : q.len \in Nat
  BY DefaultHolds DEF Tables, RoutesFit
<1>4. e = IF Holds(p, a) /\ old.plen <= p.len THEN [ix |-> v, plen |-> p.len] ELSE old
  OBVIOUS
<1> HIDE DEF old, a
<1>5. CASE Holds(p, a) /\ old.plen <= p.len
  <2>1. \A r \in DOMAIN rt : Holds(r, a) => r.len <= p.len
    BY <1>1, <1>2, <1>3, <1>5
  <2>2. Longest(rt, p, a)
    BY <1>5, <2>1 DEF Longest
  <2>3. e.ix = rt[p] /\ e.plen = p.len /\ p \in DOMAIN rt
    BY <1>4, <1>5
  <2> QED  BY <2>2, <2>3 DEF Leading, a
<1>6. CASE ~(Holds(p, a) /\ old.plen <= p.len)
  <2>1. PICK q \in DOMAIN rtable : Longest(rtable, q, a) /\ old.ix = rtable[q] /\ old.plen = q.len
    BY <1>1
  <2>2. Holds(q, a) /\ \A r \in DOMAIN rtable : Holds(r, a) => r.len <= q.len
    BY <2>1 DEF Longest
  <2>3. q # p
    BY <1>2, <1>6, <2>1, <2>2
  <2>4. Holds(p, a) => p.len <= q.len
    BY <1>1, <1>2, <1>6, <2>1
  <2>5. Longest(rt, q, a)
    BY <2>2, <2>4 DEF Longest
  <2>6. e.ix = rt[q] /\ e.plen = q.len /\ q \in DOMAIN rt
    BY <1>4, <1>6, <2>1, <2>3
  <2> QED  BY <2>5, <2>6 DEF Leading, a
<1> QED  BY <1>5, <1>6

\* and once p has been removed.
LEMMA RemoveLeads ==
    ASSUME Tables, NEW p \in DOMAIN rtable, p # Default, NEW rt, NEW i \in Primary, NEW j \in Low, NEW e,
           rt = [q \in DOMAIN rtable \ {p} |-> rtable[q]],
           e = IF Holds(p, At(i, j)) /\ EntryAt(tbl, sec, i, j).plen = p.len
                 THEN [ix |-> rtable[Cover(p)], plen |-> Cover(p).len] ELSE EntryAt(tbl, sec, i, j)
    PROVE  Leading(rt, e, At(i, j))
<1> DEFINE old == EntryAt(tbl, sec, i, j)
           a == At(i, j)
           c == Cover(p)
<1>1. /\ old.plen \in Nat /\ \A r \in DOMAIN rtable : Holds(r, a) => r.len <= old.plen
      /\ \E q \in DOMAIN rtable : /\ q \in AllPrefixes /\ Longest(rtable, q, a)
                                  /\ old.ix = rtable[q] /\ old.plen = q.len
  BY EntryFacts
<1>2. /\ c \in DOMAIN rtable \ {p} /\ Within(p, c)
      /\ \A r \in DOMAIN rtable \ {p} : Within(p, r) => r.len <= c.len
  BY CoverIs DEF Tables
<1>3. \A q \in DOMAIN rtable : q \in AllPrefixes /\ q.len \in 0 .. W
  BY HoldsBlock DEF Tables, RoutesFit
<1>4. e = IF Holds(p, a) /\ old.plen = p.len THEN [ix |-> rtable[c], plen |-> c.len] ELSE old
  OBVIOUS
<1>5. a \in Addr
  BY AtIs
<1> HIDE DEF old, a, c
<1>6. CASE Holds(p, a) /\ old.plen = p.len
  <2>1. Holds(c, a)
    BY <1>2, <1>3, <1>5, <1>6, WithinHolds
  <2>2. \A r \in DOMAIN rt : Holds(r, a) => r.len <= c.len
    <3> SUFFICES ASSUME NEW r \in DOMAIN rtable \ {p}, Holds(r, a)
                 PROVE  r.len <= c.len
      OBVIOUS
    <3>1. r.len <= p.len
      BY <1>1, <1>6
    <3>2. Within(p, r)
      BY <1>3, <1>5, <1>6, <3>1, HoldBoth
    <3> QED  BY <1>2, <3>2
  <2>3. Longest(rt, c, a)
    BY <1>2, <2>1, <2>2 DEF Longest
  <2>4. e.ix = rt[c] /\ e.plen = c.len /\ c \in DOMAIN rt
    BY <1>2, <1>4, <1>6
  <2> QED  BY <2>3, <2>4 DEF Leading, a
<1>7. CASE ~(Holds(p, a) /\ old.plen = p.len)
  <2>1. PICK q \in DOMAIN rtable : Longest(rtable, q, a) /\ old.ix = rtable[q] /\ old.plen = q.len
    BY <1>1
  <2>2. Holds(q, a) /\ \A r \in DOMAIN rtable : Holds(r, a) => r.len <= q.len
    BY <2>1 DEF Longest
  <2>3. q # p
    BY <1>7, <2>1, <2>2
  <2>4. Longest(rt, q, a)
    BY <2>2, <2>3 DEF Longest
  <2>5. e.ix = rt[q] /\ e.plen = q.len /\ q \in DOMAIN rt
    BY <1>4, <1>7, <2>1, <2>3
  <2> QED  BY <2>4, <2>5 DEF Leading, a
<1> QED  BY <1>6, <1>7

\* Lists of indices.
LEMMA SetOf == \A s : Ext!ToSet(s) = {s[k] : k \in DOMAIN s}
  BY DEF Ext!ToSet

\* A list without its first element,
LEMMA TailOf ==
    ASSUME NEW s \in Seq(Nat), Listed(s), s # << >>
    PROVE  /\ Head(s) \in Ext!ToSet(s) /\ Head(s) = s[1] /\ Head(s) \in Nat /\ 1 \in DOMAIN s
           /\ Tail(s) \in Seq(Nat) /\ Listed(Tail(s)) /\ Ext!ToSet(Tail(s)) = Ext!ToSet(s) \ {Head(s)}
<1> DEFINE n == Len(s)
           r == Tail(s)
<1>1. n \in Nat /\ n >= 1 /\ DOMAIN s = 1 .. n /\ Head(s) = s[1] /\ s \in [1 .. n -> Nat]
  BY EmptySeq, LenProperties
<1>2. r \in Seq(Nat) /\ DOMAIN r = 1 .. n - 1 /\ \A k \in 1 .. n - 1 : r[k] = s[k + 1]
  BY HeadTailProperties, LenProperties
<1> HIDE DEF n, r
<1>3. Listed(r)
  <2> SUFFICES ASSUME NEW k \in 1 .. n - 1, NEW l \in 1 .. n - 1, k # l
               PROVE  r[k] # r[l]
    BY <1>2 DEF Listed
  <2>1. k + 1 \in DOMAIN s /\ l + 1 \in DOMAIN s /\ k + 1 # l + 1
    BY <1>1
  <2>2. s[k + 1] # s[l + 1]
    BY <2>1, Zenon DEF Listed
  <2> QED  BY <1>2, <2>2
<1>4. \A x \in Ext!ToSet(r) : x \in Ext!ToSet(s) \ {s[1]}
  <2> SUFFICES ASSUME NEW k \in 1 .. n - 1
               PROVE  r[k] \in Ext!ToSet(s) \ {s[1]}
    BY <1>2, SetOf, Zenon
  <2>1. k + 1 \in DOMAIN s /\ 1 \in DOMAIN s /\ k + 1 # 1 /\ r[k] = s[k + 1]
    BY <1>1, <1>2, SMTT(30)
  <2>2. s[k + 1] # s[1]
    BY <2>1, Zenon DEF Listed
  <2>3. s[k + 1] \in Ext!ToSet(s)
    BY <2>1, SetOf
  <2> QED  BY <2>1, <2>2, <2>3
<1>5. \A x \in Ext!ToSet(s) \ {s[1]} : x \in Ext!ToSet(r)
  <2> SUFFICES ASSUME NEW k \in 1 .. n, s[k] # s[1]
               PROVE  s[k] \in Ext!ToSet(r)
    BY <1>1, SetOf
  <2>1. k - 1 \in 1 .. n - 1 /\ r[k - 1] = s[k]
    BY <1>1, <1>2
  <2> QED  BY <1>2, <2>1, SetOf
<1> QED  BY <1>1, <1>2, <1>3, <1>4, <1>5, SetOf DEF r

\* with one in front,
LEMMA ConsOf ==
    ASSUME NEW s \in Seq(Nat), NEW v \in Nat
    PROVE  /\ <<v>> \o s \in Seq(Nat) /\ Ext!ToSet(<<v>> \o s) = Ext!ToSet(s) \cup {v}
           /\ Listed(s) /\ v \notin Ext!ToSet(s) => Listed(<<v>> \o s)
           /\ (<<v>> \o s)[1] = v /\ <<v>> \o s # << >>
<1> DEFINE n == Len(s)
           r == <<v>> \o s
<1>1. n \in Nat /\ DOMAIN s = 1 .. n /\ s \in [1 .. n -> Nat]
  BY LenProperties
<1>2. r \in Seq(Nat) /\ DOMAIN r = 1 .. n + 1 /\ r[1] = v /\ (\A k \in 1 .. n : r[k + 1] = s[k]) /\ r # << >>
  <2>1. <<v>> \in Seq(Nat) /\ Len(<<v>>) = 1 /\ <<v>>[1] = v
    OBVIOUS
  <2>2. r \in Seq(Nat) /\ Len(r) = 1 + n /\ (\A k \in 1 .. 1 + n : r[k] = IF k <= 1 THEN <<v>>[k] ELSE s[k - 1])
    BY <2>1, ConcatProperties
  <2>3. DOMAIN r = 1 .. n + 1
    BY <1>1, <2>2, LenProperties
  <2> HIDE DEF n, r
  <2>4. r[1] = v /\ \A k \in 1 .. n : r[k + 1] = s[k]
    <3>1. 1 \in 1 .. 1 + n
      BY <1>1
    <3>2. r[1] = v
      BY <2>1, <2>2, <3>1
    <3>3. ASSUME NEW k \in 1 .. n
          PROVE  r[k + 1] = s[k]
      <4>1. k + 1 \in 1 .. 1 + n /\ ~(k + 1 <= 1) /\ (k + 1) - 1 = k
        BY <1>1
      <4> QED  BY <2>2, <4>1
    <3> QED  BY <3>2, <3>3
  <2>5. r # << >>
    BY <1>1, <2>2
  <2> QED  BY <2>2, <2>3, <2>4, <2>5
<1> HIDE DEF n, r
<1>3. \A k \in 1 .. n + 1 : r[k] = v \/ (k - 1 \in 1 .. n /\ r[k] = s[k - 1])
  <2> SUFFICES ASSUME NEW k \in 1 .. n + 1, k # 1
               PROVE  k - 1 \in 1 .. n /\ r[k] = s[k - 1]
    BY <1>2
  <2>1. k - 1 \in 1 .. n /\ (k - 1) + 1 = k
    BY <1>1
  <2> QED  BY <1>2, <2>1
<1>4. Ext!ToSet(r) = Ext!ToSet(s) \cup {v}
  <2>1. \A x \in Ext!ToSet(r) : x \in Ext!ToSet(s) \cup {v}
    BY <1>1, <1>2, <1>3, SetOf
  <2>2. ASSUME NEW k \in 1 .. n
        PROVE  s[k] \in Ext!ToSet(r)
    <3>1. k + 1 \in DOMAIN r /\ r[k + 1] = s[k]
      BY <1>1, <1>2
    <3> QED  BY <3>1, SetOf
  <2>3. v \in Ext!ToSet(r)
    <3>1. 1 \in DOMAIN r
      BY <1>1, <1>2
    <3> QED  BY <1>2, <3>1, SetOf
  <2> QED  BY <1>1, <2>1, <2>2, <2>3, SetOf
<1>5. ASSUME Listed(s), v \notin Ext!ToSet(s)
      PROVE  Listed(r)
  <2> SUFFICES ASSUME NEW k \in 1 .. n + 1, NEW l \in 1 .. n + 1, k # l, r[k] = r[l]
               PROVE  FALSE
    BY <1>2 DEF Listed
  <2>1. \A m \in 1 .. n : s[m] # v
    BY <1>1, <1>5, SetOf
  <2>2. ASSUME NEW m \in 1 .. n + 1, m # 1
        PROVE  m - 1 \in 1 .. n /\ r[m] = s[m - 1]
    <3>1. m - 1 \in 1 .. n /\ (m - 1) + 1 = m
      BY <1>1, <2>2
    <3> QED  BY <1>2, <3>1
  <2>3. k # 1 /\ l # 1
    BY <1>2, <2>1, <2>2
  <2>4. k - 1 \in DOMAIN s /\ l - 1 \in DOMAIN s /\ s[k - 1] = s[l - 1] /\ k - 1 # l - 1
    BY <1>1, <2>2, <2>3
  <2> QED  BY <1>5, <2>4 DEF Listed
<1> QED  BY <1>2, <1>4, <1>5 DEF r

\* and without one from the middle.
LEMMA UnlinkedIs ==
    ASSUME NEW s \in Seq(Nat), Listed(s), NEW v \in Ext!ToSet(s)
    PROVE  /\ Unlinked(s, v) \in Seq(Nat) /\ Listed(Unlinked(s, v))
           /\ Ext!ToSet(Unlinked(s, v)) = Ext!ToSet(s) \ {v}
<1> DEFINE n == Len(s)
           k == CHOOSE m \in DOMAIN s : s[m] = v
           r == [l \in 1 .. n - 1 |-> IF l < k THEN s[l] ELSE s[l + 1]]
<1>1. n \in Nat /\ DOMAIN s = 1 .. n /\ s \in [1 .. n -> Nat]
  BY LenProperties
<1>2. k \in 1 .. n /\ s[k] = v
  <2>1. \E m \in DOMAIN s : s[m] = v
    BY SetOf
  <2> QED  BY <1>1, <2>1
<1>3. r = Unlinked(s, v)
  BY DEF Unlinked
<1> HIDE DEF n, k
<1>4. n \in Nat /\ n - 1 \in Nat /\ k \in Nat /\ 1 <= k /\ k <= n
  BY <1>1, <1>2
<1>6. DOMAIN r = 1 .. n - 1 /\ \A l \in 1 .. n - 1 : r[l] = IF l < k THEN s[l] ELSE s[l + 1]
  OBVIOUS
<1>7. r \in Seq(Nat)
  <2>1. \A l \in 1 .. n - 1 : r[l] \in Nat
    <3> SUFFICES ASSUME NEW l \in 1 .. n - 1
                 PROVE  r[l] \in Nat
      OBVIOUS
    <3>1. l \in 1 .. n /\ l + 1 \in 1 .. n
      BY <1>4
    <3>2. s[l] \in Nat /\ s[l + 1] \in Nat
      BY <1>1, <3>1
    <3> QED  BY <1>6, <3>2
  <2>2. r = [l \in 1 .. n - 1 |-> r[l]]
    OBVIOUS
  <2> HIDE DEF r
  <2>3. r \in [1 .. n - 1 -> Nat]
    BY <2>1, <2>2
  <2> QED  BY <1>4, <2>3
<1> HIDE DEF r
<1>8. ASSUME NEW l \in 1 .. n - 1
      PROVE  \E m \in 1 .. n : m # k /\ r[l] = s[m] /\ (m < k => m = l) /\ (k < m => m = l + 1)
  <2>1. CASE l < k
    <3>1. l \in 1 .. n /\ l # k /\ ~(k < l)
      BY <1>4, <2>1
    <3> QED  BY <1>6, <2>1, <3>1
  <2>2. CASE ~(l < k)
    <3>1. l + 1 \in 1 .. n /\ l + 1 # k /\ ~(l + 1 < k)
      BY <1>4, <2>2
    <3> QED  BY <1>6, <2>2, <3>1
  <2> QED  BY <2>1, <2>2
<1>9. ASSUME NEW m \in 1 .. n, m # k
      PROVE  \E l \in 1 .. n - 1 : r[l] = s[m]
  <2>1. CASE m < k
    <3>1. m \in 1 .. n - 1
      BY <1>4, <2>1
    <3> QED  BY <1>6, <2>1, <3>1
  <2>2. CASE ~(m < k)
    <3>1. m - 1 \in 1 .. n - 1 /\ ~(m - 1 < k) /\ (m - 1) + 1 = m
      BY <1>4, <1>9, <2>2
    <3> QED  BY <1>6, <3>1
  <2> QED  BY <2>1, <2>2
<1>10. Listed(r)
  <2> SUFFICES ASSUME NEW x \in 1 .. n - 1, NEW y \in 1 .. n - 1, r[x] = r[y], x # y
               PROVE  FALSE
    BY <1>6 DEF Listed
  <2>1. PICK a \in 1 .. n : a # k /\ r[x] = s[a] /\ (a < k => a = x) /\ (k < a => a = x + 1)
    BY <1>8
  <2>2. PICK b \in 1 .. n : b # k /\ r[y] = s[b] /\ (b < k => b = y) /\ (k < b => b = y + 1)
    BY <1>8
  <2>3. a = b
    BY <1>1, <2>1, <2>2 DEF Listed
  <2> QED  BY <1>4, <2>1, <2>2, <2>3
<1>11. Ext!ToSet(r) = Ext!ToSet(s) \ {v}
  <2>1. ASSUME NEW l \in 1 .. n - 1
        PROVE  r[l] \in Ext!ToSet(s) \ {v}
    <3>1. PICK m \in 1 .. n : m # k /\ r[l] = s[m]
      BY <1>8
    <3>2. s[m] # s[k]
      BY <1>1, <1>2, <3>1 DEF Listed
    <3> QED  BY <1>1, <1>2, <3>1, <3>2, SetOf
  <2>2. ASSUME NEW m \in 1 .. n, s[m] # v
        PROVE  s[m] \in Ext!ToSet(r)
    <3>1. m # k
      BY <1>2, <2>2
    <3>2. PICK l \in 1 .. n - 1 : r[l] = s[m]
      BY <1>9, <3>1
    <3> QED  BY <1>6, <3>2, SetOf
  <2> QED  BY <1>1, <1>6, <2>1, <2>2, SetOf
<1> QED  BY <1>3, <1>7, <1>10, <1>11

\* Sequences by their domain, and of one element.
LEMMA FunctionIsSeq ==
    ASSUME NEW S, NEW n \in Nat, NEW f \in [1 .. n -> S]
    PROVE  f \in Seq(S) /\ Len(f) = n /\ DOMAIN f = 1 .. n
  OBVIOUS

LEMMA OneOf ==
    ASSUME NEW v \in Nat
    PROVE  <<v>> \in Seq(Nat) /\ Head(<<v>>) = v /\ Tail(<<v>>) = << >>
<1>1. <<v>> \in Seq(Nat) /\ Len(<<v>>) = 1 /\ <<v>> # << >> /\ <<v>>[1] = v
  OBVIOUS
<1>2. Tail(<<v>>) \in Seq(Nat) /\ Len(Tail(<<v>>)) = 0
  BY <1>1, HeadTailProperties
<1>3. Tail(<<v>>) = << >>
  BY <1>2, EmptySeq
<1> QED  BY <1>1, <1>3

\* The loops leave the owners of the secondary tables alone.
LEMMA WrittenFits ==
    ASSUME Tables, NEW op, NEW p, Asks(op, p), NEW new \in [ix : Nat, plen : Nat],
           p.len > PBits => tbl[Start(p)].sec, new.plen <= p.len
    PROVE  LET tb == WrittenPrimary(op, p, new)
               sc == Written(op, p, new)
           IN  /\ TablesFit(tb, sc, sempty)
               /\ \A i \in Primary : ~tb[i].sec => tb[i].plen <= PBits
<1> DEFINE tb == WrittenPrimary(op, p, new)
           sc == Written(op, p, new)
           free == Ext!ToSet(sempty)
<1>1. /\ tb \in [Primary -> [sec : BOOLEAN, ix : Nat, plen : Nat]]
      /\ sc \in Seq(LowTable) /\ DOMAIN sc = DOMAIN sec
      /\ \A i \in Primary : tb[i].sec = tbl[i].sec /\ (tbl[i].sec => tb[i] = tbl[i])
      /\ \A i \in Primary, j \in Low :
            EntryAt(tb, sc, i, j) = IF Holds(p, At(i, j)) /\ Hit(op, p, EntryAt(tbl, sec, i, j))
                                      THEN new ELSE EntryAt(tbl, sec, i, j)
  BY WrittenIs
<1> HIDE DEF tb, sc
<1>2. /\ sempty \in Seq(Nat) /\ Listed(sempty) /\ free \subseteq DOMAIN sec
      /\ \A s \in DOMAIN sec : s \in free \/ \E i \in Primary : tbl[i].sec /\ tbl[i].ix = s
      /\ \A i \in Primary : tbl[i].sec => /\ tbl[i].ix \in DOMAIN sec /\ tbl[i].ix \notin free
                                          /\ \A k \in Primary : tbl[k].sec /\ tbl[k].ix = tbl[i].ix => i = k
  BY DEF Tables, TablesFit
<1> HIDE DEF free
<1>1a. DOMAIN sc = DOMAIN sec /\ \A i \in Primary : tb[i].sec = tbl[i].sec /\ (tbl[i].sec => tb[i] = tbl[i])
  BY <1>1
<1>3. \A s \in DOMAIN sc : s \in free \/ \E i \in Primary : tb[i].sec /\ tb[i].ix = s
  BY <1>1a, <1>2, SMTT(30)
<1>4. \A i \in Primary : tb[i].sec => /\ tb[i].ix \in DOMAIN sc /\ tb[i].ix \notin free
                                      /\ \A k \in Primary : tb[k].sec /\ tb[k].ix = tb[i].ix => i = k
  BY <1>1a, <1>2
<1>5. TablesFit(tb, sc, sempty)
  BY <1>1, <1>2, <1>3, <1>4 DEF TablesFit, free
<1>6. ASSUME NEW i \in Primary, ~tb[i].sec
      PROVE  tb[i].plen <= PBits
  <2>1. p \in AllPrefixes /\ p.len \in Nat /\ PBits \in Nat /\ new.plen \in Nat
    BY SpanHolds DEF Asks
  <2>2. tbl[i].plen <= PBits /\ ~tbl[i].sec
    BY <1>1, <1>6 DEF Tables, TablesLead
  <2>3. PICK j \in Low : TRUE
    BY <2>1, SpanHolds
  <2>4. EntryAt(tb, sc, i, j).plen = tb[i].plen /\ EntryAt(tbl, sec, i, j).plen = tbl[i].plen
    BY <1>6, <2>2 DEF EntryAt
  <2>5. CASE Holds(p, At(i, j)) /\ p.len > PBits
    <3>1. i = Start(p)
      BY <2>1, <2>5, LongSpan
    <3> QED  BY <2>2, <2>5, <3>1
  <2>6. CASE Holds(p, At(i, j)) /\ ~(p.len > PBits)
    <3>1. new.plen <= PBits
      BY <2>1, <2>6
    <3>2. EntryAt(tb, sc, i, j) = new \/ EntryAt(tb, sc, i, j) = EntryAt(tbl, sec, i, j)
      BY <1>1
    <3> QED  BY <2>2, <2>4, <3>1, <3>2
  <2>7. CASE ~Holds(p, At(i, j))
    <3>1. EntryAt(tb, sc, i, j) = EntryAt(tbl, sec, i, j)
      BY <1>1, <2>7
    <3> QED  BY <2>2, <2>4, <3>1
  <2> QED  BY <2>5, <2>6, <2>7
<1> QED  BY <1>5, <1>6 DEF tb, sc

\* The secondary table that a route takes: the first free one, or a new one.
LEMMA FreeIs ==
    ASSUME Tables, NEW free, free = IF sempty = << >> THEN <<Len(sec) + 1>> ELSE sempty
    PROVE  /\ Head(free) \in Nat /\ (Head(free) \in Ext!ToSet(sempty) \/ Head(free) = Len(sec) + 1)
           /\ Tail(free) \in Seq(Nat) /\ Listed(Tail(free))
           /\ Ext!ToSet(Tail(free)) = Ext!ToSet(sempty) \ {Head(free)}
<1>1. sempty \in Seq(Nat) /\ Listed(sempty) /\ Len(sec) \in Nat
  BY LenProperties DEF Tables, TablesFit
<1>2. CASE sempty = << >>
  <2>1. free = <<Len(sec) + 1>> /\ Len(sec) + 1 \in Nat
    BY <1>1, <1>2
  <2>2. Ext!ToSet(sempty) = {}
    BY <1>2, SetOf
  <2>3. Head(free) = Len(sec) + 1 /\ Tail(free) = << >>
    BY <2>1, OneOf
  <2>4. Ext!ToSet(<< >>) = {} /\ Listed(<< >>) /\ << >> \in Seq(Nat)
    BY SetOf DEF Listed
  <2> QED  BY <2>1, <2>2, <2>3, <2>4
<1>3. CASE sempty # << >>
  <2>1. free = sempty
    BY <1>3
  <2> QED  BY <1>1, <1>3, <2>1, TailOf
<1> QED  BY <1>2, <1>3

\* The primary tables, and families of secondary ones.
HighTables == [Primary -> [sec : BOOLEAN, ix : Nat, plen : Nat]]
LowTables(S) == [S -> LowTable]

\* A prefix that splits an entry: the table it takes is free.
LEMMA SplitFits ==
    ASSUME Tables, NEW i \in Primary, ~tbl[i].sec, NEW table \in LowTable, \E j \in Low : table[j].plen > PBits,
           NEW h \in Nat, h \in Ext!ToSet(sempty) \/ h = Len(sec) + 1,
           NEW rest \in Seq(Nat), Listed(rest), Ext!ToSet(rest) = Ext!ToSet(sempty) \ {h},
           NEW tb \in HighTables,
           tb[i].sec, tb[i].ix = h, \A k \in Primary \ {i} : tb[k] = tbl[k],
           NEW sc \in LowTables(DOMAIN sec \cup {h}),
           sc[h] = table, \A s \in DOMAIN sec \ {h} : sc[s] = sec[s]
    PROVE  /\ TablesFit(tb, sc, rest)
           /\ \A k \in Primary : ~tb[k].sec => tb[k].plen <= PBits
           /\ \A k \in Primary : tb[k].sec => \E j \in Low : sc[tb[k].ix][j].plen > PBits
           /\ \A k \in Primary \ {i}, j \in Low : EntryAt(tb, sc, k, j) = EntryAt(tbl, sec, k, j)
           /\ \A j \in Low : EntryAt(tb, sc, i, j) = table[j]
<1> DEFINE n == Len(sec)
           taken == Ext!ToSet(sempty)
<1>1. /\ tbl \in [Primary -> [sec : BOOLEAN, ix : Nat, plen : Nat]]
      /\ sempty \in Seq(Nat) /\ Listed(sempty) /\ taken \subseteq DOMAIN sec /\ sec \in Seq(LowTable)
      /\ \A s \in DOMAIN sec : s \in taken \/ \E k \in Primary : tbl[k].sec /\ tbl[k].ix = s
      /\ \A k \in Primary : tbl[k].sec => /\ tbl[k].ix \in DOMAIN sec /\ tbl[k].ix \notin taken
                                          /\ \A l \in Primary : tbl[l].sec /\ tbl[l].ix = tbl[k].ix => k = l
  BY DEF Tables, TablesFit
<1>2. n \in Nat /\ DOMAIN sec = 1 .. n
  BY <1>1, LenProperties
<1> HIDE DEF taken, n
<1>3. Ext!ToSet(rest) = taken \ {h} /\ (h \in taken \/ h = n + 1)
  BY DEF taken, n
<1> DEFINE R == [sec : BOOLEAN, ix : Nat, plen : Nat]
<1>4. /\ tb \in [Primary -> R] /\ tb[i].sec /\ tb[i].ix = h
      /\ \A k \in Primary \ {i} : tb[k] = tbl[k]
  BY DEF HighTables
<1>5. /\ DOMAIN sc = DOMAIN sec \cup {h} /\ sc[h] = table /\ sc \in [DOMAIN sec \cup {h} -> LowTable]
      /\ \A s \in DOMAIN sec \ {h} : sc[s] = sec[s]
  BY DEF LowTables
<1>6. DOMAIN sc = DOMAIN sec \/ DOMAIN sc = 1 .. n + 1
  <2>1. h \in taken => DOMAIN sc = DOMAIN sec
    <3>1. taken \subseteq DOMAIN sec
      BY <1>1
    <3>2. DOMAIN sc = DOMAIN sec \cup {h}
      BY <1>5
    <3> QED  BY <3>1, <3>2
  <2>2. h = n + 1 => DOMAIN sc = 1 .. n + 1
    <3>1. (1 .. n) \cup {n + 1} = 1 .. n + 1
      BY <1>2
    <3> QED  BY <1>2, <1>5, <3>1
  <2> QED  BY <1>3, <2>1, <2>2
<1>7. sc \in Seq(LowTable)
  <2> DEFINE N == IF DOMAIN sc = DOMAIN sec THEN n ELSE n + 1
  <2>1. N \in Nat /\ DOMAIN sc = 1 .. N
    BY <1>2, <1>6
  <2> HIDE DEF N
  <2>5. sc \in [1 .. N -> LowTable]
    BY <1>5, <2>1
  <2>6. N \in Nat
    BY <2>1
  <2> QED  BY <2>5, <2>6, FunctionIsSeq
<1> HIDE DEF R
<1>8. h \notin DOMAIN sec \/ h \in taken
  BY <1>2, <1>3
<1>9. \A k \in Primary \ {i} : tb[k].sec => tb[k].ix # h /\ tb[k].ix \in DOMAIN sec \ {h}
  BY <1>1, <1>4, <1>8
<1>10. \A s \in DOMAIN sc : s \in taken \ {h} \/ \E k \in Primary : tb[k].sec /\ tb[k].ix = s
  <2> SUFFICES ASSUME NEW s \in DOMAIN sc, s \notin taken \ {h}
               PROVE  \E k \in Primary : tb[k].sec /\ tb[k].ix = s
    OBVIOUS
  <2>1. CASE s = h
    BY <1>4, <2>1
  <2>2. CASE s # h
    <3>1. PICK k \in Primary : tbl[k].sec /\ tbl[k].ix = s
      BY <1>1, <1>5, <2>2
    <3>2. k # i
      BY <3>1
    <3> QED  BY <1>4, <3>1, <3>2
  <2> QED  BY <2>1, <2>2
<1>11. ASSUME NEW k \in Primary, tb[k].sec
       PROVE  /\ tb[k].ix \in DOMAIN sc /\ tb[k].ix \notin taken \ {h}
              /\ \A l \in Primary : tb[l].sec /\ tb[l].ix = tb[k].ix => k = l
  <2>1. CASE k = i
    BY <1>4, <1>5, <1>9, <2>1
  <2>2. CASE k # i
    <3>1. tbl[k].sec /\ tb[k].ix = tbl[k].ix /\ tb[k].ix # h
      BY <1>4, <1>9, <1>11, <2>2
    <3>2. tb[k].ix \in DOMAIN sc /\ tb[k].ix \notin taken \ {h}
      BY <1>1, <1>5, <3>1
    <3>3. \A l \in Primary \ {i} : tb[l].sec /\ tb[l].ix = tb[k].ix => k = l
      BY <1>1, <1>4, <3>1
    <3> QED  BY <1>4, <3>1, <3>2, <3>3
  <2> QED  BY <2>1, <2>2
<1>12. TablesFit(tb, sc, rest)
  <2>1. Ext!ToSet(rest) \subseteq DOMAIN sc
    BY <1>1, <1>3, <1>5
  <2> QED  BY <1>3, <1>4, <1>7, <1>10, <1>11, <2>1 DEF TablesFit, R
<1>13. \A k \in Primary : ~tb[k].sec => tb[k].plen <= PBits
  <2>1. \A k \in Primary : ~tbl[k].sec => tbl[k].plen <= PBits
    BY DEF Tables, TablesLead
  <2> QED  BY <1>4, <2>1
<1>14. \A k \in Primary : tb[k].sec => \E j \in Low : sc[tb[k].ix][j].plen > PBits
  <2> SUFFICES ASSUME NEW k \in Primary, tb[k].sec
               PROVE  \E j \in Low : sc[tb[k].ix][j].plen > PBits
    OBVIOUS
  <2>1. CASE k = i
    BY <1>4, <1>5, <2>1
  <2>2. CASE k # i
    <3>1. tbl[k].sec /\ tb[k].ix = tbl[k].ix /\ sc[tb[k].ix] = sec[tbl[k].ix]
      BY <1>4, <1>5, <1>9, <2>2
    <3>2. \E j \in Low : sec[tbl[k].ix][j].plen > PBits
      BY <3>1 DEF Tables, TablesLead
    <3> QED  BY <3>1, <3>2
  <2> QED  BY <2>1, <2>2
<1>15. ASSUME NEW k \in Primary \ {i}, NEW j \in Low
       PROVE  EntryAt(tb, sc, k, j) = EntryAt(tbl, sec, k, j)
  <2>1. tb[k] = tbl[k] /\ (tb[k].sec => sc[tb[k].ix] = sec[tbl[k].ix])
    BY <1>4, <1>5, <1>9
  <2> QED  BY <2>1 DEF EntryAt
<1>16. \A j \in Low : EntryAt(tb, sc, i, j) = table[j]
  BY <1>4, <1>5 DEF EntryAt
<1> QED  BY <1>12, <1>13, <1>14, <1>15, <1>16

\* The routes with one more, and with one less.
LEMMA RoutesStayFit ==
    ASSUME RoutesFit(rtable), NEW p \in AllPrefixes, p # Default, NEW v \in Nat
    PROVE  /\ RoutesFit([q \in DOMAIN rtable \cup {p} |-> IF q = p THEN v ELSE rtable[q]])
           /\ RoutesFit([q \in DOMAIN rtable \ {p} |-> rtable[q]])
<1>1. IsFiniteSet(DOMAIN rtable \cup {p}) /\ IsFiniteSet(DOMAIN rtable \ {p})
  BY FS_AddElement, FS_RemoveElement DEF RoutesFit
<1> QED  BY <1>1 DEF RoutesFit

\* add_route: the tables lead to the new route where it is the longest.
LEMMA AddTables ==
    ASSUME Tables, NEW p \in Prefixes, NEW via \in Via, NEW set \in BOOLEAN, DirectAddRoute(p, via, set),
           Found(Released(p), via) \in Nat
    PROVE  /\ RoutesFit(rtable') /\ TablesFit(tbl', sec', sempty') /\ TablesLead(rtable', tbl', sec')
           /\ ~Stopped(IF set THEN "set" ELSE "add", p)
<1> DEFINE op == IF set THEN "set" ELSE "add"
           v == Found(Released(p), via)
           new == [ix |-> v, plen |-> p.len]
           i == Start(p)
           free == IF Overflows(p) THEN <<Len(sec) + 1>> ELSE sempty
           split == [j \in Low |-> IF j \in SecSpan(p) THEN new ELSE [ix |-> tbl[i].ix, plen |-> tbl[i].plen]]
           old(k, j) == EntryAt(tbl, sec, k, j)
<1>1. p \in AllPrefixes /\ p # Default /\ Asks(op, p) /\ op # "remove"
  BY DirectAssumption DEF Asks, DirectAddRoute
<1>2. new \in [ix : Nat, plen : Nat] /\ p.len \in Nat /\ PBits \in Nat
  BY <1>1, SpanHolds
<1>3. rtable' = [q \in DOMAIN rtable \cup {p} |-> IF q = p THEN v ELSE rtable[q]]
  BY DEF DirectAddRoute
<1>4. RoutesFit(rtable')
  BY <1>1, <1>3, RoutesStayFit DEF Tables
<1>5. ~Stopped(op, p)
  BY <1>1, PrimaryWalkIs
<1>6. i \in Primary /\ SecSpan(p) # {} /\ SecSpan(p) \subseteq Low
  BY <1>1, SpanHolds
<1>7. ASSUME \A k \in Primary, j \in Low :
                EntryAt(tbl', sec', k, j) = IF Holds(p, At(k, j)) /\ old(k, j).plen <= p.len THEN new ELSE old(k, j)
      PROVE  \A k \in Primary, j \in Low : Leading(rtable', EntryAt(tbl', sec', k, j), At(k, j))
  <2> SUFFICES ASSUME NEW k \in Primary, NEW j \in Low
               PROVE  Leading(rtable', EntryAt(tbl', sec', k, j), At(k, j))
    OBVIOUS
  <2> HIDE DEF v, op
  <2> QED  BY <1>1, <1>3, <1>7, AddLeads
<1>8. CASE p.len > PBits /\ ~tbl[i].sec /\ tbl[i].plen < p.len
  <2>1. /\ tbl' = [tbl EXCEPT ![i].sec = TRUE, ![i].ix = Head(free)]
        /\ sec' = [s \in DOMAIN sec \cup {Head(free)} |-> IF s = Head(free) THEN split ELSE sec[s]]
        /\ sempty' = Tail(free)
    BY <1>8 DEF DirectAddRoute
  <2>2. free = IF sempty = << >> THEN <<Len(sec) + 1>> ELSE sempty
    BY <1>8 DEF Overflows
  <2>3. tbl[i] \in [sec : BOOLEAN, ix : Nat, plen : Nat]
    BY <1>6 DEF Tables, TablesFit
  <2>4. split \in LowTable
    <3> HIDE DEF new, i
    <3>1. \A j \in Low : split[j] \in [ix : Nat, plen : Nat]
      BY <1>2, <2>3
    <3> QED  BY <3>1 DEF LowTable
  <2>5. \A j \in Low : split[j] = IF j \in SecSpan(p) THEN new ELSE old(i, j)
    BY <1>8 DEF EntryAt
  <2>6. \E j \in Low : split[j].plen > PBits
    BY <1>6, <1>8
  <2> HIDE DEF free, split, i, new, op, v
  <2>7. /\ TablesFit(tbl', sec', Tail(free))
        /\ \A k \in Primary : ~tbl'[k].sec => tbl'[k].plen <= PBits
        /\ \A k \in Primary : tbl'[k].sec => \E j \in Low : sec'[tbl'[k].ix][j].plen > PBits
        /\ \A k \in Primary \ {i}, j \in Low : EntryAt(tbl', sec', k, j) = old(k, j)
        /\ \A j \in Low : EntryAt(tbl', sec', i, j) = split[j]
    <3>1. i \in Primary /\ ~tbl[i].sec /\ split \in LowTable /\ \E j \in Low : split[j].plen > PBits
      BY <1>6, <1>8, <2>4, <2>6
    <3>2. /\ tbl' \in [Primary -> [sec : BOOLEAN, ix : Nat, plen : Nat]]
          /\ tbl'[i].sec /\ tbl'[i].ix = Head(free) /\ \A k \in Primary \ {i} : tbl'[k] = tbl[k]
      <4> DEFINE R == [sec : BOOLEAN, ix : Nat, plen : Nat]
                 h == Head(free)
      <4>1. h \in Nat
        BY <2>2, FreeIs
      <4> HIDE DEF h
      <4>2. tbl' = [tbl EXCEPT ![i].sec = TRUE, ![i].ix = h] /\ tbl \in [Primary -> R]
        BY <2>1 DEF h, Tables, TablesFit
      <4>3. tbl'[i] = [[tbl[i] EXCEPT !.sec = TRUE] EXCEPT !.ix = h] /\ \A k \in Primary \ {i} : tbl'[k] = tbl[k]
        BY <3>1, <4>2
      <4>4. tbl[i] \in R
        BY <3>1, <4>2
      <4>5. tbl'[i] \in R /\ tbl'[i].sec /\ tbl'[i].ix = h
        BY <4>1, <4>3, <4>4
      <4>6. tbl' = [k \in Primary |-> tbl'[k]]
        BY <4>2
      <4>7. \A k \in Primary : tbl'[k] \in R
        BY <4>2, <4>3, <4>5
      <4> HIDE DEF R
      <4>8. tbl' \in [Primary -> R]
        BY <4>6, <4>7
      <4> QED  BY <4>3, <4>5, <4>8 DEF R, h
    <3>3. /\ sec' \in [DOMAIN sec \cup {Head(free)} -> LowTable]
          /\ sec'[Head(free)] = split /\ \A s \in DOMAIN sec \ {Head(free)} : sec'[s] = sec[s]
      <4>1. \A s \in DOMAIN sec : sec[s] \in LowTable
        BY DEF Tables, TablesFit
      <4> QED  BY <2>1, <2>4, <4>1
    <3>4. /\ Head(free) \in Nat /\ (Head(free) \in Ext!ToSet(sempty) \/ Head(free) = Len(sec) + 1)
          /\ Tail(free) \in Seq(Nat) /\ Listed(Tail(free))
          /\ Ext!ToSet(Tail(free)) = Ext!ToSet(sempty) \ {Head(free)}
      BY <2>2, FreeIs
    <3> DEFINE h == Head(free)
               rest == Tail(free)
    <3>5. h \in Nat /\ rest \in Seq(Nat)
      BY <3>4
    <3>6. tbl' \in HighTables /\ sec' \in LowTables(DOMAIN sec \cup {h})
      BY <3>2, <3>3 DEF HighTables, LowTables
    <3>7. /\ tbl'[i].sec /\ tbl'[i].ix = h /\ \A k \in Primary \ {i} : tbl'[k] = tbl[k]
          /\ sec'[h] = split /\ \A s \in DOMAIN sec \ {h} : sec'[s] = sec[s]
          /\ (h \in Ext!ToSet(sempty) \/ h = Len(sec) + 1) /\ Listed(rest) /\ Ext!ToSet(rest) = Ext!ToSet(sempty) \ {h}
      BY <3>2, <3>3, <3>4
    <3> HIDE DEF h, rest
    <3>8. /\ TablesFit(tbl', sec', rest)
          /\ \A k \in Primary : ~tbl'[k].sec => tbl'[k].plen <= PBits
          /\ \A k \in Primary : tbl'[k].sec => \E j \in Low : sec'[tbl'[k].ix][j].plen > PBits
          /\ \A k \in Primary \ {i}, j \in Low : EntryAt(tbl', sec', k, j) = EntryAt(tbl, sec, k, j)
          /\ \A j \in Low : EntryAt(tbl', sec', i, j) = split[j]
      BY <3>1, <3>5, <3>6, <3>7, SplitFits
    <3> QED  BY <3>8 DEF old, rest
  <2>8. \A k \in Primary, j \in Low : Holds(p, At(k, j)) <=> k = i /\ j \in SecSpan(p)
    BY <1>1, <1>8, LongSpan DEF i
  <2>9. \A j \in Low : old(i, j).plen <= p.len
    <3>1. \A j \in Low : old(i, j).plen = tbl[i].plen
      BY <1>8 DEF EntryAt
    <3>2. tbl[i].plen \in Nat
      BY <2>3
    <3> QED  BY <1>2, <1>8, <3>1, <3>2
  <2>10. ASSUME NEW k \in Primary, NEW j \in Low
         PROVE  EntryAt(tbl', sec', k, j) = IF Holds(p, At(k, j)) /\ old(k, j).plen <= p.len THEN new ELSE old(k, j)
    <3> HIDE DEF old
    <3> QED  BY <2>5, <2>7, <2>8, <2>9
  <2>11. \A k \in Primary, j \in Low : Leading(rtable', EntryAt(tbl', sec', k, j), At(k, j))
    BY <1>7, <2>10
  <2> QED  BY <1>4, <1>5, <2>1, <2>7, <2>11, Zenon DEF TablesLead, op
<1>9. CASE ~(p.len > PBits /\ ~tbl[i].sec /\ tbl[i].plen < p.len)
  <2>1. p.len > PBits => tbl[i].sec
    <3> SUFFICES ASSUME p.len > PBits, ~tbl[i].sec
                 PROVE  tbl[i].plen < p.len
      BY <1>9
    <3>1. tbl[i].plen <= PBits /\ tbl[i].plen \in Nat
      BY <1>6 DEF Tables, TablesLead, TablesFit
    <3> QED  BY <1>2, <3>1
  <2>2. ~Overflows(p)
    BY <2>1 DEF Overflows
  <2>3. tbl' = WrittenPrimary(op, p, new) /\ sec' = Written(op, p, new) /\ sempty' = sempty
    BY <1>9, <2>2 DEF DirectAddRoute
  <2>4. new.plen <= p.len
    BY <1>2
  <2> HIDE DEF new, op, v
  <2>5. /\ TablesFit(tbl', sec', sempty')
        /\ \A k \in Primary : ~tbl'[k].sec => tbl'[k].plen <= PBits
    BY <1>1, <1>2, <2>1, <2>3, <2>4, WrittenFits
  <2>6. /\ \A k \in Primary : tbl'[k].sec = tbl[k].sec /\ (tbl[k].sec => tbl'[k] = tbl[k])
        /\ \A k \in Primary, j \in Low :
              EntryAt(tbl', sec', k, j) = IF Holds(p, At(k, j)) /\ Hit(op, p, old(k, j)) THEN new ELSE old(k, j)
    BY <1>1, <1>2, <2>1, <2>3, WrittenIs
  <2>7. \A k \in Primary, j \in Low : Hit(op, p, old(k, j)) <=> old(k, j).plen <= p.len
    BY <1>1 DEF Hit
  <2> HIDE DEF old
  <2>8. \A k \in Primary, j \in Low :
              EntryAt(tbl', sec', k, j) = IF Holds(p, At(k, j)) /\ old(k, j).plen <= p.len THEN new ELSE old(k, j)
    BY <2>6, <2>7
  <2>9. \A k \in Primary, j \in Low : Leading(rtable', EntryAt(tbl', sec', k, j), At(k, j))
    BY <1>7, <2>8
  <2>10. ASSUME NEW k \in Primary, tbl'[k].sec
         PROVE  \E j \in Low : sec'[tbl'[k].ix][j].plen > PBits
    <3>1. tbl[k].sec /\ tbl'[k] = tbl[k]
      BY <2>6, <2>10
    <3>2. PICK j \in Low : sec[tbl[k].ix][j].plen > PBits
      BY <3>1 DEF Tables, TablesLead
    <3>3. old(k, j) = sec[tbl[k].ix][j] /\ EntryAt(tbl', sec', k, j) = sec'[tbl'[k].ix][j]
      BY <3>1 DEF EntryAt, old
    <3>4. old(k, j).plen \in Nat
      BY EntryFacts DEF old
    <3>5. EntryAt(tbl', sec', k, j).plen > PBits
      BY <1>2, <2>8, <3>2, <3>3, <3>4 DEF new
    <3> QED  BY <3>3, <3>5
  <2> QED  BY <1>4, <1>5, <2>5, <2>9, <2>10 DEF TablesLead, op
<1> QED  BY <1>8, <1>9

\* The table of an entry that is pruned becomes free.
LEMMA PrunedFits ==
    ASSUME NEW ob, NEW oc, NEW oe, TablesFit(ob, oc, oe), NEW i \in Primary, ob[i].sec,
           NEW s, s = ob[i].ix, NEW e \in [ix : Nat, plen : Nat],
           NEW tb \in HighTables, tb[i] = [sec |-> FALSE, ix |-> e.ix, plen |-> e.plen],
           \A k \in Primary \ {i} : tb[k] = ob[k],
           NEW sc \in LowTables(DOMAIN oc), sc[s] = Unused, \A u \in DOMAIN oc \ {s} : sc[u] = oc[u]
    PROVE  /\ TablesFit(tb, sc, <<s>> \o oe)
           /\ ~tb[i].sec /\ tb[i].plen = e.plen
           /\ \A k \in Primary \ {i} : tb[k] = ob[k]
           /\ \A k \in Primary \ {i}, j \in Low : EntryAt(tb, sc, k, j) = EntryAt(ob, oc, k, j)
           /\ \A j \in Low : EntryAt(tb, sc, i, j) = e
<1> DEFINE free == Ext!ToSet(oe)
           R == [sec : BOOLEAN, ix : Nat, plen : Nat]
           n == Len(oc)
<1>1. /\ ob \in [Primary -> R] /\ oc \in Seq(LowTable) /\ oe \in Seq(Nat) /\ Listed(oe) /\ free \subseteq DOMAIN oc
      /\ \A u \in DOMAIN oc : u \in free \/ \E k \in Primary : ob[k].sec /\ ob[k].ix = u
      /\ \A k \in Primary : ob[k].sec => /\ ob[k].ix \in DOMAIN oc /\ ob[k].ix \notin free
                                         /\ \A l \in Primary : ob[l].sec /\ ob[l].ix = ob[k].ix => k = l
  BY DEF TablesFit
<1> HIDE DEF free
<1>2. n \in Nat /\ DOMAIN oc = 1 .. n /\ \A u \in DOMAIN oc : oc[u] \in LowTable
  <2>1. n \in Nat /\ DOMAIN oc = 1 .. n /\ oc \in [1 .. n -> LowTable]
    BY <1>1, LenProperties
  <2> QED  BY <2>1
<1> HIDE DEF n
<1>3. s \in DOMAIN oc /\ s \notin free /\ s \in Nat /\ \A k \in Primary \ {i} : ob[k].sec => ob[k].ix # s
  BY <1>1, <1>2
<1>5. DOMAIN sc = DOMAIN oc /\ sc \in [DOMAIN oc -> LowTable] /\ \A u \in DOMAIN oc \ {s} : sc[u] = oc[u]
  BY DEF LowTables
<1>6. sc \in Seq(LowTable)
  <2>1. sc \in [1 .. n -> LowTable]
    BY <1>2, <1>5
  <2> QED  BY <1>2, <2>1, FunctionIsSeq
<1>7. e.ix \in Nat /\ e.plen \in Nat /\ e = [ix |-> e.ix, plen |-> e.plen]
  OBVIOUS
<1>8. /\ tb[i] = [sec |-> FALSE, ix |-> e.ix, plen |-> e.plen] /\ tb[i].sec = FALSE /\ tb[i].ix = e.ix /\ tb[i].plen = e.plen
      /\ \A k \in Primary \ {i} : tb[k] = ob[k]
  OBVIOUS
<1>9. tb \in [Primary -> R]
  BY DEF HighTables
<1>10. /\ <<s>> \o oe \in Seq(Nat) /\ Listed(<<s>> \o oe) /\ Ext!ToSet(<<s>> \o oe) = free \cup {s}
  BY <1>1, <1>3, ConsOf DEF free
<1>11. ASSUME NEW u \in DOMAIN sc, u \notin free \cup {s}
       PROVE  \E k \in Primary : tb[k].sec /\ tb[k].ix = u
  <2>1. PICK k \in Primary : ob[k].sec /\ ob[k].ix = u
    BY <1>1, <1>5, <1>11
  <2>2. k # i
    BY <1>11, <2>1
  <2> QED  BY <1>8, <2>1, <2>2
<1>12. ASSUME NEW k \in Primary, tb[k].sec
       PROVE  /\ tb[k].ix \in DOMAIN sc /\ tb[k].ix \notin free \cup {s}
              /\ \A l \in Primary : tb[l].sec /\ tb[l].ix = tb[k].ix => k = l
  <2>1. k # i /\ tb[k] = ob[k]
    BY <1>8, <1>12
  <2>2. \A l \in Primary : tb[l].sec => l # i /\ tb[l] = ob[l]
    BY <1>8
  <2> QED  BY <1>1, <1>3, <1>5, <1>12, <2>1, <2>2
<1>13. TablesFit(tb, sc, <<s>> \o oe)
  <2>1. Ext!ToSet(<<s>> \o oe) \subseteq DOMAIN sc
    BY <1>1, <1>3, <1>5, <1>10
  <2> QED  BY <1>6, <1>9, <1>10, <1>11, <1>12, <2>1 DEF TablesFit
<1>14. \A j \in Low : EntryAt(tb, sc, i, j) = e
  BY <1>7, <1>8 DEF EntryAt
<1>15. ASSUME NEW k \in Primary \ {i}, NEW j \in Low
       PROVE  EntryAt(tb, sc, k, j) = EntryAt(ob, oc, k, j)
  <2>1. tb[k] = ob[k] /\ (tb[k].sec => sc[tb[k].ix] = oc[ob[k].ix])
    BY <1>1, <1>3, <1>5, <1>8
  <2> QED  BY <2>1 DEF EntryAt
<1> QED  BY <1>8, <1>13, <1>14, <1>15

\* What remove_route asks of the route that takes over.
LEMMA RemoveAsks ==
    ASSUME Tables, NEW p \in DOMAIN rtable, p # Default,
           NEW new, new = [ix |-> rtable[Cover(p)], plen |-> Cover(p).len]
    PROVE  /\ p \in AllPrefixes /\ Asks("remove", p)
           /\ new \in [ix : Nat, plen : Nat] /\ new.plen <= p.len
           /\ p.len > PBits => tbl[Start(p)].sec
<1>1. p \in AllPrefixes /\ Asks("remove", p)
  BY DEF Tables, RoutesFit, Asks
<1>2. Cover(p) \in DOMAIN rtable /\ Cover(p).len <= p.len
  <2>1. Cover(p) \in DOMAIN rtable \ {p} /\ Within(p, Cover(p))
    BY CoverIs DEF Tables
  <2> QED  BY <2>1 DEF Within
<1>3. rtable[Cover(p)] \in Nat /\ Cover(p).len \in Nat
  BY <1>2, DefaultHolds DEF Tables, RoutesFit
<1>4. p.len > PBits => tbl[Start(p)].sec
  <2> SUFFICES ASSUME p.len > PBits, ~tbl[Start(p)].sec
               PROVE  FALSE
    OBVIOUS
  <2> DEFINE i == Start(p)
  <2>1. i \in Span(p) /\ i \in Primary /\ p.len \in Nat /\ PBits \in Nat
    BY <1>1, SpanHolds
  <2>2. PICK j \in SecSpan(p) : TRUE
    BY <1>1, SpanHolds
  <2>3. EntryAt(tbl, sec, i, j).plen >= p.len
    BY <1>1, <2>1, NoBug
  <2>4. EntryAt(tbl, sec, i, j).plen = tbl[i].plen
    BY DEF EntryAt
  <2>5. tbl[i].plen <= PBits /\ tbl[i].plen \in Nat
    BY <2>1 DEF Tables, TablesLead, TablesFit
  <2> HIDE DEF i
  <2> QED  BY <2>1, <2>3, <2>4, <2>5
<1> QED  BY <1>1, <1>2, <1>3, <1>4

\* A prefix that is not longer than an index leads every low part of an entry.
LEMMA ShortLeads ==
    ASSUME NEW rt, DOMAIN rt \subseteq AllPrefixes, NEW k \in Primary, NEW j \in Low, NEW l \in Low,
           NEW d, NEW e, Leading(rt, d, At(k, j)), Leading(rt, e, At(k, l)), d.plen <= PBits
    PROVE  /\ d.plen <= e.plen /\ d.plen \in Nat /\ e.plen \in Nat
           /\ d.plen = e.plen => Leading(rt, d, At(k, l))
<1>1. PICK q \in DOMAIN rt : Longest(rt, q, At(k, j)) /\ d.ix = rt[q] /\ d.plen = q.len
  BY Zenon DEF Leading
<1>2. PICK r \in DOMAIN rt : Longest(rt, r, At(k, l)) /\ e.ix = rt[r] /\ e.plen = r.len
  BY Zenon DEF Leading
<1>3. q \in AllPrefixes /\ r \in AllPrefixes /\ q.len \in Nat /\ r.len \in Nat
  BY DefaultHolds
<1>4. Holds(q, At(k, j)) /\ q.len <= PBits
  BY <1>1 DEF Longest
<1>5. Holds(q, At(k, l))
  BY <1>3, <1>4, ShortSpan
<1>6. q.len <= r.len
  BY <1>2, <1>5 DEF Longest
<1>7. ASSUME q.len = r.len
      PROVE  Leading(rt, d, At(k, l))
  <2>1. Longest(rt, q, At(k, l))
    BY <1>2, <1>5, <1>7 DEF Longest
  <2> QED  BY <1>1, <2>1, Zenon DEF Leading
<1> QED  BY <1>1, <1>2, <1>3, <1>6, <1>7

\* remove_route: the tables lead where they did but for the route that is gone.
LEMMA RemoveTables ==
    ASSUME Tables, NEW p \in Prefixes, NEW via, DirectRemoveRoute(p, via), "pruned" \notin faults'
    PROVE  /\ RoutesFit(rtable') /\ TablesFit(tbl', sec', sempty') /\ TablesLead(rtable', tbl', sec')
           /\ ~Stopped("remove", p)
<1> DEFINE new == [ix |-> rtable[Cover(p)], plen |-> Cover(p).len]
           after == Written("remove", p, new)
           primary == WrittenPrimary("remove", p, new)
           prunes == Prunes(p, after)
           pruned(k) == {i \in prunes : Last("remove", p, i) = k}
           freed == [k \in 1 .. Cardinality(prunes) |->
                       CHOOSE i \in prunes : Cardinality({j \in prunes : j > i}) = k - 1]
           i0 == Start(p)
           ent(k, j) == EntryAt(primary, after, k, j)
           old(k, j) == EntryAt(tbl, sec, k, j)
<1>0. p \in DOMAIN rtable /\ p # Default /\ rtable' = [q \in DOMAIN rtable \ {p} |-> rtable[q]]
  BY Zenon DEF DirectRemoveRoute
<1>1. tbl' = [k \in Primary |->
                IF pruned(k) = {} THEN primary[k]
                ELSE LET e == after[tbl[CHOOSE i \in pruned(k) : TRUE].ix][0]
                     IN  [sec |-> FALSE, ix |-> e.ix, plen |-> e.plen]]
  BY Zenon DEF DirectRemoveRoute
<1>1a. sec' = [s \in DOMAIN sec |-> IF \E i \in prunes : tbl[i].ix = s THEN Unused ELSE after[s]]
  BY Zenon DEF DirectRemoveRoute
<1>1b. sempty' = [k \in DOMAIN freed |-> tbl[freed[k]].ix] \o sempty
  BY Zenon DEF DirectRemoveRoute
<1>1c. ASSUME NEW k \in prunes
       PROVE  ~(after[tbl[k].ix][0].plen > PBits)
  <2>1. faults' = faults \cup (IF \E i \in prunes : after[tbl[i].ix][0].plen > PBits THEN {"pruned"} ELSE {})
    BY Zenon DEF DirectRemoveRoute
  <2> HIDE DEF prunes, after
  <2> QED  BY <2>1
<1>2. /\ p \in AllPrefixes /\ Asks("remove", p) /\ new \in [ix : Nat, plen : Nat] /\ new.plen <= p.len
      /\ p.len > PBits => tbl[i0].sec
  BY <1>0, RemoveAsks
<1>3. RoutesFit(rtable') /\ DOMAIN rtable' \subseteq AllPrefixes
  <2>1. 0 \in Nat
    OBVIOUS
  <2>2. RoutesFit(rtable')
    BY <1>0, <1>2, <2>1, RoutesStayFit DEF Tables
  <2> QED  BY <2>2 DEF RoutesFit
<1>4. ~Stopped("remove", p) /\ PrimaryWalk("remove", p) \subseteq Span(p)
  BY <1>2, PrimaryWalkIs
<1>5. /\ p.len \in Nat /\ PBits \in Nat /\ Span(p) \subseteq Primary /\ i0 \in Primary /\ 0 \in Low
      /\ Primary \subseteq Nat
  <2>1. 0 \in Low /\ Primary \subseteq Nat
    BY Sizes
  <2> QED  BY <1>2, <2>1, SpanHolds
<1>6. /\ \A k \in Primary : primary[k].sec = tbl[k].sec /\ (tbl[k].sec => primary[k] = tbl[k])
      /\ after \in Seq(LowTable) /\ DOMAIN after = DOMAIN sec
      /\ primary \in HighTables
      /\ \A k \in Primary, j \in Low :
            ent(k, j) = IF Holds(p, At(k, j)) /\ old(k, j).plen = p.len THEN new ELSE old(k, j)
  <2> HIDE DEF new
  <2>1. /\ primary \in [Primary -> [sec : BOOLEAN, ix : Nat, plen : Nat]]
        /\ after \in Seq(LowTable) /\ DOMAIN after = DOMAIN sec
        /\ \A k \in Primary : primary[k].sec = tbl[k].sec /\ (tbl[k].sec => primary[k] = tbl[k])
        /\ \A k \in Primary, j \in Low :
              ent(k, j) = IF Holds(p, At(k, j)) /\ Hit("remove", p, old(k, j)) THEN new ELSE old(k, j)
    BY <1>2, WrittenIs
  <2>2. \A k \in Primary, j \in Low : Hit("remove", p, old(k, j)) <=> old(k, j).plen = p.len
    BY DEF Hit
  <2> HIDE DEF primary, after, ent, old
  <2> QED  BY <2>1, <2>2 DEF HighTables
<1>7. TablesFit(primary, after, sempty) /\ \A k \in Primary : ~primary[k].sec => primary[k].plen <= PBits
  <2> HIDE DEF new
  <2> QED  BY <1>2, WrittenFits
<1> HIDE DEF new
<1>8. \A k \in Primary, j \in Low : Leading(rtable', ent(k, j), At(k, j))
  <2> SUFFICES ASSUME NEW k \in Primary, NEW j \in Low
               PROVE  Leading(rtable', ent(k, j), At(k, j))
    OBVIOUS
  <2> HIDE DEF ent
  <2>1. ent(k, j) = IF Holds(p, At(k, j)) /\ EntryAt(tbl, sec, k, j).plen = p.len
                      THEN [ix |-> rtable[Cover(p)], plen |-> Cover(p).len] ELSE EntryAt(tbl, sec, k, j)
    BY <1>6 DEF new, old
  <2> QED  BY <1>0, <2>1, RemoveLeads
<1>9. \A k \in Primary, j \in Low : tbl[k].sec => ent(k, j) = after[tbl[k].ix][j] /\ old(k, j) = sec[tbl[k].ix][j]
  BY <1>6 DEF EntryAt
<1> HIDE DEF after, primary, prunes, ent, old, freed
<1>10. \A k \in prunes : /\ k \in PrimaryWalk("remove", p) /\ k \in Primary /\ tbl[k].sec
                         /\ SameLength(after[tbl[k].ix])
  BY <1>4, <1>5 DEF prunes, Prunes
<1>11. ASSUME NEW k \in Primary, tbl[k].sec, \A j \in Low : ent(k, j).plen <= PBits
       PROVE  p.len > PBits /\ k = i0 /\ k \in prunes
  <2>1. PICK j \in Low : sec[tbl[k].ix][j].plen > PBits
    BY <1>11 DEF Tables, TablesLead
  <2>2. old(k, j).plen > PBits /\ ent(k, j).plen <= PBits /\ old(k, j).plen \in Nat
    BY <1>9, <1>11, <2>1, EntryFacts DEF old
  <2>3. Holds(p, At(k, j)) /\ old(k, j).plen = p.len
    BY <1>5, <1>6, <2>2
  <2>4. p.len > PBits /\ k = i0
    BY <1>2, <1>5, <2>2, <2>3, LongSpan
  <2>5. k \in PrimaryWalk("remove", p)
    BY <1>2, <2>4, PrimaryWalkIs
  <2>6. ~Stops("remove", p, k)
    BY <1>2, <1>4, <2>5, LastIs
  <2>7. SameLength(after[tbl[k].ix])
    <3> SUFFICES ASSUME NEW j1 \in Low, NEW j2 \in Low
                 PROVE  ent(k, j1).plen = ent(k, j2).plen
      BY <1>9, <1>11 DEF SameLength
    <3>1. Leading(rtable', ent(k, j1), At(k, j1)) /\ Leading(rtable', ent(k, j2), At(k, j2))
      BY <1>8
    <3>2. /\ ent(k, j1).plen <= ent(k, j2).plen /\ ent(k, j1).plen \in Nat /\ ent(k, j2).plen \in Nat
      BY <1>3, <1>11, <3>1, ShortLeads
    <3>3. ent(k, j2).plen <= ent(k, j1).plen
      BY <1>3, <1>11, <3>1, ShortLeads
    <3> QED  BY <3>2, <3>3
  <2> QED  BY <1>11, <2>4, <2>5, <2>6, <2>7 DEF prunes, Prunes
<1>12. ASSUME NEW k \in prunes
       PROVE  \A j \in Low : ent(k, j).plen <= PBits /\ ent(k, j).plen = ent(k, 0).plen
  <2>1. k \in Primary /\ tbl[k].sec /\ SameLength(after[tbl[k].ix])
    BY <1>10
  <2>2. ~(after[tbl[k].ix][0].plen > PBits)
    BY <1>1c
  <2>3. ent(k, 0) = after[tbl[k].ix][0] /\ \A j \in Low : ent(k, j) = after[tbl[k].ix][j]
    BY <1>5, <1>9, <2>1
  <2>4. \A j \in Low : ent(k, j).plen = ent(k, 0).plen
    BY <1>5, <2>1, <2>3 DEF SameLength
  <2>5. ent(k, 0).plen \in Nat
    BY <1>3, <1>5, <1>8, <2>1, DefaultHolds DEF Leading
  <2> QED  BY <1>5, <2>2, <2>3, <2>4, <2>5
<1>13. \A k \in prunes : k = i0 /\ p.len > PBits
  BY <1>10, <1>11, <1>12
<1>14. ASSUME NEW k \in Primary, primary[k].sec, k \notin prunes
       PROVE  \E j \in Low : after[primary[k].ix][j].plen > PBits
  <2>1. tbl[k].sec /\ primary[k] = tbl[k]
    BY <1>6, <1>14
  <2>2. PICK j \in Low : ~(ent(k, j).plen <= PBits)
    BY <1>11, <1>14, <2>1
  <2>3. ent(k, j).plen \in Nat
    BY <1>3, <1>8, DefaultHolds DEF Leading
  <2> QED  BY <1>5, <1>9, <2>1, <2>2, <2>3
<1>15. CASE prunes = {}
  <2>1. tbl' = primary
    <3>1. \A k \in Primary : pruned(k) = {}
      BY <1>15
    <3>2. tbl' = [k \in Primary |-> primary[k]]
      <4> HIDE DEF pruned
      <4> QED  BY <1>1, <3>1, Zenon
    <3>3. primary = [k \in Primary |-> primary[k]]
      BY <1>6 DEF HighTables
    <3> QED  BY <3>2, <3>3
  <2>2. sec' = after
    <3>1. sec' = [s \in DOMAIN after |-> after[s]]
      BY <1>1a, <1>6, <1>15
    <3>2. after = [s \in DOMAIN after |-> after[s]]
      BY <1>6
    <3> QED  BY <3>1, <3>2
  <2>3. sempty' = sempty
    <3> DEFINE f == [k \in DOMAIN freed |-> tbl[freed[k]].ix]
    <3>1. DOMAIN freed = 1 .. 0
      BY <1>15, FS_EmptySet DEF freed
    <3>2. f \in [1 .. 0 -> Nat]
      BY <3>1
    <3> HIDE DEF f
    <3>3. f \in Seq(Nat) /\ Len(f) = 0
      BY <3>2, FunctionIsSeq
    <3>4. f = << >>
      BY <3>3, EmptySeq
    <3>5. sempty \in Seq(Nat)
      BY DEF Tables, TablesFit
    <3>6. f \o sempty = sempty
      BY <3>4, <3>5, ConcatEmptySeq
    <3> QED  BY <1>1b, <3>6 DEF f
  <2>4. TablesLead(rtable', tbl', sec')
    BY <1>7, <1>8, <1>14, <1>15, <2>1, <2>2 DEF TablesLead, ent
  <2> QED  BY <1>3, <1>4, <1>7, <2>1, <2>2, <2>3, <2>4
<1>16. CASE prunes # {}
  <2>1. prunes = {i0} /\ p.len > PBits /\ tbl[i0].sec
    BY <1>10, <1>13, <1>16
  <2> DEFINE s == tbl[i0].ix
             e == after[s][0]
  <2>2. Last("remove", p, i0) = i0
    <3> DEFINE breaks == {sec[s][j].plen : j \in {j \in SecWalk("remove", p, s) : Breaks("remove", p, sec[s][j])}}
    <3>1. Last("remove", p, i0) = IF breaks = {} THEN i0 ELSE SkipTo(i0, CHOOSE n \in breaks : TRUE)
      BY <2>1 DEF Last
    <3>2. ASSUME NEW j \in SecWalk("remove", p, s), Breaks("remove", p, sec[s][j])
          PROVE  FALSE
      <4>1. i0 \in Span(p) /\ SecSpan(p) \subseteq Low
        BY <1>2, SpanHolds
      <4>2. j \in Low
        BY <1>2, <2>1, <4>1, SecWalkIs
      <4>3. sec[s][j].plen \in Nat
        BY <1>5, <1>9, <2>1, <4>2, EntryFacts DEF old
      <4> HIDE DEF s, i0
      <4> QED  BY <1>5, <2>1, <3>2, <4>3 DEF Breaks
    <3>3. breaks = {}
      BY <3>2
    <3> QED  BY <3>1, <3>3
  <2>3. pruned(i0) = {i0} /\ \A k \in Primary \ {i0} : pruned(k) = {}
    BY <2>1, <2>2
  <2>4. e = ent(i0, 0) /\ e \in [ix : Nat, plen : Nat]
    <3>1. e = ent(i0, 0)
      BY <1>5, <1>9, <2>1
    <3>2. s \in DOMAIN after
      BY <1>5, <1>6, <2>1 DEF Tables, TablesFit
    <3>3. after[s] \in LowTable
      BY <1>6, <3>2
    <3> QED  BY <1>5, <3>1, <3>3 DEF LowTable
  <2>5. /\ tbl' \in HighTables /\ tbl'[i0] = [sec |-> FALSE, ix |-> e.ix, plen |-> e.plen]
        /\ \A k \in Primary \ {i0} : tbl'[k] = primary[k]
    <3> DEFINE R == [sec : BOOLEAN, ix : Nat, plen : Nat]
    <3>1. (CHOOSE i \in pruned(i0) : TRUE) = i0
      BY <2>3
    <3> HIDE DEF pruned, i0
    <3>2. tbl'[i0] = [sec |-> FALSE, ix |-> e.ix, plen |-> e.plen]
      BY <1>1, <1>5, <2>3, <3>1, Zenon
    <3>3. \A k \in Primary \ {i0} : tbl'[k] = primary[k]
      BY <1>1, <2>3, Zenon
    <3>4. tbl'[i0] \in R
      BY <2>4, <3>2
    <3>5. tbl' = [k \in Primary |-> tbl'[k]]
      BY <1>1
    <3>6. \A k \in Primary : primary[k] \in R
      BY <1>6 DEF HighTables
    <3> HIDE DEF R
    <3>7. \A k \in Primary : tbl'[k] \in R
      BY <3>3, <3>4, <3>6
    <3>8. tbl' \in [Primary -> R]
      BY <3>5, <3>7
    <3> QED  BY <3>2, <3>3, <3>8 DEF HighTables, R
  <2>6. sec' \in LowTables(DOMAIN after) /\ sec'[s] = Unused /\ \A u \in DOMAIN after \ {s} : sec'[u] = after[u]
    <3>1. \A u \in DOMAIN after : after[u] \in LowTable
      BY <1>6
    <3>2. Unused \in LowTable
      BY DEF Unused, LowTable
    <3>3. sec' = [u \in DOMAIN after |-> IF u = s THEN Unused ELSE after[u]]
      <4>1. \A u : (\E i \in prunes : tbl[i].ix = u) <=> u = s
        BY <2>1
      <4> HIDE DEF s
      <4> QED  BY <1>1a, <1>6, <4>1, Zenon
    <3>4. s \in DOMAIN after
      BY <1>5, <1>6, <2>1 DEF Tables, TablesFit
    <3> HIDE DEF s
    <3> QED  BY <3>1, <3>2, <3>3, <3>4 DEF LowTables
  <2>7. sempty' = <<s>> \o sempty
    <3> DEFINE f == [k \in DOMAIN freed |-> tbl[freed[k]].ix]
    <3>1. Cardinality(prunes) = 1
      BY <2>1, FS_Singleton
    <3>2. DOMAIN freed = 1 .. 1
      BY <3>1 DEF freed
    <3>3. freed[1] = i0
      <4>1. freed[1] = CHOOSE i \in prunes : Cardinality({j \in prunes : j > i}) = 1 - 1
        <5>1. 1 \in 1 .. Cardinality(prunes)
          BY <3>1
        <5> HIDE DEF prunes
        <5> QED  BY <5>1 DEF freed
      <4>2. {j \in prunes : j > i0} = {}
        <5>1. i0 \in Nat
          BY <1>5
        <5> HIDE DEF i0
        <5>2. ~(i0 > i0)
          BY <5>1
        <5> QED  BY <2>1, <5>2
      <4>3. Cardinality({j \in prunes : j > i0}) = 1 - 1
        BY <4>2, FS_EmptySet
      <4> HIDE DEF i0
      <4> QED  BY <2>1, <4>1, <4>3
    <3>4. f = <<s>>
      <4>1. f = [k \in 1 .. 1 |-> s]
        BY <3>2, <3>3
      <4> HIDE DEF f, s
      <4> QED  BY <4>1
    <3> HIDE DEF f, s
    <3> QED  BY <1>1b, <3>4 DEF f
  <2>8. primary[i0] = tbl[i0] /\ primary[i0].sec
    BY <1>5, <1>6, <2>1
  <2> HIDE DEF i0, e
  <2>9. /\ TablesFit(tbl', sec', <<s>> \o sempty)
        /\ ~tbl'[i0].sec /\ tbl'[i0].plen = e.plen
        /\ \A k \in Primary \ {i0} : tbl'[k] = primary[k]
        /\ \A k \in Primary \ {i0}, j \in Low : EntryAt(tbl', sec', k, j) = EntryAt(primary, after, k, j)
        /\ \A j \in Low : EntryAt(tbl', sec', i0, j) = e
    <3>1. s = primary[i0].ix
      BY <2>8
    <3> HIDE DEF s
    <3> QED  BY <1>5, <1>7, <2>4, <2>5, <2>6, <2>8, <3>1, PrunedFits
  <2> HIDE DEF s
  <2>10. \A k \in Primary : ~tbl'[k].sec => tbl'[k].plen <= PBits
    <3>1. e.plen <= PBits
      BY <1>5, <1>12, <2>1, <2>4
    <3> QED  BY <1>7, <2>9, <3>1
  <2>11. ASSUME NEW k \in Primary, tbl'[k].sec
         PROVE  \E j \in Low : sec'[tbl'[k].ix][j].plen > PBits
    <3>1. k # i0 /\ tbl'[k] = primary[k]
      BY <2>9, <2>11
    <3>2. PICK j \in Low : after[primary[k].ix][j].plen > PBits
      BY <1>14, <2>1, <2>11, <3>1
    <3>3. EntryAt(tbl', sec', k, j) = EntryAt(primary, after, k, j)
      BY <2>9, <3>1
    <3>4. sec'[tbl'[k].ix][j] = after[primary[k].ix][j]
      BY <2>11, <3>1, <3>3 DEF EntryAt
    <3> QED  BY <3>2, <3>4
  <2>12. ASSUME NEW k \in Primary, NEW j \in Low
         PROVE  Leading(rtable', EntryAt(tbl', sec', k, j), At(k, j))
    <3>1. CASE k # i0
      <4>1. EntryAt(tbl', sec', k, j) = ent(k, j)
        BY <2>9, <3>1 DEF ent
      <4> QED  BY <1>8, <4>1
    <3>2. CASE k = i0
      <4>1. EntryAt(tbl', sec', k, j) = ent(k, 0)
        BY <2>4, <2>9, <3>2
      <4>2. ent(k, 0).plen <= PBits /\ ent(k, j).plen = ent(k, 0).plen
        BY <1>5, <1>12, <2>1, <3>2
      <4>3. Leading(rtable', ent(k, 0), At(k, 0)) /\ Leading(rtable', ent(k, j), At(k, j))
        BY <1>5, <1>8
      <4>4. Leading(rtable', ent(k, 0), At(k, j))
        <5>1. DOMAIN rtable' \subseteq AllPrefixes /\ 0 \in Low
          BY <1>3, <1>5
        <5> QED  BY <5>1, <4>2, <4>3, ShortLeads
      <4> QED  BY <4>1, <4>4
    <3> QED  BY <3>1, <3>2
  <2>13. TablesLead(rtable', tbl', sec')
    BY <2>10, <2>11, <2>12 DEF TablesLead
  <2> QED  BY <1>3, <1>4, <2>7, <2>9, <2>13
<1> QED  BY <1>15, <1>16

\* What PortsFit says of the parts of the record.
LEMMA PortFacts ==
    ASSUME NEW vs, PortsFit(vs)
    PROVE  /\ vs.all \in Seq(Port) /\ Len(vs.all) \in Nat /\ DOMAIN vs.all = 1 .. Len(vs.all)
           /\ vs.head \in Seq(Nat) /\ vs.empty \in Seq(Nat) /\ Listed(vs.head) /\ Listed(vs.empty)
           /\ \A v \in DOMAIN vs.all : vs.all[v] \in Port /\ v \in Nat /\ vs.all[v].ref \in Int
                                       /\ vs.all[v].via \in Via \cup {None}
           /\ Ext!ToSet(vs.head) \cup Ext!ToSet(vs.empty) = DOMAIN vs.all
           /\ \A v \in DOMAIN vs.all : v \in Ext!ToSet(vs.head) <=> vs.all[v].ref > 0
           /\ \A v \in DOMAIN vs.all : v \in Ext!ToSet(vs.empty) <=> vs.all[v].ref <= 0
           /\ vs = [all |-> vs.all, head |-> vs.head, empty |-> vs.empty]
<1>1. /\ vs \in [all : Seq(Port), head : Seq(Nat), empty : Seq(Nat)] /\ Listed(vs.head) /\ Listed(vs.empty)
      /\ Ext!ToSet(vs.head) \cup Ext!ToSet(vs.empty) = DOMAIN vs.all
      /\ \A v \in DOMAIN vs.all : v \in Ext!ToSet(vs.head) <=> vs.all[v].ref > 0
      /\ \A v \in DOMAIN vs.all : v \in Ext!ToSet(vs.empty) <=> vs.all[v].ref <= 0
  BY DEF PortsFit
<1>2. vs.all \in Seq(Port) /\ vs.head \in Seq(Nat) /\ vs.empty \in Seq(Nat) /\ vs = [all |-> vs.all, head |-> vs.head, empty |-> vs.empty]
  BY <1>1
<1>3. Len(vs.all) \in Nat /\ DOMAIN vs.all = 1 .. Len(vs.all) /\ vs.all \in [1 .. Len(vs.all) -> Port]
  BY <1>2, LenProperties
<1> DEFINE n == Len(vs.all)
<1> HIDE DEF n
<1>4. ASSUME NEW v \in DOMAIN vs.all
      PROVE  vs.all[v] \in Port /\ v \in Nat
  <2>1. v \in 1 .. n /\ n \in Nat /\ vs.all \in [1 .. n -> Port]
    BY <1>3 DEF n
  <2> QED  BY <2>1
<1>5. \A v \in DOMAIN vs.all : vs.all[v].ref \in Int /\ vs.all[v].via \in Via \cup {None}
  BY <1>4 DEF Port
<1> QED  BY <1>1, <1>2, <1>3, <1>4, <1>5

\* Two of the three fields are changed.
LEMMA TwoFields ==
    ASSUME NEW A, NEW B, NEW C, NEW a \in A, NEW b \in B, NEW c \in C, NEW d \in B, NEW e \in C,
           NEW r, r = [[all |-> a, head |-> b, empty |-> c] EXCEPT !.head = d, !.empty = e]
    PROVE  r \in [all : A, head : B, empty : C] /\ r.all = a /\ r.head = d /\ r.empty = e
  OBVIOUS

\* One port is changed.
LEMMA PortChanged ==
    ASSUME NEW all \in Seq(Port), NEW v \in DOMAIN all, NEW port \in Port,
           NEW r, r = [all EXCEPT ![v] = port]
    PROVE  /\ r \in Seq(Port) /\ Len(r) = Len(all) /\ DOMAIN r = DOMAIN all /\ r[v] = port
           /\ \A u \in DOMAIN all : u # v => r[u] = all[u]
<1>1. DOMAIN all = 1 .. Len(all)
  BY LenProperties
<1>2. v \in 1 .. Len(all)
  BY <1>1
<1>3. r \in Seq(Port) /\ Len(r) = Len(all) /\ \A u \in 1 .. Len(all) : r[u] = IF u = v THEN port ELSE all[u]
  BY <1>2, ExceptSeq
<1>4. DOMAIN r = 1 .. Len(r)
  BY <1>3, LenProperties
<1> QED  BY <1>1, <1>2, <1>3, <1>4

\* vport_unref: a port leaves the list with its last reference.
LEMMA UnrefIs ==
    ASSUME NEW vs, PortsFit(vs), NEW v \in DOMAIN vs.all
    PROVE  LET r == Unref(vs, v)
           IN  /\ PortsFit(r) /\ DOMAIN r.all = DOMAIN vs.all
               /\ \A u \in DOMAIN vs.all : r.all[u].via = vs.all[u].via
               /\ \A u \in DOMAIN vs.all : u # v => r.all[u] = vs.all[u]
               /\ r.all[v].ref = vs.all[v].ref - 1
<1> DEFINE port == [via |-> vs.all[v].via, ref |-> vs.all[v].ref - 1]
           all == [vs.all EXCEPT ![v] = port]
           less == [vs EXCEPT !.all[v].ref = @ - 1]
           moved == [[all |-> all, head |-> vs.head, empty |-> vs.empty] EXCEPT !.head = Unlinked(vs.head, v),
                                                                                !.empty = <<v>> \o vs.empty]
           kept == [all |-> all, head |-> vs.head, empty |-> vs.empty]
           r == Unref(vs, v)
           H == Ext!ToSet(vs.head)
           E == Ext!ToSet(vs.empty)
<1>1. /\ vs.all \in Seq(Port) /\ vs.head \in Seq(Nat) /\ vs.empty \in Seq(Nat) /\ Listed(vs.head) /\ Listed(vs.empty)
      /\ vs.all[v] \in Port /\ v \in Nat /\ vs.all[v].ref \in Int /\ vs.all[v].via \in Via \cup {None}
      /\ H \cup E = DOMAIN vs.all
      /\ \A u \in DOMAIN vs.all : /\ vs.all[u].ref \in Int
                                  /\ u \in H <=> vs.all[u].ref > 0
                                  /\ u \in E <=> vs.all[u].ref <= 0
      /\ vs = [all |-> vs.all, head |-> vs.head, empty |-> vs.empty]
  BY PortFacts
<1>2. port \in Port /\ port.ref = vs.all[v].ref - 1 /\ port.via = vs.all[v].via
  BY <1>1 DEF Port
<1> HIDE DEF H, E
<1>3. less = kept
  <2>1. vs.all[v] = [via |-> vs.all[v].via, ref |-> vs.all[v].ref]
    BY <1>1 DEF Port
  <2>2. [vs.all[v] EXCEPT !.ref = @ - 1] = port
    BY <2>1
  <2>3. less = [vs EXCEPT !.all = [vs.all EXCEPT ![v] = [vs.all[v] EXCEPT !.ref = @ - 1]]]
    BY <1>1
  <2>4. less = [vs EXCEPT !.all = all]
    BY <2>2, <2>3
  <2> HIDE DEF less, all
  <2> QED  BY <1>1, <2>4
<1>4. r = IF port.ref # 0 THEN kept ELSE moved
  <2>1. r = IF less.all[v].ref # 0 THEN less ELSE [less EXCEPT !.head = Unlinked(vs.head, v), !.empty = <<v>> \o vs.empty]
    BY <1>3 DEF Unref
  <2>2. kept.all[v] = port
    BY <1>1
  <2>3. [kept EXCEPT !.head = Unlinked(vs.head, v), !.empty = <<v>> \o vs.empty] = moved
    OBVIOUS
  <2> HIDE DEF less, kept, port, moved, r
  <2> QED  BY <1>3, <2>1, <2>2, <2>3
<1>5. /\ all \in Seq(Port) /\ DOMAIN all = DOMAIN vs.all /\ all[v] = port
      /\ \A u \in DOMAIN vs.all : u # v => all[u] = vs.all[u]
  <2> HIDE DEF port
  <2> QED  BY <1>1, <1>2, PortChanged
<1> HIDE DEF all, port, less, r
<1>6. /\ \A u \in DOMAIN vs.all : all[u].via = vs.all[u].via
      /\ \A u \in DOMAIN vs.all : u # v => all[u].ref = vs.all[u].ref
      /\ all[v].ref = vs.all[v].ref - 1
  BY <1>2, <1>5
<1>7. CASE port.ref # 0
  <2>1. r = kept /\ r.all = all /\ r.head = vs.head /\ r.empty = vs.empty
    BY <1>4, <1>7
  <2>2. r \in [all : Seq(Port), head : Seq(Nat), empty : Seq(Nat)]
    BY <1>1, <1>5, <2>1
  <2>3. \A u \in DOMAIN all : (u \in H <=> all[u].ref > 0) /\ (u \in E <=> all[u].ref <= 0)
    BY <1>1, <1>2, <1>5, <1>6, <1>7, SMTT(30)
  <2>4. PortsFit(r)
    BY <1>1, <1>5, <2>1, <2>2, <2>3 DEF PortsFit, H, E
  <2> QED  BY <1>5, <1>6, <2>1, <2>4 DEF r
<1>8. CASE port.ref = 0
  <2>1. r = moved
    BY <1>4, <1>8
  <2>2. v \in H /\ v \notin E
    BY <1>1, <1>2, <1>8
  <2> DEFINE d == Unlinked(vs.head, v)
             e == <<v>> \o vs.empty
  <2>3. d \in Seq(Nat) /\ Listed(d) /\ Ext!ToSet(d) = H \ {v}
    BY <1>1, <2>2, UnlinkedIs DEF H
  <2>4. e \in Seq(Nat) /\ Listed(e) /\ Ext!ToSet(e) = E \cup {v}
    BY <1>1, <2>2, ConsOf DEF E
  <2>5. r \in [all : Seq(Port), head : Seq(Nat), empty : Seq(Nat)] /\ r.all = all /\ r.head = d /\ r.empty = e
    <3>1. r = [[all |-> all, head |-> vs.head, empty |-> vs.empty] EXCEPT !.head = d, !.empty = e]
      BY <2>1
    <3> HIDE DEF d, e, moved
    <3> QED  BY <1>1, <1>5, <2>3, <2>4, <3>1, TwoFields
  <2> HIDE DEF d, e
  <2>6. \A u \in DOMAIN all : (u \in H \ {v} <=> all[u].ref > 0) /\ (u \in E \cup {v} <=> all[u].ref <= 0)
    BY <1>1, <1>2, <1>5, <1>6, <1>8
  <2>7. (H \ {v}) \cup (E \cup {v}) = DOMAIN all
    BY <1>1, <1>5, <2>2
  <2>8. PortsFit(r)
    BY <2>3, <2>4, <2>5, <2>6, <2>7 DEF PortsFit
  <2> QED  BY <1>5, <1>6, <2>5, <2>8 DEF r
<1> QED  BY <1>7, <1>8

\* vport_find: the port for via, on one of the lists.
LEMMA FoundIs ==
    ASSUME NEW vs, PortsFit(vs), NEW via \in Via
    PROVE  LET v == Found(vs, via)
           IN  \/ v \in DOMAIN vs.all /\ v \in Ext!ToSet(vs.head) /\ vs.all[v].via = via
               \/ v \in DOMAIN vs.all /\ vs.empty # << >> /\ vs.empty[1] = v
               \/ v = 0
               \/ v = Len(vs.all) + 1 /\ vs.empty = << >>
<1>1. /\ vs.head \in Seq(Nat) /\ vs.empty \in Seq(Nat) /\ Listed(vs.empty)
      /\ Ext!ToSet(vs.head) \cup Ext!ToSet(vs.empty) = DOMAIN vs.all
  BY PortFacts
<1>2. CASE Match(vs, via) # {}
  <2> DEFINE k == CHOOSE k \in Match(vs, via) : \A l \in Match(vs, via) : k <= l
  <2>1. Match(vs, via) \subseteq DOMAIN vs.head
    BY DEF Match
  <2>2. DOMAIN vs.head = 1 .. Len(vs.head) /\ Len(vs.head) \in Nat
    BY <1>1, LenProperties
  <2>3. Match(vs, via) \in SUBSET Nat
    BY <2>1, <2>2
  <2>4. \E n \in Match(vs, via) : \A m \in Match(vs, via) : n <= m
    BY <1>2, <2>3, LeastNat
  <2>5. k \in Match(vs, via)
    BY <2>4
  <2> HIDE DEF k
  <2>6. k \in DOMAIN vs.head /\ vs.all[vs.head[k]].via = via
    BY <2>5 DEF Match
  <2>7. Found(vs, via) = vs.head[k]
    BY <1>2 DEF Found, k
  <2>8. vs.head[k] \in Ext!ToSet(vs.head)
    BY <2>6, SetOf
  <2> QED  BY <1>1, <2>6, <2>7, <2>8
<1>3. CASE Match(vs, via) = {} /\ vs.empty # << >>
  <2>1. Found(vs, via) = vs.empty[1]
    BY <1>3 DEF Found
  <2>2. vs.empty[1] \in Ext!ToSet(vs.empty)
    BY <1>1, <1>3, TailOf
  <2> QED  BY <1>1, <1>3, <2>1, <2>2
<1>4. CASE Match(vs, via) = {} /\ vs.empty = << >>
  BY <1>4 DEF Found
<1> QED  BY <1>2, <1>3, <1>4

\* A new port is free.
LEMMA WithEmptyIs ==
    ASSUME NEW vs, PortsFit(vs), NEW via \in Via
    PROVE  LET v == Found(vs, via)
               w == WithEmpty(vs, via)
           IN  /\ v \in Nat /\ PortsFit(w) /\ DOMAIN vs.all \subseteq DOMAIN w.all
               /\ \A u \in DOMAIN vs.all : w.all[u] = vs.all[u]
               /\ \A u \in DOMAIN w.all \ DOMAIN vs.all : w.all[u].ref = 0
               /\ v # 0 => /\ v \in DOMAIN w.all
                           /\ \/ v \in Ext!ToSet(w.head) /\ w.all[v].via = via
                              \/ w.empty # << >> /\ w.empty[1] = v
<1> DEFINE v == Found(vs, via)
           w == WithEmpty(vs, via)
           n == Len(vs.all)
           H == Ext!ToSet(vs.head)
           E == Ext!ToSet(vs.empty)
<1>1. /\ vs.all \in Seq(Port) /\ n \in Nat /\ DOMAIN vs.all = 1 .. n
      /\ vs.head \in Seq(Nat) /\ vs.empty \in Seq(Nat) /\ Listed(vs.head) /\ Listed(vs.empty)
      /\ H \cup E = DOMAIN vs.all
      /\ \A u \in DOMAIN vs.all : /\ vs.all[u].ref \in Int
                                  /\ u \in H <=> vs.all[u].ref > 0
                                  /\ u \in E <=> vs.all[u].ref <= 0
      /\ vs = [all |-> vs.all, head |-> vs.head, empty |-> vs.empty]
  BY PortFacts
<1>2. \/ v \in DOMAIN vs.all /\ v \in Ext!ToSet(vs.head) /\ vs.all[v].via = via
      \/ v \in DOMAIN vs.all /\ vs.empty # << >> /\ vs.empty[1] = v
      \/ v = 0
      \/ v = n + 1 /\ vs.empty = << >>
  BY FoundIs
<1>3. w = IF v <= n THEN vs
          ELSE [vs EXCEPT !.all = Append(@, [via |-> None, ref |-> 0]), !.empty = <<n + 1>>]
  BY DEF WithEmpty
<1> HIDE DEF v, w, n
<1>4. CASE v # n + 1
  <2>1. v \in Nat /\ v <= n
    BY <1>1, <1>2, <1>4
  <2>2. w = vs
    BY <1>3, <2>1
  <2> QED  BY <1>1, <1>2, <1>4, <2>1, <2>2 DEF v, w
<1>5. CASE v = n + 1
  <2>1. vs.empty = << >> /\ ~(v <= n) /\ v \in Nat
    BY <1>1, <1>2, <1>5
  <2> DEFINE port == [via |-> None, ref |-> 0]
             all == Append(vs.all, port)
             empty == <<v>>
  <2>2. port \in Port
    BY DEF Port
  <2>3. w = [vs EXCEPT !.all = all, !.empty = empty]
    BY <1>3, <1>5, <2>1
  <2>4. all \in Seq(Port) /\ Len(all) = n + 1 /\ (\A u \in 1 .. n : all[u] = vs.all[u]) /\ all[n + 1] = port
    BY <1>1, <2>2, AppendProperties DEF n
  <2>5. DOMAIN all = 1 .. n + 1
    BY <2>4, LenProperties
  <2>6. empty \in Seq(Nat) /\ Listed(empty) /\ Ext!ToSet(empty) = {v} /\ empty # << >> /\ empty[1] = v
    <3>1. empty \in Seq(Nat) /\ DOMAIN empty = {1} /\ empty[1] = v /\ empty # << >>
      BY <2>1
    <3> QED  BY <3>1, SetOf DEF Listed
  <2> HIDE DEF all, empty
  <2>7. w \in [all : Seq(Port), head : Seq(Nat), empty : Seq(Nat)] /\ w.all = all /\ w.head = vs.head /\ w.empty = empty
    BY <1>1, <2>3, <2>4, <2>6
  <2>8. E = {}
    BY <2>1, SetOf
  <2> HIDE DEF H, E
  <2>9. port.ref = 0
    OBVIOUS
  <2> HIDE DEF port
  <2>10. H \cup {v} = DOMAIN all
    BY <1>1, <1>5, <2>5, <2>8
  <2>11. \A u \in DOMAIN all : (u \in H <=> all[u].ref > 0) /\ (u \in {v} <=> all[u].ref <= 0)
    <3> SUFFICES ASSUME NEW u \in 1 .. n + 1
                 PROVE  (u \in H <=> all[u].ref > 0) /\ (u \in {v} <=> all[u].ref <= 0)
      BY <2>5
    <3>1. CASE u = n + 1
      <4>1. u \notin DOMAIN vs.all
        BY <1>1, <3>1
      <4> QED  BY <1>1, <1>5, <2>4, <2>9, <3>1, <4>1
    <3>2. CASE u # n + 1
      <4>0. n \in Nat
        BY <1>1
      <4>1. u \in 1 .. n
        BY <3>2, <4>0
      <4>2. all[u] = vs.all[u] /\ u \in DOMAIN vs.all /\ u \notin E /\ u # v
        BY <1>1, <1>5, <2>4, <2>8, <3>2, <4>1
      <4> QED  BY <1>1, <4>2
    <3> QED  BY <3>1, <3>2
  <2>12. PortsFit(w)
    BY <1>1, <2>6, <2>7, <2>10, <2>11 DEF PortsFit, H
  <2>13. v \in DOMAIN all /\ DOMAIN vs.all \subseteq DOMAIN all /\ \A u \in DOMAIN all \ DOMAIN vs.all : u = n + 1
    BY <1>1, <1>5, <2>5
  <2> QED  BY <1>1, <1>5, <2>1, <2>4, <2>6, <2>7, <2>9, <2>12, <2>13 DEF v, w
<1> QED  BY <1>4, <1>5

\* The end of the allocations: the port is on the list, with one reference more.
LEMMA TakenIs ==
    ASSUME NEW w, PortsFit(w), NEW v \in DOMAIN w.all, NEW via \in Via,
           \/ v \in Ext!ToSet(w.head) /\ w.all[v].via = via
           \/ w.empty # << >> /\ w.empty[1] = v
    PROVE  LET r == Taken(w, v, via)
           IN  /\ PortsFit(r) /\ DOMAIN r.all = DOMAIN w.all
               /\ \A u \in DOMAIN w.all : u # v => r.all[u] = w.all[u]
               /\ r.all[v].via = via
               /\ r.all[v].ref = (IF w.all[v].ref > 0 THEN w.all[v].ref ELSE 0) + 1
<1> DEFINE r == Taken(w, v, via)
           first == w.empty # << >> /\ w.empty[1] = v
           fresh == [via |-> via, ref |-> 0]
           listed == IF first THEN [w EXCEPT !.empty = Tail(@), !.head = <<v>> \o @, !.all[v] = fresh] ELSE w
           H == Ext!ToSet(w.head)
           E == Ext!ToSet(w.empty)
           Records == [all : Seq(Port), head : Seq(Nat), empty : Seq(Nat)]
<1>1. /\ w.all \in Seq(Port) /\ w.head \in Seq(Nat) /\ w.empty \in Seq(Nat) /\ Listed(w.head) /\ Listed(w.empty)
      /\ w.all[v] \in Port /\ v \in Nat /\ w.all[v].ref \in Int
      /\ H \cup E = DOMAIN w.all
      /\ \A u \in DOMAIN w.all : /\ w.all[u].ref \in Int
                                 /\ u \in H <=> w.all[u].ref > 0
                                 /\ u \in E <=> w.all[u].ref <= 0
      /\ w = [all |-> w.all, head |-> w.head, empty |-> w.empty]
  BY PortFacts
<1>2. r = [listed EXCEPT !.all[v].ref = @ + 1]
  BY DEF Taken
<1> HIDE DEF r, H, E
<1>3. w \in Records
  BY <1>1
<1>4. fresh \in Port /\ fresh.ref = 0 /\ fresh.via = via
  BY DEF Port
<1>5. CASE first
  <2> DEFINE head == <<v>> \o w.head
             empty == Tail(w.empty)
             all == [w.all EXCEPT ![v] = fresh]
             one == [via |-> via, ref |-> 1]
             all1 == [all EXCEPT ![v] = one]
  <2>1. Head(w.empty) = v /\ empty \in Seq(Nat) /\ Listed(empty) /\ Ext!ToSet(empty) = E \ {v} /\ v \in E
    BY <1>1, <1>5, TailOf DEF E
  <2>2. v \notin H /\ ~(w.all[v].ref > 0)
    BY <1>1, <2>1
  <2>3. head \in Seq(Nat) /\ Listed(head) /\ Ext!ToSet(head) = H \cup {v}
    BY <1>1, <2>2, ConsOf DEF H
  <2>4. all \in Seq(Port) /\ DOMAIN all = DOMAIN w.all /\ all[v] = fresh /\ \A u \in DOMAIN w.all : u # v => all[u] = w.all[u]
    <3> HIDE DEF fresh
    <3> QED  BY <1>1, <1>4, PortChanged
  <2>5. one \in Port /\ one.ref = 1 /\ one.via = via
    BY DEF Port
  <2>6. /\ all1 \in Seq(Port) /\ DOMAIN all1 = DOMAIN w.all /\ all1[v] = one
        /\ \A u \in DOMAIN w.all : u # v => all1[u] = w.all[u]
    <3> HIDE DEF one, all
    <3> QED  BY <2>4, <2>5, PortChanged
  <2>7. listed \in Records /\ listed.all = all /\ listed.head = head /\ listed.empty = empty
    <3>1. listed = [w EXCEPT !.empty = empty, !.head = head, !.all = all]
      BY <1>1, <1>5
    <3> HIDE DEF listed, empty, head, all
    <3> QED  BY <1>3, <2>1, <2>3, <2>4, <3>1
  <2>8. r \in Records /\ r.all = all1 /\ r.head = head /\ r.empty = empty
    <3>1. [all[v] EXCEPT !.ref = @ + 1] = one
      BY <2>4
    <3> HIDE DEF listed, empty, head, all, one
    <3>2. r = [listed EXCEPT !.all = [all EXCEPT ![v] = [all[v] EXCEPT !.ref = @ + 1]]]
      BY <1>2, <2>7
    <3>3. r = [listed EXCEPT !.all = all1]
      BY <3>1, <3>2
    <3> HIDE DEF all1
    <3> QED  BY <2>6, <2>7, <3>3
  <2> HIDE DEF head, empty, all1, one, listed, fresh
  <2>9. \A u \in DOMAIN all1 : (u \in H \cup {v} <=> all1[u].ref > 0) /\ (u \in E \ {v} <=> all1[u].ref <= 0)
    BY <1>1, <2>5, <2>6
  <2>10. (H \cup {v}) \cup (E \ {v}) = DOMAIN all1
    BY <1>1, <2>6
  <2>11. PortsFit(r)
    BY <2>1, <2>3, <2>8, <2>9, <2>10 DEF PortsFit
  <2> QED  BY <2>2, <2>5, <2>6, <2>8, <2>11 DEF r
<1>6. CASE ~first
  <2> DEFINE one == [via |-> w.all[v].via, ref |-> w.all[v].ref + 1]
             all == [w.all EXCEPT ![v] = one]
  <2>1. v \in H /\ w.all[v].via = via /\ w.all[v].ref > 0
    BY <1>1, <1>6 DEF H
  <2>2. one \in Port /\ one.ref = w.all[v].ref + 1 /\ one.via = via
    BY <1>1, <2>1 DEF Port
  <2>3. /\ all \in Seq(Port) /\ DOMAIN all = DOMAIN w.all /\ all[v] = one
        /\ \A u \in DOMAIN w.all : u # v => all[u] = w.all[u]
    <3> HIDE DEF one
    <3> QED  BY <1>1, <2>2, PortChanged
  <2>4. r \in Records /\ r.all = all /\ r.head = w.head /\ r.empty = w.empty
    <3>1. [w.all[v] EXCEPT !.ref = @ + 1] = one
      <4>1. w.all[v] = [via |-> w.all[v].via, ref |-> w.all[v].ref]
        BY <1>1 DEF Port
      <4> QED  BY <4>1
    <3> HIDE DEF one
    <3>2. r = [w EXCEPT !.all = [w.all EXCEPT ![v] = [w.all[v] EXCEPT !.ref = @ + 1]]]
      BY <1>2, <1>6
    <3>3. r = [w EXCEPT !.all = all]
      BY <3>1, <3>2
    <3> HIDE DEF all
    <3> QED  BY <1>3, <2>3, <3>3
  <2> HIDE DEF one, all
  <2>5. \A u \in DOMAIN all : (u \in H <=> all[u].ref > 0) /\ (u \in E <=> all[u].ref <= 0)
    <3>1. v \in H /\ v \notin E /\ w.all[v].ref \in Int
      BY <1>1, <2>1
    <3>2. all[v].ref = w.all[v].ref + 1
      BY <2>2, <2>3
    <3>3. all[v].ref > 0 /\ ~(all[v].ref <= 0)
      BY <2>1, <3>1, <3>2
    <3>4. \A u \in DOMAIN all : u # v => u \in DOMAIN w.all /\ all[u] = w.all[u]
      BY <2>3
    <3> QED  BY <1>1, <3>1, <3>3, <3>4
  <2>6. PortsFit(r)
    BY <1>1, <2>3, <2>4, <2>5 DEF PortsFit, H, E
  <2> QED  BY <2>1, <2>2, <2>3, <2>4, <2>6 DEF r
<1> QED  BY <1>5, <1>6

\* A route less, and one more, for the port it has.
LEMMA UsersWithout ==
    ASSUME NEW rt, IsFiniteSet(DOMAIN rt), NEW p \in DOMAIN rt, NEW r,
           \A q : q \in DOMAIN r <=> (q \in DOMAIN rt /\ q # p), \A q \in DOMAIN r : r[q] = rt[q], NEW u
    PROVE  /\ Cardinality(UsersOf(rt, u)) \in Nat
           /\ Cardinality(UsersOf(r, u)) = Cardinality(UsersOf(rt, u)) - (IF rt[p] = u THEN 1 ELSE 0)
<1> DEFINE U == UsersOf(rt, u)
           V == UsersOf(r, u)
<1>1. V = U \ {p}
  BY DEF UsersOf
<1>2. U \subseteq DOMAIN rt /\ (p \in U <=> rt[p] = u)
  BY DEF UsersOf
<1> HIDE DEF U, V
<1>3. IsFiniteSet(U)
  BY <1>2, FS_Subset
<1>4. Cardinality(U) \in Nat /\ Cardinality(U \ {p}) = IF p \in U THEN Cardinality(U) - 1 ELSE Cardinality(U)
  BY <1>3, FS_CardinalityType, FS_RemoveElement
<1> QED  BY <1>1, <1>2, <1>4 DEF U, V

LEMMA UsersWith ==
    ASSUME NEW rt, IsFiniteSet(DOMAIN rt), NEW p, p \notin DOMAIN rt, NEW v, NEW r,
           \A q : q \in DOMAIN r <=> (q \in DOMAIN rt \/ q = p), r[p] = v, \A q \in DOMAIN rt : r[q] = rt[q], NEW u
    PROVE  /\ Cardinality(UsersOf(rt, u)) \in Nat
           /\ Cardinality(UsersOf(r, u)) = Cardinality(UsersOf(rt, u)) + (IF u = v THEN 1 ELSE 0)
<1> DEFINE U == UsersOf(rt, u)
           V == UsersOf(r, u)
<1>1. V = IF u = v THEN U \cup {p} ELSE U
  BY DEF UsersOf
<1>2. U \subseteq DOMAIN rt /\ p \notin U
  BY DEF UsersOf
<1> HIDE DEF U, V
<1>3. IsFiniteSet(U)
  BY <1>2, FS_Subset
<1>4. Cardinality(U) \in Nat /\ Cardinality(U \cup {p}) = Cardinality(U) + 1
  BY <1>2, <1>3, FS_CardinalityType, FS_AddElement
<1> QED  BY <1>1, <1>4 DEF U, V

\* The routes that lead after a command, as it is recorded.
LEMMA AskedWith ==
    ASSUME NEW vs, NEW rt, NEW asked, RoutesAsked(vs, rt, asked), Default \in DOMAIN rt, rt[Default] = 1,
           NEW p, p # Default, NEW via \in Via, NEW ws, NEW r, NEW asked1,
           \A q : q \in DOMAIN r <=> (q \in DOMAIN rt \/ q = p), ws.all[r[p]].via = via,
           \A q \in DOMAIN rt \ {p} : r[q] = rt[q] /\ ws.all[rt[q]].via = vs.all[rt[q]].via,
           asked1 = [q \in DOMAIN asked \cup {p} |-> IF q = p THEN via ELSE asked[q]]
    PROVE  RoutesAsked(ws, r, asked1)
<1>1. /\ DOMAIN asked = {q \in DOMAIN rt : q # Default \/ vs.all[1].via # None}
      /\ \A q \in DOMAIN asked : asked[q] = vs.all[rt[q]].via
      /\ \A q \in DOMAIN rt \ {Default} : vs.all[rt[q]].via \in Via
  BY DEF RoutesAsked
<1>2. /\ DOMAIN asked1 = DOMAIN asked \cup {p} /\ asked1[p] = via
      /\ \A q \in DOMAIN asked \ {p} : asked1[q] = asked[q]
  OBVIOUS
<1>3. ws.all[1].via = vs.all[1].via
  OBVIOUS
<1>4. DOMAIN asked1 = {q \in DOMAIN r : q # Default \/ ws.all[1].via # None}
  BY <1>1, <1>2, <1>3
<1>5. \A q \in DOMAIN asked1 : asked1[q] = ws.all[r[q]].via
  BY <1>1, <1>2
<1>6. \A q \in DOMAIN r \ {Default} : ws.all[r[q]].via \in Via
  BY <1>1
<1> QED  BY <1>4, <1>5, <1>6 DEF RoutesAsked

LEMMA AskedWithout ==
    ASSUME NEW vs, NEW rt, NEW asked, RoutesAsked(vs, rt, asked), Default \in DOMAIN rt, rt[Default] = 1,
           NEW p, p # Default, NEW ws, NEW r, NEW asked1,
           \A q : q \in DOMAIN r <=> (q \in DOMAIN rt /\ q # p),
           \A q \in DOMAIN rt \ {p} : r[q] = rt[q] /\ ws.all[rt[q]].via = vs.all[rt[q]].via,
           asked1 = [q \in DOMAIN asked \ {p} |-> asked[q]]
    PROVE  RoutesAsked(ws, r, asked1)
<1>1. /\ DOMAIN asked = {q \in DOMAIN rt : q # Default \/ vs.all[1].via # None}
      /\ \A q \in DOMAIN asked : asked[q] = vs.all[rt[q]].via
      /\ \A q \in DOMAIN rt \ {Default} : vs.all[rt[q]].via \in Via
  BY DEF RoutesAsked
<1>2. /\ DOMAIN asked1 = DOMAIN asked \ {p}
      /\ \A q \in DOMAIN asked \ {p} : asked1[q] = asked[q]
  OBVIOUS
<1>3. ws.all[1].via = vs.all[1].via
  OBVIOUS
<1>4. DOMAIN asked1 = {q \in DOMAIN r : q # Default \/ ws.all[1].via # None}
  BY <1>1, <1>2, <1>3
<1>5. \A q \in DOMAIN asked1 : asked1[q] = ws.all[r[q]].via
  BY <1>1, <1>2
<1>6. \A q \in DOMAIN r \ {Default} : ws.all[r[q]].via \in Via
  BY <1>1
<1> QED  BY <1>4, <1>5, <1>6 DEF RoutesAsked

\* A port that a route has is used.
LEMMA UsedIs ==
    ASSUME NEW rt, IsFiniteSet(DOMAIN rt), NEW q \in DOMAIN rt
    PROVE  Cardinality(UsersOf(rt, rt[q])) \in Nat /\ Cardinality(UsersOf(rt, rt[q])) > 0
<1> DEFINE U == UsersOf(rt, rt[q])
<1>1. U \subseteq DOMAIN rt /\ q \in U
  BY DEF UsersOf
<1> HIDE DEF U
<1>2. IsFiniteSet(U)
  BY <1>1, FS_Subset
<1>3. Cardinality(U) \in Nat /\ (Cardinality(U) = 0 <=> U = {})
  BY <1>2, FS_CardinalityType, FS_EmptySet
<1> QED  BY <1>1, <1>3 DEF U

\* The ports count their routes after one of them has left its port,
LEMMA CountedWithout ==
    ASSUME NEW vs, NEW rt, IsFiniteSet(DOMAIN rt), Counted(vs, rt), NEW p \in DOMAIN rt, NEW r,
           \A q : q \in DOMAIN r <=> (q \in DOMAIN rt /\ q # p), \A q \in DOMAIN r : r[q] = rt[q], NEW ws,
           DOMAIN ws.all = DOMAIN vs.all, \A u \in DOMAIN vs.all : u # rt[p] => ws.all[u] = vs.all[u],
           ws.all[rt[p]].ref = vs.all[rt[p]].ref - 1
    PROVE  Counted(ws, r)
<1> SUFFICES ASSUME NEW u \in DOMAIN vs.all
             PROVE  ws.all[u].ref = Cardinality(UsersOf(r, u))
  BY DEF Counted
<1>1. vs.all[u].ref = Cardinality(UsersOf(rt, u))
  BY DEF Counted
<1>2. /\ Cardinality(UsersOf(rt, u)) \in Nat
      /\ Cardinality(UsersOf(r, u)) = Cardinality(UsersOf(rt, u)) - (IF rt[p] = u THEN 1 ELSE 0)
  BY UsersWithout
<1>3. CASE rt[p] = u
  BY <1>1, <1>2, <1>3
<1>4. CASE rt[p] # u
  BY <1>1, <1>2, <1>4
<1> QED  BY <1>3, <1>4

\* after there is a new port,
LEMMA CountedMore ==
    ASSUME NEW vs, NEW rt, Counted(vs, rt), \A q \in DOMAIN rt : rt[q] \in DOMAIN vs.all, NEW ws,
           \A u \in DOMAIN vs.all : ws.all[u] = vs.all[u],
           \A u \in DOMAIN ws.all \ DOMAIN vs.all : ws.all[u].ref = 0
    PROVE  Counted(ws, rt)
<1> SUFFICES ASSUME NEW u \in DOMAIN ws.all
             PROVE  ws.all[u].ref = Cardinality(UsersOf(rt, u))
  BY DEF Counted
<1>1. CASE u \in DOMAIN vs.all
  BY <1>1 DEF Counted
<1>2. CASE u \notin DOMAIN vs.all
  <2>1. UsersOf(rt, u) = {}
    BY <1>2 DEF UsersOf
  <2> QED  BY <1>2, <2>1, FS_EmptySet
<1> QED  BY <1>1, <1>2

\* and after one of them is taken by one more route.
LEMMA CountedWith ==
    ASSUME NEW vs, NEW rt, IsFiniteSet(DOMAIN rt), Counted(vs, rt), NEW p, p \notin DOMAIN rt,
           NEW v \in DOMAIN vs.all, NEW r,
           \A q : q \in DOMAIN r <=> (q \in DOMAIN rt \/ q = p), r[p] = v, \A q \in DOMAIN rt : r[q] = rt[q], NEW ws,
           DOMAIN ws.all = DOMAIN vs.all, \A u \in DOMAIN vs.all : u # v => ws.all[u] = vs.all[u],
           ws.all[v].ref = (IF vs.all[v].ref > 0 THEN vs.all[v].ref ELSE 0) + 1
    PROVE  Counted(ws, r)
<1> SUFFICES ASSUME NEW u \in DOMAIN vs.all
             PROVE  ws.all[u].ref = Cardinality(UsersOf(r, u))
  BY DEF Counted
<1>1. vs.all[u].ref = Cardinality(UsersOf(rt, u))
  BY DEF Counted
<1>2. /\ Cardinality(UsersOf(rt, u)) \in Nat
      /\ Cardinality(UsersOf(r, u)) = Cardinality(UsersOf(rt, u)) + (IF u = v THEN 1 ELSE 0)
  BY UsersWith
<1>3. CASE u = v
  BY <1>1, <1>2, <1>3
<1>4. CASE u # v
  BY <1>1, <1>2, <1>4
<1> QED  BY <1>3, <1>4

\* The ports when a route that is replaced has lost its own.
LEMMA ReleasedIs ==
    ASSUME RoutesFit(rtable), PortsFit(Vports), \A q \in DOMAIN rtable : rtable[q] \in DOMAIN vport,
           NEW p, NEW r, DOMAIN r = DOMAIN rtable \ {p}, \A q \in DOMAIN r : r[q] = rtable[q]
    PROVE  LET ws == Released(p)
           IN  /\ PortsFit(ws) /\ DOMAIN ws.all = DOMAIN vport
               /\ \A u \in DOMAIN vport : ws.all[u].via = vport[u].via
               /\ Counted(Vports, rtable) => Counted(ws, r)
<1> DEFINE ws == Released(p)
<1>0. Vports.all = vport
  BY DEF Vports
<1>1. CASE p \in DOMAIN rtable
  <2>1. ws = Unref(Vports, rtable[p]) /\ rtable[p] \in DOMAIN Vports.all
    BY <1>0, <1>1 DEF Released
  <2>2. /\ PortsFit(ws) /\ DOMAIN ws.all = DOMAIN Vports.all
        /\ \A u \in DOMAIN Vports.all : ws.all[u].via = Vports.all[u].via
        /\ \A u \in DOMAIN Vports.all : u # rtable[p] => ws.all[u] = Vports.all[u]
        /\ ws.all[rtable[p]].ref = Vports.all[rtable[p]].ref - 1
    BY <2>1, UnrefIs
  <2> HIDE DEF ws
  <2>3. IsFiniteSet(DOMAIN rtable)
    BY DEF RoutesFit
  <2>4. Counted(Vports, rtable) => Counted(ws, r)
    BY <1>0, <1>1, <2>2, <2>3, CountedWithout
  <2> QED  BY <1>0, <2>2, <2>4 DEF ws
<1>2. CASE p \notin DOMAIN rtable
  <2>1. ws = Vports
    BY <1>2 DEF Released
  <2>2. \A u : UsersOf(r, u) = UsersOf(rtable, u)
    BY <1>2 DEF UsersOf
  <2>3. Counted(Vports, rtable) => Counted(ws, r)
    BY <2>1, <2>2 DEF Counted
  <2> QED  BY <1>0, <2>1, <2>3
<1> QED  BY <1>1, <1>2

\* The ports when the route has its own.
LEMMA AllocatedIs ==
    ASSUME NEW vs, PortsFit(vs), NEW rt, IsFiniteSet(DOMAIN rt), \A q \in DOMAIN rt : rt[q] \in DOMAIN vs.all,
           NEW via \in Via, NEW p, p \notin DOMAIN rt, Found(vs, via) # 0, NEW r,
           \A q : q \in DOMAIN r <=> (q \in DOMAIN rt \/ q = p), r[p] = Found(vs, via), \A q \in DOMAIN rt : r[q] = rt[q]
    PROVE  LET ws == Taken(WithEmpty(vs, via), Found(vs, via), via)
           IN  /\ PortsFit(ws) /\ \A q \in DOMAIN r : r[q] \in DOMAIN ws.all
               /\ ws.all[r[p]].via = via
               /\ Counted(vs, rt) => /\ Counted(ws, r)
                                     /\ \A q \in DOMAIN rt : ws.all[rt[q]].via = vs.all[rt[q]].via
<1> DEFINE v == Found(vs, via)
           w == WithEmpty(vs, via)
           ws == Taken(w, v, via)
<1>1. /\ PortsFit(w) /\ DOMAIN vs.all \subseteq DOMAIN w.all
      /\ \A u \in DOMAIN vs.all : w.all[u] = vs.all[u]
      /\ \A u \in DOMAIN w.all \ DOMAIN vs.all : w.all[u].ref = 0
      /\ v \in DOMAIN w.all
      /\ \/ v \in Ext!ToSet(w.head) /\ w.all[v].via = via
         \/ w.empty # << >> /\ w.empty[1] = v
  BY WithEmptyIs
<1> HIDE DEF w, v
<1>2. /\ PortsFit(ws) /\ DOMAIN ws.all = DOMAIN w.all
      /\ \A u \in DOMAIN w.all : u # v => ws.all[u] = w.all[u]
      /\ ws.all[v].via = via
      /\ ws.all[v].ref = (IF w.all[v].ref > 0 THEN w.all[v].ref ELSE 0) + 1
  BY <1>1, TakenIs
<1> HIDE DEF ws
<1>3. r[p] = v
  BY DEF v
<1>4. \A q \in DOMAIN r : r[q] \in DOMAIN ws.all
  BY <1>1, <1>2, <1>3
<1>5. ASSUME Counted(vs, rt)
      PROVE  Counted(ws, r) /\ \A q \in DOMAIN rt : ws.all[rt[q]].via = vs.all[rt[q]].via
  <2>1. Counted(w, rt)
    BY <1>1, <1>5, CountedMore
  <2>2. Counted(ws, r)
    <3>1. v \in DOMAIN w.all /\ \A q : q \in DOMAIN r <=> (q \in DOMAIN rt \/ q = p)
      BY <1>1
    <3>2. /\ DOMAIN ws.all = DOMAIN w.all
          /\ \A u \in DOMAIN w.all : u # v => ws.all[u] = w.all[u]
          /\ ws.all[v].ref = (IF w.all[v].ref > 0 THEN w.all[v].ref ELSE 0) + 1
      BY <1>2
    <3> QED  BY <1>3, <2>1, <3>1, <3>2, CountedWith
  <2>3. ASSUME NEW q \in DOMAIN rt
        PROVE  ws.all[rt[q]].via = vs.all[rt[q]].via
    <3>1. CASE rt[q] # v
      BY <1>1, <1>2, <3>1
    <3>2. CASE rt[q] = v /\ v \in Ext!ToSet(w.head) /\ w.all[v].via = via
      BY <1>1, <1>2, <3>2
    <3>3. CASE rt[q] = v /\ w.empty # << >> /\ w.empty[1] = v
      <4>1. w.all[v].ref > 0
        BY <1>1, <2>1, <3>3, UsedIs DEF Counted
      <4>2. w.empty \in Seq(Nat) /\ w.all[v].ref \in Int /\ (v \in Ext!ToSet(w.empty) <=> w.all[v].ref <= 0) /\ Listed(w.empty)
        BY <1>1, PortFacts
      <4>3. v \in Ext!ToSet(w.empty)
        BY <3>3, <4>2, TailOf
      <4> QED  BY <4>1, <4>2, <4>3
    <3> QED  BY <1>1, <3>1, <3>2, <3>3
  <2> QED  BY <2>2, <2>3
<1> QED  BY <1>2, <1>3, <1>4, <1>5 DEF ws, w, v

\* The ports after a step, as the record that SetVports stores.
LEMMA VportsAre ==
    ASSUME NEW x, PortsFit(x), SetVports(x)
    PROVE  Vports' = x
  BY PortFacts DEF SetVports, Vports

\* The invariant in the form that the steps use.
LEMMA InvFacts ==
    ASSUME DirectInv
    PROVE  /\ RoutesFit(rtable) /\ PortsFit(Vports) /\ Vports.all = vport
           /\ \A q \in DOMAIN rtable : rtable[q] \in DOMAIN vport
           /\ IsFiniteSet(DOMAIN rtable) /\ Default \in DOMAIN rtable /\ rtable[Default] = 1
           /\ "unreferenced" \notin faults => Counted(Vports, rtable)
           /\ "pruned" \notin faults => Tables
           /\ faults = {} => RoutesAsked(Vports, rtable, routes)
  BY DEF DirectInv, RoutesFit, Vports, Tables

\* add_route, when it has the memory.
LEMMA DirectAddKeeps ==
    ASSUME DirectInv, NEW p \in Prefixes, NEW via \in Via, NEW set \in BOOLEAN, DirectAddRoute(p, via, set)
    PROVE  DirectInv'
<1> DEFINE vs == Released(p)
           v == Found(vs, via)
           x == Taken(WithEmpty(vs, via), v, via)
           r0 == [q \in DOMAIN rtable \ {p} |-> rtable[q]]
<1>1. /\ p # Default /\ v # 0 /\ SetVports(x) /\ faults' = faults
      /\ rtable' = [q \in DOMAIN rtable \cup {p} |-> IF q = p THEN v ELSE rtable[q]]
      /\ ~Stopped(IF set THEN "set" ELSE "add", p) =>
           routes' = [q \in DOMAIN routes \cup {p} |-> IF q = p THEN via ELSE routes[q]]
  BY DEF DirectAddRoute, NoMemory
<1>2. /\ RoutesFit(rtable) /\ PortsFit(Vports) /\ Vports.all = vport
      /\ \A q \in DOMAIN rtable : rtable[q] \in DOMAIN vport
      /\ IsFiniteSet(DOMAIN rtable) /\ Default \in DOMAIN rtable /\ rtable[Default] = 1
      /\ "unreferenced" \notin faults => Counted(Vports, rtable)
      /\ "pruned" \notin faults => Tables
      /\ faults = {} => RoutesAsked(Vports, rtable, routes)
  BY InvFacts
<1>3. /\ DOMAIN rtable' = DOMAIN rtable \cup {p} /\ rtable'[p] = v
      /\ \A q \in DOMAIN rtable \ {p} : rtable'[q] = rtable[q]
      /\ DOMAIN r0 = DOMAIN rtable \ {p} /\ \A q \in DOMAIN r0 : r0[q] = rtable[q]
  BY <1>1
<1> HIDE DEF r0
<1>4. /\ PortsFit(vs) /\ DOMAIN vs.all = DOMAIN vport /\ \A u \in DOMAIN vport : vs.all[u].via = vport[u].via
      /\ Counted(Vports, rtable) => Counted(vs, r0)
  BY <1>2, <1>3, ReleasedIs
<1>5. v \in Nat
  BY <1>4, WithEmptyIs
<1> HIDE DEF vs, v, x
<1>6. /\ PortsFit(x) /\ \A q \in DOMAIN rtable' : rtable'[q] \in DOMAIN x.all
      /\ x.all[rtable'[p]].via = via
      /\ Counted(vs, r0) => /\ Counted(x, rtable')
                            /\ \A q \in DOMAIN r0 : x.all[r0[q]].via = vs.all[r0[q]].via
  <2>1. IsFiniteSet(DOMAIN r0)
    BY <1>2, <1>3, FS_RemoveElement
  <2>2. \A q \in DOMAIN r0 : r0[q] \in DOMAIN vs.all
    BY <1>2, <1>3, <1>4
  <2>3. /\ p \notin DOMAIN r0 /\ \A q : q \in DOMAIN rtable' <=> (q \in DOMAIN r0 \/ q = p)
        /\ \A q \in DOMAIN r0 : rtable'[q] = r0[q]
    BY <1>3
  <2>4. Found(vs, via) # 0 /\ rtable'[p] = Found(vs, via)
    BY <1>1, <1>3 DEF v
  <2> DEFINE y == Taken(WithEmpty(vs, via), Found(vs, via), via)
  <2>5. /\ PortsFit(y) /\ \A q \in DOMAIN rtable' : rtable'[q] \in DOMAIN y.all
        /\ y.all[rtable'[p]].via = via
        /\ Counted(vs, r0) => /\ Counted(y, rtable')
                              /\ \A q \in DOMAIN r0 : y.all[r0[q]].via = vs.all[r0[q]].via
    BY <1>4, <2>1, <2>2, <2>3, <2>4, AllocatedIs
  <2> QED  BY <2>5 DEF x, v
<1>7. Vports' = x
  BY <1>1, <1>6, VportsAre
<1>8. vport' = x.all
  BY <1>1 DEF SetVports
<1>9. RoutesFit(rtable')
  BY <1>1, <1>2, <1>5, RoutesStayFit, DirectAssumption
<1>10. "pruned" \notin faults => /\ TablesFit(tbl', sec', sempty') /\ TablesLead(rtable', tbl', sec')
                                 /\ ~Stopped(IF set THEN "set" ELSE "add", p)
  <2> SUFFICES ASSUME "pruned" \notin faults
               PROVE  /\ TablesFit(tbl', sec', sempty') /\ TablesLead(rtable', tbl', sec')
                      /\ ~Stopped(IF set THEN "set" ELSE "add", p)
    OBVIOUS
  <2>1. Tables /\ Found(Released(p), via) \in Nat
    BY <1>2, <1>5 DEF v, vs
  <2> QED  BY <2>1, AddTables
<1>11. "unreferenced" \notin faults => Counted(x, rtable')
  BY <1>2, <1>4, <1>6
<1>12. ASSUME faults = {}
       PROVE  RoutesAsked(x, rtable', routes')
  <2>1. RoutesAsked(Vports, rtable, routes) /\ Counted(vs, r0)
    BY <1>2, <1>4, <1>12
  <2>2. routes' = [q \in DOMAIN routes \cup {p} |-> IF q = p THEN via ELSE routes[q]]
    BY <1>1, <1>10, <1>12
  <2>3. \A q \in DOMAIN rtable \ {p} : rtable'[q] = rtable[q] /\ x.all[rtable[q]].via = Vports.all[rtable[q]].via
    BY <1>2, <1>3, <1>4, <1>6, <2>1
  <2>4. /\ Default \in DOMAIN rtable /\ rtable[Default] = 1 /\ p # Default
        /\ \A q : q \in DOMAIN rtable' <=> (q \in DOMAIN rtable \/ q = p)
    BY <1>1, <1>2, <1>3
  <2>5. x.all[rtable'[p]].via = via
    BY <1>6
  <2> QED  BY <2>1, <2>2, <2>3, <2>4, <2>5, AskedWith
<1> QED  BY <1>1, <1>6, <1>7, <1>8, <1>9, <1>10, <1>11, <1>12 DEF DirectInv

\* add_route, when it has not: a port more, or a reference less.
LEMMA NoMemoryKeeps ==
    ASSUME DirectInv, NEW p \in Prefixes, NEW via \in Via, NEW set \in BOOLEAN, AddNoMemory(p, via, set)
    PROVE  DirectInv'
<1> DEFINE vs == Released(p)
           w == WithEmpty(vs, via)
           x == IF Found(vs, via) = 0 THEN vs ELSE w
           r0 == [q \in DOMAIN rtable \ {p} |-> rtable[q]]
<1>1. /\ SetVports(x) /\ faults' = faults \cup (IF p \in DOMAIN rtable THEN {"unreferenced"} ELSE {})
      /\ UNCHANGED <<rtable, tbl, sec, sempty, routes>>
  BY DEF AddNoMemory
<1>2. /\ RoutesFit(rtable) /\ PortsFit(Vports) /\ Vports.all = vport
      /\ \A q \in DOMAIN rtable : rtable[q] \in DOMAIN vport
      /\ Default \in DOMAIN rtable /\ rtable[Default] = 1
      /\ "unreferenced" \notin faults => Counted(Vports, rtable)
      /\ "pruned" \notin faults => TablesFit(tbl, sec, sempty) /\ TablesLead(rtable, tbl, sec)
      /\ faults = {} => RoutesAsked(Vports, rtable, routes)
  BY InvFacts DEF Tables
<1>3. DOMAIN r0 = DOMAIN rtable \ {p} /\ \A q \in DOMAIN r0 : r0[q] = rtable[q]
  OBVIOUS
<1> HIDE DEF r0
<1>4. /\ PortsFit(vs) /\ DOMAIN vs.all = DOMAIN vport /\ \A u \in DOMAIN vport : vs.all[u].via = vport[u].via
  BY <1>2, <1>3, ReleasedIs
<1>5. p \notin DOMAIN rtable => vs = Vports
  BY DEF Released
<1> HIDE DEF vs
<1>6. /\ PortsFit(w) /\ DOMAIN vs.all \subseteq DOMAIN w.all /\ \A u \in DOMAIN vs.all : w.all[u] = vs.all[u]
      /\ \A u \in DOMAIN w.all \ DOMAIN vs.all : w.all[u].ref = 0
  BY <1>4, WithEmptyIs
<1> HIDE DEF w
<1>7. /\ PortsFit(x) /\ DOMAIN vs.all \subseteq DOMAIN x.all /\ \A u \in DOMAIN vs.all : x.all[u] = vs.all[u]
      /\ \A u \in DOMAIN x.all \ DOMAIN vs.all : x.all[u].ref = 0
  BY <1>4, <1>6
<1> HIDE DEF x
<1>8. Vports' = x /\ vport' = x.all
  BY <1>1, <1>7, VportsAre DEF SetVports
<1>9. "unreferenced" \notin faults' => "unreferenced" \notin faults /\ vs = Vports
  BY <1>1, <1>5
<1>10. ASSUME "unreferenced" \notin faults'
       PROVE  Counted(x, rtable)
  <2>1. Counted(Vports, rtable) /\ vs = Vports
    BY <1>2, <1>9, <1>10
  <2> QED  BY <1>2, <1>7, <2>1, CountedMore
<1>11. ASSUME faults' = {}
       PROVE  RoutesAsked(x, rtable, routes)
  <2>1. faults = {} /\ vs = Vports
    BY <1>1, <1>9, <1>11
  <2>2. \A q \in DOMAIN rtable : x.all[rtable[q]] = Vports.all[rtable[q]]
    BY <1>2, <1>7, <2>1
  <2>3. x.all[1] = Vports.all[1]
    BY <1>2, <2>2
  <2>4. RoutesAsked(Vports, rtable, routes)
    BY <1>2, <2>1
  <2> QED  BY <2>2, <2>3, <2>4 DEF RoutesAsked
<1>12. "pruned" \notin faults' => "pruned" \notin faults
  BY <1>1
<1> QED  BY <1>1, <1>2, <1>4, <1>7, <1>8, <1>10, <1>11, <1>12 DEF DirectInv

\* remove_route.
LEMMA DirectRemoveKeeps ==
    ASSUME DirectInv, NEW p \in Prefixes, NEW via, DirectRemoveRoute(p, via)
    PROVE  DirectInv'
<1> DEFINE x == Unref(Vports, rtable[p])
<1>1. /\ p # Default /\ p \in DOMAIN rtable /\ SetVports(x) /\ faults \subseteq faults' /\ faults' \subseteq faults \cup {"pruned"}
      /\ rtable' = [q \in DOMAIN rtable \ {p} |-> rtable[q]]
      /\ ~Stopped("remove", p) => routes' = [q \in DOMAIN routes \ {p} |-> routes[q]]
  BY Zenon DEF DirectRemoveRoute
<1>2. /\ RoutesFit(rtable) /\ PortsFit(Vports) /\ Vports.all = vport
      /\ \A q \in DOMAIN rtable : rtable[q] \in DOMAIN vport
      /\ IsFiniteSet(DOMAIN rtable) /\ Default \in DOMAIN rtable /\ rtable[Default] = 1
      /\ "unreferenced" \notin faults => Counted(Vports, rtable)
      /\ "pruned" \notin faults => Tables
      /\ faults = {} => RoutesAsked(Vports, rtable, routes)
  BY InvFacts
<1>3. /\ DOMAIN rtable' = DOMAIN rtable \ {p} /\ \A q \in DOMAIN rtable' : rtable'[q] = rtable[q]
      /\ \A q : q \in DOMAIN rtable' <=> (q \in DOMAIN rtable /\ q # p)
  BY <1>1
<1>4. /\ PortsFit(x) /\ DOMAIN x.all = DOMAIN Vports.all
      /\ \A u \in DOMAIN Vports.all : x.all[u].via = Vports.all[u].via
      /\ \A u \in DOMAIN Vports.all : u # rtable[p] => x.all[u] = Vports.all[u]
      /\ x.all[rtable[p]].ref = Vports.all[rtable[p]].ref - 1
  BY <1>1, <1>2, UnrefIs
<1> HIDE DEF x
<1>5. Vports' = x /\ vport' = x.all
  BY <1>1, <1>4, VportsAre DEF SetVports
<1>6. RoutesFit(rtable')
  BY <1>1, <1>2, RoutesStayFit, DirectAssumption
<1>7. "pruned" \notin faults' => /\ TablesFit(tbl', sec', sempty') /\ TablesLead(rtable', tbl', sec')
                                 /\ ~Stopped("remove", p)
  <2> SUFFICES ASSUME "pruned" \notin faults'
               PROVE  TablesFit(tbl', sec', sempty') /\ TablesLead(rtable', tbl', sec') /\ ~Stopped("remove", p)
    OBVIOUS
  <2>1. Tables
    BY <1>1, <1>2
  <2> QED  BY <2>1, RemoveTables
<1>8. ASSUME "unreferenced" \notin faults'
      PROVE  Counted(x, rtable')
  <2>1. Counted(Vports, rtable)
    BY <1>1, <1>2, <1>8
  <2>2. IsFiniteSet(DOMAIN rtable) /\ p \in DOMAIN rtable
    BY <1>1, <1>2
  <2> QED  BY <1>3, <1>4, <2>1, <2>2, CountedWithout
<1>9. ASSUME faults' = {}
      PROVE  RoutesAsked(x, rtable', routes')
  <2>1. RoutesAsked(Vports, rtable, routes) /\ routes' = [q \in DOMAIN routes \ {p} |-> routes[q]]
    BY <1>1, <1>2, <1>7, <1>9
  <2>2. \A q \in DOMAIN rtable \ {p} : rtable'[q] = rtable[q] /\ x.all[rtable[q]].via = Vports.all[rtable[q]].via
    BY <1>2, <1>3, <1>4
  <2>3. /\ Default \in DOMAIN rtable /\ rtable[Default] = 1 /\ p # Default
        /\ \A q : q \in DOMAIN rtable' <=> (q \in DOMAIN rtable /\ q # p)
    BY <1>1, <1>2, <1>3
  <2> QED  BY <2>1, <2>2, <2>3, AskedWithout
<1>10. \A q \in DOMAIN rtable' : rtable'[q] \in DOMAIN vport'
  BY <1>2, <1>3, <1>4, <1>5
<1> QED  BY <1>4, <1>5, <1>6, <1>7, <1>8, <1>9, <1>10 DEF DirectInv

\* Where the default route's port counts no other route, there is none.
LEMMA OneUser ==
    ASSUME NEW rt, IsFiniteSet(DOMAIN rt), Default \in DOMAIN rt, rt[Default] = 1,
           ~(Cardinality(UsersOf(rt, 1)) > 1), NEW q \in DOMAIN rt, q # Default
    PROVE  rt[q] # 1
<1> DEFINE U == UsersOf(rt, 1)
<1>1. U \subseteq DOMAIN rt /\ Default \in U /\ (rt[q] = 1 => q \in U \ {Default})
  BY DEF UsersOf
<1> HIDE DEF U
<1>2. IsFiniteSet(U) /\ IsFiniteSet(U \ {Default})
  BY <1>1, FS_Subset
<1>3. Cardinality(U) \in Nat /\ Cardinality(U \ {Default}) = Cardinality(U) - 1 /\ ~(Cardinality(U) > 1)
  BY <1>1, <1>2, FS_CardinalityType, FS_RemoveElement DEF U
<1>4. Cardinality(U \ {Default}) = 0 \/ Cardinality(U \ {Default}) = -1
  BY <1>3
<1>5. Cardinality(U \ {Default}) \in Nat /\ (Cardinality(U \ {Default}) = 0 <=> U \ {Default} = {})
  BY <1>2, FS_CardinalityType, FS_EmptySet
<1> QED  BY <1>1, <1>4, <1>5

\* The default route leads elsewhere, or nowhere: its port is changed in place.
LEMMA DefaultPort ==
    ASSUME DirectInv, NEW via \in Via \cup {None}, vport' = [vport EXCEPT ![1].via = via],
           faults' = faults \cup (IF vport[1].ref > 1 THEN {"shared"} ELSE {}),
           UNCHANGED <<rtable, vhead, vempty, tbl, sec, sempty>>,
           \A q : q \in DOMAIN routes' <=> IF q = Default THEN via # None ELSE q \in DOMAIN routes,
           \A q \in DOMAIN routes' : routes'[q] = IF q = Default THEN via ELSE routes[q]
    PROVE  DirectInv'
<1> DEFINE port == [via |-> via, ref |-> vport[1].ref]
<1>1. /\ RoutesFit(rtable) /\ PortsFit(Vports) /\ Vports.all = vport
      /\ \A q \in DOMAIN rtable : rtable[q] \in DOMAIN vport
      /\ IsFiniteSet(DOMAIN rtable) /\ Default \in DOMAIN rtable /\ rtable[Default] = 1
      /\ "unreferenced" \notin faults => Counted(Vports, rtable)
      /\ "pruned" \notin faults => TablesFit(tbl, sec, sempty) /\ TablesLead(rtable, tbl, sec)
      /\ faults = {} => RoutesAsked(Vports, rtable, routes)
  BY InvFacts DEF Tables
<1>2. vport \in Seq(Port) /\ 1 \in DOMAIN vport /\ vport[1] \in Port
  BY <1>1, PortFacts
<1>3. /\ Vports.head = vhead /\ Vports.empty = vempty
      /\ Vports' = [all |-> vport', head |-> vhead, empty |-> vempty]
  BY DEF Vports
<1>4. /\ vport' \in Seq(Port) /\ DOMAIN vport' = DOMAIN vport
      /\ \A u \in DOMAIN vport : u # 1 => vport'[u] = vport[u]
      /\ vport'[1].via = via /\ vport'[1].ref = vport[1].ref
  <2>1. port \in Port /\ port.via = via /\ port.ref = vport[1].ref
    BY <1>2 DEF Port
  <2>2. [vport[1] EXCEPT !.via = via] = port
    <3>1. vport[1] = [via |-> vport[1].via, ref |-> vport[1].ref]
      BY <1>2 DEF Port
    <3> QED  BY <3>1
  <2>3. vport' = [vport EXCEPT ![1] = [vport[1] EXCEPT !.via = via]]
    OBVIOUS
  <2> HIDE DEF port
  <2>4. vport' = [vport EXCEPT ![1] = port]
    BY <2>2, <2>3
  <2> QED  BY <1>2, <2>1, <2>4, PortChanged
<1> HIDE DEF port
<1>5. \A u \in DOMAIN vport : vport'[u].ref = vport[u].ref
  BY <1>4
<1>6. Vports'.all = vport' /\ Vports'.head = Vports.head /\ Vports'.empty = Vports.empty
  BY <1>3
<1>7. PortsFit(Vports')
  <2>1. Vports' \in [all : Seq(Port), head : Seq(Nat), empty : Seq(Nat)]
    <3>1. vhead \in Seq(Nat) /\ vempty \in Seq(Nat)
      BY <1>1, <1>3, PortFacts
    <3> QED  BY <1>3, <1>4, <3>1
  <2> QED  BY <1>1, <1>4, <1>5, <1>6, <2>1 DEF PortsFit
<1>8. "unreferenced" \notin faults' => Counted(Vports', rtable)
  BY <1>1, <1>4, <1>5, <1>6 DEF Counted
<1>9. ASSUME faults' = {}
      PROVE  RoutesAsked(Vports', rtable, routes')
  <2>1. faults = {} /\ ~(vport[1].ref > 1)
    BY <1>9
  <2>2. RoutesAsked(Vports, rtable, routes) /\ vport[1].ref = Cardinality(UsersOf(rtable, 1))
    BY <1>1, <1>2, <2>1 DEF Counted
  <2>3. \A q \in DOMAIN rtable \ {Default} : rtable[q] # 1
    BY <1>1, <2>1, <2>2, OneUser
  <2>4. \A q \in DOMAIN rtable \ {Default} : vport'[rtable[q]] = vport[rtable[q]]
    BY <1>1, <1>4, <2>3
  <2>5. /\ \A q \in DOMAIN rtable \ {Default} : vport[rtable[q]].via \in Via
        /\ DOMAIN routes = {q \in DOMAIN rtable : q # Default \/ vport[1].via # None}
        /\ \A q \in DOMAIN routes : routes[q] = vport[rtable[q]].via
    BY <1>1, <2>2 DEF RoutesAsked
  <2>6. Default \in DOMAIN rtable /\ rtable[Default] = 1 /\ vport'[1].via = via
    BY <1>1, <1>4
  <2>7. DOMAIN routes' = {q \in DOMAIN rtable : q # Default \/ vport'[1].via # None}
    BY <2>5, <2>6
  <2>8. ASSUME NEW q \in DOMAIN routes'
        PROVE  routes'[q] = vport'[rtable[q]].via
    <3>1. CASE q = Default
      BY <2>6, <3>1
    <3>2. CASE q # Default
      <4>1. q \in DOMAIN routes /\ routes'[q] = routes[q]
        BY <3>2
      <4>2. q \in DOMAIN rtable \ {Default} /\ routes[q] = vport[rtable[q]].via
        BY <2>5, <3>2, <4>1
      <4> QED  BY <2>4, <4>1, <4>2
    <3> QED  BY <3>1, <3>2
  <2> QED  BY <1>6, <2>4, <2>5, <2>7, <2>8 DEF RoutesAsked
<1>10. \A q \in DOMAIN rtable : rtable[q] \in DOMAIN vport'
  BY <1>1, <1>4
<1>11. "pruned" \notin faults' => "pruned" \notin faults
  OBVIOUS
<1> QED  BY <1>1, <1>7, <1>8, <1>9, <1>10, <1>11 DEF DirectInv

\* After a flush everything leads to the default route's port.
LEMMA FlushedFits ==
    ASSUME NEW rt, rt = [p \in {Default} |-> 1],
           NEW vs, vs = [all |-> <<[via |-> None, ref |-> 1]>>, head |-> << 1 >>, empty |-> << >>],
           NEW tb, tb = [i \in Primary |-> [sec |-> FALSE, ix |-> 1, plen |-> 0]]
    PROVE  /\ RoutesFit(rt) /\ PortsFit(vs) /\ \A q \in DOMAIN rt : rt[q] \in DOMAIN vs.all
           /\ Counted(vs, rt) /\ RoutesAsked(vs, rt, << >>)
           /\ TablesFit(tb, << >>, << >>) /\ TablesLead(rt, tb, << >>)
<1>1. DOMAIN rt = {Default} /\ rt[Default] = 1
  OBVIOUS
<1>2. RoutesFit(rt)
  BY <1>1, FS_Singleton, DefaultHolds DEF RoutesFit
<1> DEFINE port == [via |-> None, ref |-> 1]
<1>3. port \in Port /\ port.ref = 1 /\ port.via = None
  BY DEF Port
<1>4. /\ vs \in [all : Seq(Port), head : Seq(Nat), empty : Seq(Nat)]
      /\ DOMAIN vs.all = {1} /\ vs.all[1] = port /\ DOMAIN vs.head = {1} /\ vs.head[1] = 1 /\ DOMAIN vs.empty = {}
  <2> HIDE DEF port
  <2>1. vs = [all |-> <<port>>, head |-> <<1>>, empty |-> << >>]
    BY DEF port
  <2> QED  BY <1>3, <2>1
<1> HIDE DEF port
<1>5. Ext!ToSet(vs.head) = {1} /\ Ext!ToSet(vs.empty) = {} /\ Listed(vs.head) /\ Listed(vs.empty)
  BY <1>4, SetOf DEF Listed
<1>6. PortsFit(vs)
  BY <1>3, <1>4, <1>5 DEF PortsFit
<1>7. Counted(vs, rt)
  <2>1. UsersOf(rt, 1) = {Default}
    BY <1>1 DEF UsersOf
  <2>2. Cardinality(UsersOf(rt, 1)) = 1
    BY <2>1, FS_Singleton
  <2>3. DOMAIN vs.all = {1} /\ vs.all[1].ref = 1
    BY <1>3, <1>4
  <2> HIDE DEF port
  <2> QED  BY <2>2, <2>3 DEF Counted
<1>8. RoutesAsked(vs, rt, << >>)
  BY <1>1, <1>3, <1>4 DEF RoutesAsked
<1>9. TablesFit(tb, << >>, << >>)
  <2>1. Ext!ToSet(<< >>) = {} /\ Listed(<< >>)
    BY SetOf DEF Listed
  <2>2. tb \in [Primary -> [sec : BOOLEAN, ix : Nat, plen : Nat]] /\ \A i \in Primary : ~tb[i].sec
    OBVIOUS
  <2>3. << >> \in Seq(LowTable) /\ << >> \in Seq(Nat) /\ DOMAIN << >> = {}
    OBVIOUS
  <2> QED  BY <2>1, <2>2, <2>3 DEF TablesFit
<1>10. TablesLead(rt, tb, << >>)
  <2>1. \A i \in Primary : ~tb[i].sec /\ tb[i].ix = 1 /\ tb[i].plen = 0
    OBVIOUS
  <2>2. \A i \in Primary : 0 <= PBits
    BY Sizes
  <2>3. ASSUME NEW i \in Primary, NEW j \in Low
        PROVE  Leading(rt, EntryAt(tb, << >>, i, j), At(i, j))
    <3>1. EntryAt(tb, << >>, i, j) = [ix |-> 1, plen |-> 0]
      BY <2>1 DEF EntryAt
    <3>2. At(i, j) \in Addr
      BY AtIs
    <3>3. Longest(rt, Default, At(i, j))
      BY <1>1, <3>2, DefaultHolds DEF Longest
    <3> QED  BY <1>1, <3>1, <3>3, DefaultHolds DEF Leading
  <2> QED  BY <2>1, <2>2, <2>3 DEF TablesLead
<1> QED  BY <1>1, <1>2, <1>4, <1>6, <1>7, <1>8, <1>9, <1>10

\* The invariant holds after the constructor,
LEMMA DirectInits == DirectInit => DirectInv
<1> SUFFICES ASSUME DirectInit
             PROVE  DirectInv
  OBVIOUS
<1>1. /\ rtable = [p \in {Default} |-> 1]
      /\ Vports = [all |-> <<[via |-> None, ref |-> 1]>>, head |-> <<1>>, empty |-> << >>]
      /\ tbl = [i \in Primary |-> [sec |-> FALSE, ix |-> 1, plen |-> 0]]
      /\ sec = << >> /\ sempty = << >> /\ routes = << >> /\ Vports.all = vport
  BY DEF DirectInit, Vports
<1>2. /\ RoutesFit(rtable) /\ PortsFit(Vports) /\ \A q \in DOMAIN rtable : rtable[q] \in DOMAIN Vports.all
      /\ Counted(Vports, rtable) /\ RoutesAsked(Vports, rtable, << >>)
      /\ TablesFit(tbl, << >>, << >>) /\ TablesLead(rtable, tbl, << >>)
  BY <1>1, FlushedFits
<1> QED  BY <1>1, <1>2 DEF DirectInv

\* and after a flush.
LEMMA FlushKeeps == ASSUME Flush PROVE DirectInv'
<1>1. /\ rtable' = [p \in {Default} |-> 1]
      /\ Vports' = [all |-> <<[via |-> None, ref |-> 1]>>, head |-> <<1>>, empty |-> << >>]
      /\ tbl' = [i \in Primary |-> [sec |-> FALSE, ix |-> 1, plen |-> 0]]
      /\ sec' = << >> /\ sempty' = << >> /\ routes' = << >> /\ Vports'.all = vport'
  BY DEF Flush, Vports
<1>2. /\ RoutesFit(rtable') /\ PortsFit(Vports') /\ \A q \in DOMAIN rtable' : rtable'[q] \in DOMAIN Vports'.all
      /\ Counted(Vports', rtable') /\ RoutesAsked(Vports', rtable', << >>)
      /\ TablesFit(tbl', << >>, << >>) /\ TablesLead(rtable', tbl', << >>)
  BY <1>1, FlushedFits
<1> QED  BY <1>1, <1>2 DEF DirectInv

\* Every step keeps the invariant.
LEMMA DirectKeeps == DirectInv /\ [DirectNext]_dvars => DirectInv'
<1> SUFFICES ASSUME DirectInv, [DirectNext]_dvars
             PROVE  DirectInv'
  OBVIOUS
<1>1. ASSUME NEW via \in Via, NEW set \in BOOLEAN, SetDefault(via, set)
      PROVE  DirectInv'
  <2>1. /\ vport' = [vport EXCEPT ![1].via = via]
        /\ faults' = faults \cup (IF vport[1].ref > 1 THEN {"shared"} ELSE {})
        /\ UNCHANGED <<rtable, vhead, vempty, tbl, sec, sempty>>
        /\ \A q : q \in DOMAIN routes' <=> IF q = Default THEN via # None ELSE q \in DOMAIN routes
        /\ \A q \in DOMAIN routes' : routes'[q] = IF q = Default THEN via ELSE routes[q]
    BY <1>1, PrefixAssumption DEF SetDefault
  <2> QED  BY <2>1, DefaultPort
<1>2. ASSUME NEW via \in Via \cup {Any}, RemoveDefault(via)
      PROVE  DirectInv'
  <2>1. /\ vport' = [vport EXCEPT ![1].via = None]
        /\ faults' = faults \cup (IF vport[1].ref > 1 THEN {"shared"} ELSE {})
        /\ UNCHANGED <<rtable, vhead, vempty, tbl, sec, sempty>>
        /\ \A q : q \in DOMAIN routes' <=> IF q = Default THEN None # None ELSE q \in DOMAIN routes
        /\ \A q \in DOMAIN routes' : routes'[q] = IF q = Default THEN None ELSE routes[q]
    BY <1>2 DEF RemoveDefault
  <2> QED  BY <2>1, DefaultPort
<1>3. ASSUME NEW p \in Prefixes, NEW via \in Via, NEW set \in BOOLEAN, DirectAddRoute(p, via, set)
      PROVE  DirectInv'
  BY <1>3, DirectAddKeeps
<1>4. ASSUME NEW p \in Prefixes, NEW via \in Via, NEW set \in BOOLEAN, AddNoMemory(p, via, set)
      PROVE  DirectInv'
  BY <1>4, NoMemoryKeeps
<1>5. ASSUME NEW p \in Prefixes, NEW via \in Via \cup {Any}, DirectRemoveRoute(p, via)
      PROVE  DirectInv'
  BY <1>5, DirectRemoveKeeps
<1>6. CASE Flush
  BY <1>6, FlushKeeps
<1>7. CASE UNCHANGED dvars
  BY <1>7 DEF dvars, DirectInv, Vports
<1> QED  BY <1>1, <1>2, <1>3, <1>4, <1>5, <1>6, <1>7 DEF DirectNext

\* Two longest routes for an address are one.
LEMMA LongestOne ==
    ASSUME NEW rt, RoutesFit(rt), NEW a \in Addr, NEW p, Longest(rt, p, a), NEW q, Longest(rt, q, a)
    PROVE  p = q
<1>1. /\ p \in DOMAIN rt /\ q \in DOMAIN rt /\ Holds(p, a) /\ Holds(q, a)
      /\ p.len <= q.len /\ q.len <= p.len
  BY DEF Longest
<1>2. p \in AllPrefixes /\ q \in AllPrefixes
  BY <1>1 DEF RoutesFit
<1>3. /\ p = [addr |-> p.addr, len |-> p.len] /\ p.len \in 0 .. W
      /\ q = [addr |-> q.addr, len |-> q.len] /\ q.len \in 0 .. W /\ W \in Nat
  BY <1>2, HoldsBlock, Sizes
<1>4. p.len = q.len
  BY <1>1, <1>3
<1>5. p.addr = q.addr
  BY <1>1, <1>3, <1>4, HoldBoth
<1> QED  BY <1>3, <1>4, <1>5

\* What a lookup finds is the port of the longest route.
LEMMA LookupIs ==
    ASSUME DirectInv, "pruned" \notin faults, NEW a \in Addr
    PROVE  \E q \in DOMAIN rtable : Longest(rtable, q, a) /\ LookupVport(a) = rtable[q]
<1> DEFINE i == a \div Size
           j == a % Size
<1>1. i \in Primary /\ j \in Low /\ a = At(i, j)
  BY AtIs
<1>2. LookupVport(a) = IF tbl[i].sec THEN sec[tbl[i].ix][j].ix ELSE tbl[i].ix
  BY DEF LookupVport, Size
<1> HIDE DEF i, j
<1>3. LookupVport(a) = EntryAt(tbl, sec, i, j).ix
  BY <1>2 DEF EntryAt
<1>4. Leading(rtable, EntryAt(tbl, sec, i, j), a)
  BY <1>1 DEF DirectInv, TablesLead
<1> QED  BY <1>3, <1>4, Zenon DEF Leading

\* The tables lead every address to the port of its longest route,
LEMMA FindsIs == DirectInv => FindsLongest
<1> SUFFICES ASSUME DirectInv, "pruned" \notin faults, NEW a \in Addr
             PROVE  LookupVport(a) = rtable[LongestIn(a)]
  BY DEF FindsLongest
<1>1. PICK q \in DOMAIN rtable : Longest(rtable, q, a) /\ LookupVport(a) = rtable[q]
  BY LookupIs
<1>2. Longest(rtable, LongestIn(a), a)
  <2> DEFINE L(p) == Holds(p, a) /\ \A r \in DOMAIN rtable : Holds(r, a) => r.len <= p.len
  <2>1. L(q)
    BY <1>1 DEF Longest
  <2>2. LongestIn(a) = CHOOSE p \in DOMAIN rtable : L(p)
    BY Zenon DEF LongestIn
  <2> HIDE DEF L
  <2>3. LongestIn(a) \in DOMAIN rtable /\ L(LongestIn(a))
    BY <2>1, <2>2
  <2> QED  BY <2>3 DEF L, Longest
<1>3. LongestIn(a) = q
  BY <1>1, <1>2, LongestOne DEF DirectInv
<1> QED  BY <1>1, <1>3

\* the commands have asked for what that port leads to,
LEMMA RoutedIs == DirectInv => RoutedExactly
<1> SUFFICES ASSUME DirectInv, faults = {}, NEW a \in Addr
             PROVE  Lookup(a) = Best(routes, a)
  BY DEF RoutedExactly
<1>1. PICK q \in DOMAIN rtable : Longest(rtable, q, a) /\ LookupVport(a) = rtable[q]
  BY LookupIs
<1>2. /\ RoutesFit(rtable) /\ rtable[Default] = 1 /\ \A p \in DOMAIN rtable \ {Default} : vport[rtable[p]].via \in Via
      /\ DOMAIN routes = {p \in DOMAIN rtable : p # Default \/ vport[1].via # None}
      /\ \A p \in DOMAIN routes : routes[p] = vport[rtable[p]].via
  BY DEF DirectInv, RoutesAsked, Vports, RoutesFit
<1>3. Lookup(a) = vport[rtable[q]].via
  BY <1>1 DEF Lookup
<1> DEFINE hits == {p \in DOMAIN routes : Holds(p, a)}
           best == CHOOSE p \in hits : \A r \in hits : r.len <= p.len
<1>4. Best(routes, a) = IF hits = {} THEN None ELSE routes[best]
  BY DEF Best
<1> HIDE DEF best
<1>5. CASE q \in DOMAIN routes
  <2>1. q \in hits /\ \A r \in hits : r.len <= q.len
    BY <1>1, <1>2, <1>5 DEF Longest
  <2>2. best \in hits /\ \A r \in hits : r.len <= best.len
    BY <2>1 DEF best
  <2>3. best \in DOMAIN rtable /\ Holds(best, a) /\ q.len <= best.len
    BY <1>2, <2>1, <2>2
  <2>4. Longest(rtable, best, a)
    <3>1. \A r \in DOMAIN rtable : r.len \in Int
      BY <1>2, HoldsBlock DEF RoutesFit
    <3> QED  BY <1>1, <2>3, <3>1 DEF Longest
  <2>5. best = q
    BY <1>1, <1>2, <2>4, LongestOne
  <2> QED  BY <1>2, <1>3, <1>4, <1>5, <2>1, <2>5
<1>6. CASE q \notin DOMAIN routes
  <2>1. q = Default /\ vport[1].via = None
    BY <1>2, <1>6
  <2>2. ASSUME NEW r \in hits
        PROVE  FALSE
    <3>1. r \in DOMAIN rtable /\ r \in AllPrefixes /\ Holds(r, a) /\ r.len <= q.len /\ r # Default
      BY <1>1, <1>2, <1>6, <2>1 DEF Longest, RoutesFit
    <3>2. Longest(rtable, r, a)
      <4>1. r.len \in Nat /\ q.len = 0 /\ \A s \in DOMAIN rtable : s.len \in Int
        BY <1>2, <2>1, <3>1, DefaultHolds, HoldsBlock DEF RoutesFit
      <4>2. r.len = q.len
        BY <3>1, <4>1
      <4> QED  BY <1>1, <3>1, <4>2 DEF Longest
    <3> QED  BY <1>1, <1>2, <2>1, <3>1, <3>2, LongestOne
  <2> QED  BY <1>2, <1>3, <1>4, <2>1, <2>2
<1> QED  BY <1>5, <1>6

\* and ports and tables are accounted for.
LEMMA AccountsAre == DirectInv => DirectAccounting
<1> SUFFICES ASSUME DirectInv
             PROVE  DirectAccounting
  OBVIOUS
<1>1. PortsFit(Vports) /\ Vports.all = vport /\ Vports.head = vhead /\ Vports.empty = vempty
  BY DEF DirectInv, Vports
<1>2. /\ Listed(vhead) /\ Listed(vempty) /\ Ext!ToSet(vhead) \subseteq DOMAIN vport
      /\ \A v \in DOMAIN vport : /\ vport[v].ref \in Int
                                 /\ v \in Ext!ToSet(vhead) <=> vport[v].ref > 0
                                 /\ v \in Ext!ToSet(vempty) <=> vport[v].ref <= 0
  BY <1>1, PortFacts
<1>3. \A v \in DOMAIN vport : (v \in Ext!ToSet(vhead)) # (v \in Ext!ToSet(vempty))
  <2> SUFFICES ASSUME NEW v \in DOMAIN vport
               PROVE  (v \in Ext!ToSet(vhead)) # (v \in Ext!ToSet(vempty))
    OBVIOUS
  <2>1. v \in Ext!ToSet(vhead) <=> ~(v \in Ext!ToSet(vempty))
    BY <1>2
  <2> QED  BY <2>1, Zenon
<1>4. "unreferenced" \notin faults => \A v \in Ext!ToSet(vhead) : vport[v].ref = Cardinality(Users(v))
  <2>1. \A v : Users(v) = UsersOf(rtable, v)
    BY DEF Users, UsersOf
  <2> QED  BY <1>1, <1>2, <2>1 DEF DirectInv, Counted
<1>5. PortsCounted
  BY <1>2, <1>3, <1>4, Zenon DEF PortsCounted
<1>6. TablesCounted
  BY DEF TablesCounted, DirectInv, TablesFit
<1> QED  BY <1>5, <1>6 DEF DirectAccounting

\* DirectIPLookup routes every address as the accepted commands ask for
\* (iproutetable.hh:82-109), for every width of the addresses and of the primary
\* table, every set of prefixes and every limit, up to the first of the events
\* that the code does not provide for; and its ports and secondary tables are
\* accounted for (directiplookup.cc:86-158, 191-485).
THEOREM DirectIsSound == DirectSpec => [](DirectInv /\ DirectExact /\ DirectAccounting)
<1>1. DirectInv => DirectExact /\ DirectAccounting
  BY FindsIs, RoutedIs, AccountsAre DEF DirectExact
<1> QED  BY <1>1, DirectInits, DirectKeeps, PTL DEF DirectSpec

\* The tables that RangeIPLookup distills its ranges from are those of a
\* DirectIPLookup (rangeiplookup.cc:137-209), so they are as sound.
THEOREM RangeKeepsTables == RangeSpec => [](DirectExact /\ DirectAccounting)
<1>1. RangeInit => DirectInit
  BY DEF RangeInit
<1>2. [RangeNext]_<<dvars, rvars>> => [DirectNext]_dvars
  BY DEF RangeNext, DirectNext, Initialize, RangeSetDefault, RangeRemoveDefault, RangeAddRoute,
         RangeAddNoMemory, RangeRemoveRoute, RangeFlush
<1>3. RangeSpec => DirectSpec
  BY <1>1, <1>2, PTL DEF RangeSpec, DirectSpec
<1> QED  BY <1>3, DirectIsSound, PTL
=============================================================================
