------------------------ MODULE IPRateMonitor_proofs -----------------------
(***************************************************************************)
(* The tree of IPRateMonitor stays sound, and its memory accounted for and *)
(* within the limit, for any addresses, sizes, limits and rates.  The      *)
(* argument: every operation is made of three steps on a tree - a counter  *)
(* is added, a table is opened, tables are deleted - and each keeps the    *)
(* tree sound; a pass of fold deletes quiet tables in the order of the age *)
(* list until there is room, or all of them.                               *)
(***************************************************************************)
EXTENDS IPRateMonitor, FunctionTheorems, SequenceTheorems, FiniteSetTheorems, TLAPS

\* A counter is named by one or more bytes, a table by fewer than Depth
Names == {c \in Seq(Bytes) : 1 <= Len(c) /\ Len(c) <= Depth}
Trees(D) == [counters : [D -> Int], tables : SUBSET Seq(Bytes),
             older : SUBSET (Seq(Bytes) \X Seq(Bytes)), mem : Int]

\* What the operations keep of a tree besides its soundness
TreeType(t) ==
    /\ t \in Trees(DOMAIN t.counters)
    /\ DOMAIN t.counters \subseteq Names
    /\ IsFiniteSet(DOMAIN t.counters) /\ IsFiniteSet(t.tables)
    /\ \A r \in t.tables : Len(r) < Depth
Good(t, lost) == TreeType(t) /\ Sound(t, lost)

Honoured(t) == \A c \in DOMAIN t.counters : t.counters[c] >= now => c \notin t.tables

\* The inductive invariant: what a step may do to the tree and to the memory
\* depends on all of the tree.
IInv ==
    /\ Good(This, unaccounted) /\ Honoured(This)
    /\ memmax \in MemMaxes /\ now \in Nat \ {0} /\ unaccounted \in Nat
    /\ folding \in Nat /\ (folding # 0 => memmax # 0)
    /\ MemBounded
----------------------------------------------------------------------------
\* Names and their prefixes.
LEMMA PrefixOf ==
    ASSUME NEW s \in Seq(Bytes), NEW c \in Seq(Bytes)
    PROVE  IsPrefix(s, c) <=> Len(s) <= Len(c) /\ \A i \in 1 .. Len(s) : s[i] = c[i]
<1>1. Len(s) \in Nat /\ Len(c) \in Nat
  OBVIOUS
<1>2. SubSeq(s, 1, Len(s)) = s
  BY SubSeqFull
<1>3. ASSUME Len(s) <= Len(c)
      PROVE  /\ SubSeq(c, 1, Len(s)) \in Seq(Bytes)
             /\ Len(SubSeq(c, 1, Len(s))) = Len(s)
             /\ \A i \in 1 .. Len(s) : SubSeq(c, 1, Len(s))[i] = c[i]
  <2>1. \A i \in 1 .. Len(s) : c[i] \in Bytes
    BY <1>1, <1>3, ElementOfSeq
  <2>2. Len(s) = 0 \/ 1 <= Len(s)
    BY <1>1
  <2> QED  BY <1>1, <2>1, <2>2, SubSeqProperties
<1>4. ASSUME Len(s) <= Len(c), \A i \in 1 .. Len(s) : s[i] = c[i]
      PROVE  SubSeq(c, 1, Len(s)) = s
  BY <1>1, <1>3, <1>4, SeqEqual
<1> QED  BY <1>2, <1>3, <1>4 DEF IsPrefix

LEMMA FrontOf ==
    ASSUME NEW c \in Seq(Bytes), Len(c) >= 1
    PROVE  /\ Front(c) \in Seq(Bytes)
           /\ Len(Front(c)) >= Len(c) - 1 /\ Len(Front(c)) <= Len(c) - 1
           /\ \A i \in 1 .. Len(c) - 1 : Front(c)[i] = c[i]
<1>1. Len(c) \in Nat /\ Len(c) - 1 \in Int
  OBVIOUS
<1>2. Front(c) \in Seq(Bytes)
  BY <1>1 DEF Front
<1>3. \A i \in 1 .. Len(c) - 1 : c[i] \in Bytes
  BY <1>1, ElementOfSeq
<1> DEFINE s == SubSeq(c, 1, Len(c) - 1)
<1>4. Len(s) = IF 1 <= Len(c) - 1 THEN (Len(c) - 1) - 1 + 1 ELSE 0
  BY <1>1, <1>3, SubSeqProperties
<1> HIDE DEF s
<1>5. Len(s) >= Len(c) - 1 /\ Len(s) <= Len(c) - 1
  BY <1>1, <1>4
<1>6. \A i \in 1 .. Len(c) - 1 : Front(c)[i] = c[i]
  BY <1>1 DEF Front
<1> QED  BY <1>2, <1>5, <1>6 DEF Front, s

\* What is below the front of a name is below the name.
LEMMA PrefixFacts ==
    ASSUME NEW s \in Seq(Bytes)
    PROVE  /\ IsPrefix(s, s)
           /\ IsPrefix(s, <<>>) <=> s = <<>>
           /\ \A c \in Seq(Bytes) : Len(c) >= 1 /\ IsPrefix(s, Front(c)) => IsStrictPrefix(s, c)
           /\ \A c \in Seq(Bytes) : Len(c) >= 1 /\ IsStrictPrefix(s, c) => IsPrefix(s, Front(c))
<1>1. IsPrefix(s, s)
  BY PrefixOf
<1>2. IsPrefix(s, <<>>) <=> s = <<>>
  <2>1. <<>> \in Seq(Bytes) /\ Len(<<>>) = 0
    BY EmptySeq
  <2>2. Len(s) \in Nat
    OBVIOUS
  <2>3. IsPrefix(s, <<>>) => Len(s) <= 0
    BY <2>1, PrefixOf
  <2>4. s = <<>> => IsPrefix(s, <<>>)
    BY <1>1
  <2>5. Len(s) <= 0 => s = <<>>
    BY <2>2
  <2> QED  BY <2>3, <2>4, <2>5
<1>3. ASSUME NEW c \in Seq(Bytes), Len(c) >= 1, IsPrefix(s, Front(c))
      PROVE  IsStrictPrefix(s, c)
  <2>1. Len(s) <= Len(c) - 1 /\ \A i \in 1 .. Len(s) : s[i] = Front(c)[i]
    BY <1>3, PrefixOf, FrontOf
  <2>2. \A i \in 1 .. Len(s) : s[i] = c[i]
    BY <1>3, <2>1, FrontOf
  <2> QED  BY <1>3, <2>1, <2>2, PrefixOf DEF IsStrictPrefix
<1>4. ASSUME NEW c \in Seq(Bytes), Len(c) >= 1, IsStrictPrefix(s, c)
      PROVE  IsPrefix(s, Front(c))
  <2>1. Len(s) <= Len(c) /\ \A i \in 1 .. Len(s) : s[i] = c[i]
    BY <1>4, PrefixOf DEF IsStrictPrefix
  <2>2. Len(s) # Len(c)
    BY <1>4, <2>1, SeqEqual DEF IsStrictPrefix
  <2>3. Len(s) \in Nat /\ Len(c) \in Nat
    OBVIOUS
  <2>4. Len(s) <= Len(Front(c)) /\ \A i \in 1 .. Len(s) : s[i] = Front(c)[i]
    BY <1>4, <2>1, <2>2, <2>3, FrontOf
  <2> QED  BY <1>4, <2>4, PrefixOf, FrontOf
<1> QED  BY <1>1, <1>2, <1>3, <1>4
----------------------------------------------------------------------------
\* Memory: sums of sizes and of numbers of things.
LEMMA AccountArith ==
    ASSUME NEW ss \in Nat, NEW cs \in Nat, NEW T \in Nat, NEW G \in Nat,
           NEW C \in Nat, NEW K \in Nat, NEW l \in Nat
    PROVE  /\ (ss * T + cs * (C + l)) - K * cs - G * ss = ss * (T - G) + cs * ((C - K) + l)
           /\ (ss * T + cs * (C + l)) + cs = ss * T + cs * (C + 1 + l)
           /\ (ss * T + cs * (C + l)) + ss = ss * (T + 1) + cs * (C + l)
           /\ K * cs \in Nat /\ G * ss \in Nat
BY SMT

LEMMA Monotone ==
    ASSUME NEW a \in Nat, NEW b \in Nat, NEW c \in Nat, b <= c
    PROVE  a * b \in Nat /\ a * b <= a * c
BY SMT

LEMMA CardinalityMinus ==
    ASSUME NEW A, NEW B \in SUBSET A, IsFiniteSet(A)
    PROVE  /\ IsFiniteSet(A \ B)
           /\ Cardinality(A) \in Nat /\ Cardinality(B) \in Nat /\ Cardinality(A \ B) \in Nat
           /\ Cardinality(A \ B) = Cardinality(A) - Cardinality(B)
           /\ Cardinality(B) <= Cardinality(A)
<1>1. A \cap B = B
  OBVIOUS
<1>2. IsFiniteSet(B) /\ Cardinality(B) <= Cardinality(A)
  BY FS_Subset
<1>3. IsFiniteSet(A \ B) /\ Cardinality(A \ B) = Cardinality(A) - Cardinality(B)
  BY <1>1, FS_Difference
<1> QED  BY <1>2, <1>3, FS_CardinalityType

LEMMA ThisIs ==
    /\ This.counters = counters /\ This.tables = tables
    /\ This.older = older /\ This.mem = alloced_mem
BY DEF This, Tree
----------------------------------------------------------------------------
\* Deleting tables other than the base leaves a sound tree, a part of the one before.
LEMMA DeletedFields ==
    ASSUME NEW t, NEW S
    PROVE  /\ Deleted(t, S).counters = [c \in DOMAIN Deleted(t, S).counters |-> t.counters[c]]
           /\ DOMAIN Deleted(t, S).counters = DOMAIN t.counters \ CountersBelow(t, S)
           /\ Deleted(t, S).tables = t.tables \ TablesFrom(t, S)
           /\ Deleted(t, S).older = t.older \cap (Deleted(t, S).tables \X Deleted(t, S).tables)
           /\ Deleted(t, S).mem = MemWithout(t, S)
<1>1. Deleted(t, S).counters = [c \in DOMAIN t.counters \ CountersBelow(t, S) |-> t.counters[c]]
  BY DEF Deleted, Tree
<1>2. DOMAIN Deleted(t, S).counters = DOMAIN t.counters \ CountersBelow(t, S)
  BY <1>1
<1>3. Deleted(t, S).counters = [c \in DOMAIN Deleted(t, S).counters |-> t.counters[c]]
  BY <1>1, <1>2, Zenon
<1> QED  BY <1>2, <1>3 DEF Deleted, Tree

LEMMA DeletedMem ==
    ASSUME NEW t, NEW lost \in Nat, Good(t, lost), NEW S
    PROVE  /\ Accounted(Deleted(t, S), lost)
           /\ IsFiniteSet(DOMAIN Deleted(t, S).counters) /\ IsFiniteSet(Deleted(t, S).tables)
           /\ MemWithout(t, S) \in Int /\ MemWithout(t, S) <= t.mem
<1> DEFINE K == CountersBelow(t, S)
           G == TablesFrom(t, S)
           C == DOMAIN t.counters
           T == t.tables
<1>1. IsFiniteSet(C) /\ IsFiniteSet(T)
  BY DEF Good, TreeType
<1>2. K \in SUBSET C /\ G \in SUBSET T
  BY DEF CountersBelow, TablesFrom
<1>3. /\ IsFiniteSet(C \ K) /\ IsFiniteSet(T \ G)
      /\ Cardinality(C) \in Nat /\ Cardinality(T) \in Nat
      /\ Cardinality(K) \in Nat /\ Cardinality(G) \in Nat
      /\ Cardinality(C \ K) = Cardinality(C) - Cardinality(K)
      /\ Cardinality(T \ G) = Cardinality(T) - Cardinality(G)
  BY <1>1, <1>2, CardinalityMinus
<1>4. t.mem = StatsSize * Cardinality(T) + CounterSize * (Cardinality(C) + lost)
  BY DEF Good, Sound, Accounted
<1>5. MemWithout(t, S) = t.mem - Cardinality(K) * CounterSize - Cardinality(G) * StatsSize
  BY DEF MemWithout
<1>6. StatsSize \in Nat /\ CounterSize \in Nat /\ t.mem \in Int
  BY RateMonAssumption DEF Good, TreeType, Trees
<1> HIDE DEF K, G, C, T
<1>7. /\ MemWithout(t, S) = StatsSize * (Cardinality(T) - Cardinality(G))
                            + CounterSize * ((Cardinality(C) - Cardinality(K)) + lost)
      /\ Cardinality(K) * CounterSize \in Nat /\ Cardinality(G) * StatsSize \in Nat
  BY <1>3, <1>4, <1>5, <1>6, AccountArith
<1>8. MemWithout(t, S) \in Int /\ MemWithout(t, S) <= t.mem
  BY <1>5, <1>6, <1>7
<1>9. /\ DOMAIN Deleted(t, S).counters = C \ K
      /\ Deleted(t, S).tables = T \ G
      /\ Deleted(t, S).mem = MemWithout(t, S)
  BY DeletedFields DEF C, K, T, G
<1> QED  BY <1>3, <1>7, <1>8, <1>9 DEF Accounted

LEMMA DeletedGood ==
    ASSUME NEW t, NEW lost \in Nat, Good(t, lost), NEW S \in SUBSET (Seq(Bytes) \ {<<>>})
    PROVE  /\ Good(Deleted(t, S), lost)
           /\ Deleted(t, S).mem <= t.mem
           /\ Deleted(t, S).tables \subseteq t.tables
           /\ DOMAIN Deleted(t, S).counters \subseteq DOMAIN t.counters
           /\ \A c \in DOMAIN Deleted(t, S).counters : Deleted(t, S).counters[c] = t.counters[c]
           /\ \A s \in S : s \notin Deleted(t, S).tables
<1> DEFINE d == Deleted(t, S)
<1>1. /\ t.counters \in [DOMAIN t.counters -> Int] /\ t.tables \in SUBSET Seq(Bytes)
      /\ t.older \in SUBSET (Seq(Bytes) \X Seq(Bytes)) /\ t.mem \in Int
      /\ DOMAIN t.counters \subseteq Names /\ \A r \in t.tables : Len(r) < Depth
  BY DEF Good, TreeType, Trees
<1>2. /\ d.counters = [c \in DOMAIN d.counters |-> t.counters[c]]
      /\ DOMAIN d.counters = DOMAIN t.counters \ CountersBelow(t, S)
      /\ d.tables = t.tables \ TablesFrom(t, S)
      /\ d.older = t.older \cap (d.tables \X d.tables)
      /\ d.mem = MemWithout(t, S)
  BY DeletedFields, Zenon
<1>3. TreeType(d)
  <2>1. d.counters \in [DOMAIN d.counters -> Int]
    BY <1>1, <1>2
  <2>2. d = [counters |-> d.counters, tables |-> d.tables, older |-> d.older, mem |-> d.mem]
    BY DEF Deleted, Tree
  <2>3. d.mem \in Int
    BY <1>2, DeletedMem
  <2>4. d.tables \in SUBSET Seq(Bytes) /\ d.older \in SUBSET (Seq(Bytes) \X Seq(Bytes))
    BY <1>1, <1>2
  <2>5. d \in Trees(DOMAIN d.counters)
    BY <2>1, <2>2, <2>3, <2>4 DEF Trees
  <2> QED  BY <1>1, <1>2, <2>5, DeletedMem DEF TreeType
<1>4. \A c \in Names : c \in Seq(Bytes) /\ Len(c) >= 1 /\ c # <<>>
  BY DEF Names
<1>5. ListOK(t) /\ \A c \in DOMAIN t.counters : Front(c) \in t.tables
  BY DEF Good, Sound
<1>6. \A c \in DOMAIN d.counters : Front(c) \in d.tables
  <2> SUFFICES ASSUME NEW c \in DOMAIN d.counters
               PROVE  Front(c) \in d.tables
    OBVIOUS
  <2>1. c \in DOMAIN t.counters /\ c \in Seq(Bytes) /\ Len(c) >= 1 /\ Front(c) \in t.tables
    BY <1>1, <1>2, <1>4, <1>5
  <2>2. ASSUME NEW s \in S, IsPrefix(s, Front(c))
        PROVE  IsStrictPrefix(s, c)
    BY <2>1, <2>2, PrefixFacts
  <2> QED  BY <1>2, <2>1, <2>2 DEF CountersBelow, TablesFrom
<1>7. <<>> \in d.tables
  BY <1>2, <1>5, PrefixFacts DEF ListOK, TablesFrom
<1>8. \A r \in d.tables \ {<<>>} :
         <<<<>>, r>> \in d.older /\ <<Front(r), r>> \in d.older /\ r \in DOMAIN d.counters
  <2> SUFFICES ASSUME NEW r \in d.tables \ {<<>>}
               PROVE  <<<<>>, r>> \in d.older /\ <<Front(r), r>> \in d.older /\ r \in DOMAIN d.counters
    OBVIOUS
  <2>1. r \in t.tables /\ <<<<>>, r>> \in t.older /\ <<Front(r), r>> \in t.older /\ r \in DOMAIN t.counters
    BY <1>2, <1>5 DEF ListOK
  <2>2. r \in DOMAIN d.counters
    BY <1>2, <2>1 DEF CountersBelow, TablesFrom, IsStrictPrefix
  <2> QED  BY <1>2, <1>6, <1>7, <2>1, <2>2
<1>9. ListOK(d)
  BY <1>2, <1>5, <1>7, <1>8 DEF ListOK
<1>10. Sound(d, lost)
  BY <1>6, <1>9, DeletedMem DEF Sound
<1>11. \A s \in S : s \notin d.tables
  BY <1>2, PrefixFacts DEF TablesFrom
<1> QED  BY <1>2, <1>3, <1>10, <1>11, DeletedMem DEF Good
----------------------------------------------------------------------------
\* A counter is added, a table is opened.
LEMMA WithCounterGood ==
    ASSUME NEW t, NEW lost \in Nat, Good(t, lost), NEW c \in Names, Front(c) \in t.tables
    PROVE  /\ Good(WithCounter(t, c), lost)
           /\ WithCounter(t, c).tables = t.tables
           /\ WithCounter(t, c).mem = t.mem + (IF c \in DOMAIN t.counters THEN 0 ELSE CounterSize)
           /\ DOMAIN WithCounter(t, c).counters = DOMAIN t.counters \cup {c}
           /\ \A d \in DOMAIN t.counters : WithCounter(t, c).counters[d] = t.counters[d]
           /\ c \notin DOMAIN t.counters => WithCounter(t, c).counters[c] = 0
<1> DEFINE u == WithCounter(t, c)
           D == DOMAIN t.counters \cup {c}
<1>1. /\ t.counters \in [DOMAIN t.counters -> Int] /\ t.tables \in SUBSET Seq(Bytes)
      /\ t.older \in SUBSET (Seq(Bytes) \X Seq(Bytes)) /\ t.mem \in Int
      /\ DOMAIN t.counters \subseteq Names /\ \A r \in t.tables : Len(r) < Depth
      /\ IsFiniteSet(DOMAIN t.counters) /\ IsFiniteSet(t.tables)
  BY DEF Good, TreeType, Trees
<1>2. /\ u = [counters |-> u.counters, tables |-> u.tables, older |-> u.older, mem |-> u.mem]
      /\ u.counters = [d \in D |-> IF d \in DOMAIN t.counters THEN t.counters[d] ELSE 0]
      /\ u.tables = t.tables /\ u.older = t.older
      /\ u.mem = t.mem + (IF c \in DOMAIN t.counters THEN 0 ELSE CounterSize)
  BY DEF WithCounter, Tree
<1>3. DOMAIN u.counters = D
  BY <1>2
<1>4. u.counters \in [D -> Int]
  BY <1>1, <1>2
<1>5. u.mem \in Int
  BY <1>1, <1>2, RateMonAssumption
<1>6. u \in Trees(DOMAIN u.counters)
  BY <1>1, <1>2, <1>3, <1>4, <1>5 DEF Trees
<1>7. IsFiniteSet(D) /\ Cardinality(D) = IF c \in DOMAIN t.counters THEN Cardinality(DOMAIN t.counters)
                                         ELSE Cardinality(DOMAIN t.counters) + 1
  BY <1>1, FS_AddElement
<1>8. TreeType(u)
  BY <1>1, <1>2, <1>3, <1>6, <1>7 DEF TreeType
<1>9. ListOK(u)
  BY <1>2, <1>3 DEF Good, Sound, ListOK
<1>10. \A d \in D : Front(d) \in u.tables
  BY <1>2 DEF Good, Sound
<1>11. Accounted(u, lost)
  <2>1. CASE c \in DOMAIN t.counters
    <3>1. D = DOMAIN t.counters /\ u.mem = t.mem
      BY <1>1, <1>2, <2>1
    <3> QED  BY <1>2, <1>3, <3>1 DEF Good, Sound, Accounted
  <2>2. CASE c \notin DOMAIN t.counters
    <3>1. Cardinality(D) = Cardinality(DOMAIN t.counters) + 1 /\ u.mem = t.mem + CounterSize
      BY <1>2, <1>7, <2>2
    <3>2. Cardinality(DOMAIN t.counters) \in Nat /\ Cardinality(t.tables) \in Nat
      BY <1>1, FS_CardinalityType
    <3>3. t.mem = StatsSize * Cardinality(t.tables)
                  + CounterSize * (Cardinality(DOMAIN t.counters) + lost)
      BY DEF Good, Sound, Accounted
    <3>4. StatsSize \in Nat /\ CounterSize \in Nat
      BY RateMonAssumption
    <3>5. u.mem = StatsSize * Cardinality(t.tables)
                  + CounterSize * (Cardinality(DOMAIN t.counters) + 1 + lost)
      BY <3>1, <3>2, <3>3, <3>4, AccountArith
    <3> QED  BY <1>2, <1>3, <3>1, <3>5 DEF Accounted
  <2> QED  BY <2>1, <2>2
<1>12. Good(u, lost)
  BY <1>3, <1>8, <1>9, <1>10, <1>11 DEF Good, Sound
<1> QED  BY <1>2, <1>3, <1>12

LEMMA OpenedGood ==
    ASSUME NEW t, NEW lost \in Nat, Good(t, lost),
           NEW c \in DOMAIN t.counters, c \notin t.tables, Len(c) < Depth
    PROVE  /\ Good(Opened(t, c), lost)
           /\ Opened(t, c).counters = t.counters
           /\ Opened(t, c).tables = t.tables \cup {c}
           /\ Opened(t, c).mem = t.mem + StatsSize
<1> DEFINE u == Opened(t, c)
<1>1. /\ t.counters \in [DOMAIN t.counters -> Int] /\ t.tables \in SUBSET Seq(Bytes)
      /\ t.older \in SUBSET (Seq(Bytes) \X Seq(Bytes)) /\ t.mem \in Int
      /\ DOMAIN t.counters \subseteq Names /\ \A r \in t.tables : Len(r) < Depth
      /\ IsFiniteSet(DOMAIN t.counters) /\ IsFiniteSet(t.tables)
  BY DEF Good, TreeType, Trees
<1>2. /\ u = [counters |-> u.counters, tables |-> u.tables, older |-> u.older, mem |-> u.mem]
      /\ u.counters = t.counters /\ u.tables = t.tables \cup {c}
      /\ u.older = t.older \cup (t.tables \X {c}) /\ u.mem = t.mem + StatsSize
  BY DEF Opened, Tree
<1> HIDE DEF u
<1>3. c \in Seq(Bytes)
  BY <1>1 DEF Names
<1>4. u \in Trees(DOMAIN u.counters)
  <2>1. u.mem \in Int
    BY <1>1, <1>2, RateMonAssumption
  <2>2. u.tables \in SUBSET Seq(Bytes) /\ u.older \in SUBSET (Seq(Bytes) \X Seq(Bytes))
    BY <1>1, <1>2, <1>3
  <2> QED  BY <1>1, <1>2, <2>1, <2>2 DEF Trees
<1>5. IsFiniteSet(u.tables) /\ Cardinality(u.tables) = Cardinality(t.tables) + 1
  <2>1. /\ IsFiniteSet(t.tables \cup {c})
        /\ Cardinality(t.tables \cup {c}) =
             IF c \in t.tables THEN Cardinality(t.tables) ELSE Cardinality(t.tables) + 1
    BY <1>1, FS_AddElement, Zenon
  <2> QED  BY <1>2, <2>1
<1>6. TreeType(u)
  BY <1>1, <1>2, <1>4, <1>5 DEF TreeType
<1>7. ListOK(t) /\ \A d \in DOMAIN t.counters : Front(d) \in t.tables
  BY DEF Good, Sound
<1>8. ListOK(u)
  <2>1. /\ u.older \subseteq u.tables \X u.tables
        /\ \A r \in u.tables : <<r, r>> \notin u.older
        /\ \A r, s \in u.tables : r = s \/ <<r, s>> \in u.older \/ <<s, r>> \in u.older
        /\ <<>> \in u.tables
    BY <1>2, <1>7 DEF ListOK
  <2>2. \A r, s, v \in u.tables : <<r, s>> \in u.older /\ <<s, v>> \in u.older => <<r, v>> \in u.older
    <3> SUFFICES ASSUME NEW r \in u.tables, NEW s \in u.tables, NEW v \in u.tables,
                        <<r, s>> \in u.older, <<s, v>> \in u.older
                 PROVE  <<r, v>> \in u.older
      OBVIOUS
    <3>1. r \in t.tables /\ s \in t.tables /\ <<r, s>> \in t.older
      <4>1. t.older \subseteq t.tables \X t.tables
        BY <1>7 DEF ListOK
      <4>2. s \in t.tables
        BY <1>2, <4>1
      <4>3. <<r, s>> \in t.older
        BY <1>2, <4>2
      <4> QED  BY <4>1, <4>2, <4>3
    <3>2. CASE v = c
      BY <1>2, <3>1, <3>2
    <3>3. CASE v # c
      <4>1. v \in t.tables /\ <<s, v>> \in t.older
        BY <1>2, <3>3
      <4> QED  BY <1>2, <1>7, <3>1, <4>1 DEF ListOK
    <3> QED  BY <3>2, <3>3
  <2>3. \A r \in u.tables \ {<<>>} :
           <<<<>>, r>> \in u.older /\ <<Front(r), r>> \in u.older /\ r \in DOMAIN u.counters
    BY <1>2, <1>7 DEF ListOK
  <2> QED  BY <2>1, <2>2, <2>3 DEF ListOK
<1>9. Accounted(u, lost)
  <2>1. Cardinality(DOMAIN t.counters) \in Nat /\ Cardinality(t.tables) \in Nat
    BY <1>1, FS_CardinalityType
  <2>2. t.mem = StatsSize * Cardinality(t.tables)
                + CounterSize * (Cardinality(DOMAIN t.counters) + lost)
    BY DEF Good, Sound, Accounted
  <2>3. StatsSize \in Nat /\ CounterSize \in Nat
    BY RateMonAssumption
  <2>4. t.mem + StatsSize = StatsSize * (Cardinality(t.tables) + 1)
                            + CounterSize * (Cardinality(DOMAIN t.counters) + lost)
    BY <2>1, <2>2, <2>3, AccountArith
  <2> QED  BY <1>2, <1>5, <2>4 DEF Accounted
<1>10. Good(u, lost)
  BY <1>2, <1>6, <1>7, <1>8, <1>9 DEF Good, Sound
<1> QED  BY <1>2, <1>10 DEF u
----------------------------------------------------------------------------
\* The names on the way to an address.
LEMMA PrefixIs ==
    ASSUME NEW addr \in Addr, NEW n \in 0 .. Depth
    PROVE  /\ Prefix(addr, n) \in Seq(Bytes)
           /\ Len(Prefix(addr, n)) <= n /\ Len(Prefix(addr, n)) >= n
           /\ \A i \in 1 .. n : Prefix(addr, n)[i] = addr[i]
<1>1. Depth \in Nat /\ \A i \in 1 .. n : addr[i] \in Bytes
  BY RateMonAssumption DEF Addr
<1> DEFINE s == SubSeq(addr, 1, n)
<1>2. /\ s \in Seq(Bytes)
      /\ Len(s) = IF 1 <= n THEN n - 1 + 1 ELSE 0
      /\ \A i \in 1 .. n - 1 + 1 : s[i] = addr[1 + i - 1]
  BY <1>1, SubSeqProperties
<1> HIDE DEF s
<1>3. n - 1 + 1 = n
  OBVIOUS
<1>4. Len(s) <= n /\ Len(s) >= n
  BY <1>2, <1>3
<1>5. ASSUME NEW i \in 1 .. n
      PROVE  s[i] = addr[i]
  <2>1. 1 + i - 1 = i /\ i \in 1 .. n - 1 + 1
    BY <1>3
  <2> QED  BY <1>2, <2>1
<1> QED  BY <1>2, <1>4, <1>5 DEF Prefix, s

LEMMA FrontOfPrefix ==
    ASSUME NEW addr \in Addr, NEW n \in 1 .. Depth
    PROVE  Front(Prefix(addr, n)) = Prefix(addr, n - 1)
<1>1. Depth \in Nat /\ n \in 0 .. Depth /\ n - 1 \in 0 .. Depth
  BY RateMonAssumption
<1> DEFINE c == Prefix(addr, n)
           d == Prefix(addr, n - 1)
<1>2. c \in Seq(Bytes) /\ Len(c) <= n /\ Len(c) >= n /\ \A i \in 1 .. n : c[i] = addr[i]
  BY <1>1, PrefixIs
<1>3. d \in Seq(Bytes) /\ Len(d) <= n - 1 /\ Len(d) >= n - 1 /\ \A i \in 1 .. n - 1 : d[i] = addr[i]
  BY <1>1, PrefixIs
<1> HIDE DEF c, d
<1>4. /\ Front(c) \in Seq(Bytes)
      /\ Len(Front(c)) >= Len(c) - 1 /\ Len(Front(c)) <= Len(c) - 1
      /\ \A i \in 1 .. Len(c) - 1 : Front(c)[i] = c[i]
  BY <1>1, <1>2, FrontOf
<1>5. \A i \in 1 .. Len(d) : Front(c)[i] = d[i]
  BY <1>2, <1>3, <1>4
<1>6. Len(Front(c)) = Len(d)
  BY <1>2, <1>3, <1>4
<1> QED  BY <1>3, <1>4, <1>5, <1>6, SeqEqual DEF c, d

\* A set of numbers has a least one.
LEMMA LeastNat ==
    ASSUME NEW S \in SUBSET Nat, S # {}
    PROVE  \E n \in S : \A m \in S : n <= m
<1> DEFINE T == {1 .. n : n \in S}
           R == StrictSubsetOrdering(Nat)
<1>1. IsWellFoundedOn(R, FiniteSubsetsOf(Nat))
  BY FS_StrictSubsetOrderingWellFounded
<1>2. T \subseteq FiniteSubsetsOf(Nat) /\ T # {}
  <2>1. \A n \in S : 1 .. n \in SUBSET Nat
    OBVIOUS
  <2>2. \A n \in S : IsFiniteSet(1 .. n)
    BY FS_Interval
  <2> QED  BY <2>1, <2>2 DEF FiniteSubsetsOf
<1>3. PICK x \in T : \A y \in T : ~(<<y, x>> \in R)
  BY <1>1, <1>2, WFMin
<1>4. PICK n \in S : x = 1 .. n
  BY <1>3
<1>5. ASSUME NEW m \in S, ~(n <= m)
      PROVE  FALSE
  <2>1. 1 .. m \in SUBSET Nat /\ 1 .. n \in SUBSET Nat
    OBVIOUS
  <2>2. 1 .. m \subseteq 1 .. n /\ 1 .. m # 1 .. n
    BY <1>5
  <2>3. <<1 .. m, 1 .. n>> \in R
    BY <2>1, <2>2 DEF StrictSubsetOrdering
  <2> QED  BY <1>3, <1>4, <2>3
<1>6. \A m \in S : n <= m
  BY <1>5
<1> QED  BY <1>4, <1>6, Zenon

LEMMA DeepestIs ==
    ASSUME NEW lost \in Nat, Good(This, lost), NEW addr \in Addr
    PROVE  \E n \in 1 .. Depth : /\ Deepest(addr) = Prefix(addr, n)
                                 /\ Deepest(addr) \in Names /\ Deepest(addr) \notin tables
                                 /\ Front(Deepest(addr)) \in tables
<1>1. /\ Depth \in Nat \ {0} /\ <<>> \in tables
      /\ \A r \in tables : r \in Seq(Bytes) /\ Len(r) < Depth
  BY ThisIs, RateMonAssumption DEF Good, Sound, ListOK, TreeType, Trees
<1> DEFINE P(n) == /\ Prefix(addr, n) \notin tables
                   /\ \A k \in 1 .. n - 1 : Prefix(addr, k) \in tables
           S == {n \in 1 .. Depth : Prefix(addr, n) \notin tables}
<1>2. Depth \in S
  <2>1. Depth \in 0 .. Depth /\ Depth \in 1 .. Depth
    BY <1>1
  <2>2. Len(Prefix(addr, Depth)) >= Depth
    BY <2>1, PrefixIs
  <2> QED  BY <1>1, <2>1, <2>2
<1>3. PICK n \in S : \A m \in S : n <= m
  <2>1. S \in SUBSET Nat /\ S # {}
    BY <1>1, <1>2
  <2> HIDE DEF S
  <2> QED  BY <2>1, LeastNat
<1>4. P(n) /\ n \in 1 .. Depth
  BY <1>1, <1>3
<1> DEFINE k == CHOOSE i \in 1 .. Depth : P(i)
<1>5. k \in 1 .. Depth /\ P(k)
  BY <1>4
<1>6. Deepest(addr) = Prefix(addr, k)
  BY DEF Deepest
<1> HIDE DEF k
<1>7. Prefix(addr, k) \in Names
  <2>1. k \in 0 .. Depth
    BY <1>1, <1>5
  <2>2. Prefix(addr, k) \in Seq(Bytes) /\ Len(Prefix(addr, k)) <= k /\ Len(Prefix(addr, k)) >= k
    BY <2>1, PrefixIs
  <2> QED  BY <1>1, <1>5, <2>2 DEF Names
<1>8. Prefix(addr, k - 1) \in tables
  <2>1. CASE k = 1
    <3>1. 0 \in 0 .. Depth /\ k - 1 = 0
      BY <1>1, <2>1
    <3>2. Prefix(addr, 0) \in Seq(Bytes) /\ Len(Prefix(addr, 0)) <= 0
      BY <3>1, PrefixIs
    <3>3. Prefix(addr, 0) = <<>>
      BY <3>2
    <3> QED  BY <1>1, <3>1, <3>3
  <2>2. CASE k # 1
    <3>1. k - 1 \in 1 .. k - 1
      BY <1>1, <1>5, <2>2
    <3> QED  BY <1>5, <3>1
  <2> QED  BY <2>1, <2>2
<1>9. Front(Prefix(addr, k)) = Prefix(addr, k - 1)
  BY <1>5, FrontOfPrefix
<1> QED  BY <1>5, <1>6, <1>7, <1>8, <1>9
----------------------------------------------------------------------------
\* A pass of fold deletes some of the quiet tables; it leaves the others only
\* when there is room.
LEMMA BeforeOrder ==
    ASSUME NEW t, ListOK(t), NEW forward \in BOOLEAN
    PROVE  /\ \A r \in t.tables : ~Before(t, forward, r, r)
           /\ \A r, s \in t.tables : r = s \/ Before(t, forward, r, s) \/ Before(t, forward, s, r)
           /\ \A r, s, u \in t.tables :
                 Before(t, forward, r, s) /\ Before(t, forward, s, u) => Before(t, forward, r, u)
<1>1. CASE forward
  BY <1>1 DEF ListOK, Before
<1>2. CASE ~forward
  BY <1>2 DEF ListOK, Before
<1> QED  BY <1>1, <1>2

FoldMakesRoom(t, quiet, forward, limit) ==
    \E D \in SUBSET quiet : /\ Folded(t, quiet, forward, limit) = Deleted(t, D)
                            /\ MemWithout(t, D) < limit \/ D = quiet

LEMMA FoldedIs ==
    ASSUME NEW t, NEW lost \in Nat, Good(t, lost), NEW quiet \in SUBSET t.tables,
           NEW forward \in BOOLEAN, NEW limit \in Int
    PROVE  FoldMakesRoom(t, quiet, forward, limit)
<1> DEFINE B(r, s) == Before(t, forward, r, s)
           U(s) == UpTo(t, quiet, forward, s)
           M(r) == MemWithout(t, U(r))
           D == {s \in quiet : \A r \in quiet : B(r, s) => M(r) >= limit}
           R == {r \in quiet : ~(M(r) >= limit)}
           T == {U(r) : r \in R}
           O == StrictSubsetOrdering(quiet)
<1>1. Folded(t, quiet, forward, limit) = Deleted(t, D)
  BY DEF Folded
<1>2. \A r \in quiet : M(r) \in Int
  BY DeletedMem
<1>3. /\ \A r \in quiet : ~B(r, r)
      /\ \A r, s \in quiet : r = s \/ B(r, s) \/ B(s, r)
      /\ \A r, s, u \in quiet : B(r, s) /\ B(s, u) => B(r, u)
  <2>1. ListOK(t)
    BY DEF Good, Sound
  <2> QED  BY <2>1, BeforeOrder
<1>4. \A r, s \in quiet : r \in U(s) <=> r = s \/ B(r, s)
  BY DEF UpTo
<1>5. \A s \in quiet : U(s) \subseteq quiet
  BY DEF UpTo
<1>6. IsFiniteSet(quiet)
  BY FS_Subset DEF Good, TreeType
<1> HIDE DEF B, U, M
<1>7. CASE R = {}
  <2>1. D = quiet
    BY <1>7
  <2> QED  BY <1>1, <2>1 DEF FoldMakesRoom
<1>8. CASE R # {}
  <2>1. IsWellFoundedOn(O, FiniteSubsetsOf(quiet))
    BY FS_StrictSubsetOrderingWellFounded
  <2>2. T \subseteq FiniteSubsetsOf(quiet) /\ T # {}
    <3>1. \A r \in R : U(r) \in SUBSET quiet /\ IsFiniteSet(U(r))
      BY <1>5, <1>6, FS_Subset
    <3> QED  BY <1>8, <3>1 DEF FiniteSubsetsOf
  <2>3. PICK x \in T : \A y \in T : ~(<<y, x>> \in O)
    BY <2>1, <2>2, WFMin
  <2>4. PICK q \in R : x = U(q)
    BY <2>3
  <2>5. \A r \in R : ~B(r, q)
    <3> SUFFICES ASSUME NEW r \in R, B(r, q)
                 PROVE  FALSE
      OBVIOUS
    <3>1. U(r) \subseteq U(q) /\ q \notin U(r) /\ q \in U(q)
      BY <1>3, <1>4, <1>5
    <3>2. <<U(r), U(q)>> \in O
      BY <1>5, <3>1 DEF StrictSubsetOrdering
    <3> QED  BY <2>3, <2>4, <3>2
  <2>6. D = U(q)
    <3>1. ASSUME NEW s \in D
          PROVE  s \in U(q)
      BY <1>3, <1>4
    <3>2. ASSUME NEW s \in U(q)
          PROVE  s \in D
      <4>1. s \in quiet /\ (s = q \/ B(s, q))
        BY <1>4, <1>5
      <4>2. ASSUME NEW r \in quiet, B(r, s)
            PROVE  M(r) >= limit
        BY <1>3, <2>5, <4>1, <4>2
      <4> QED  BY <4>1, <4>2
    <3> QED  BY <3>1, <3>2
  <2>7. MemWithout(t, D) < limit
    BY <1>2, <2>6 DEF M
  <2>8. D \in SUBSET quiet
    OBVIOUS
  <2> QED  BY <1>1, <2>7, <2>8 DEF FoldMakesRoom
<1> QED  BY <1>7, <1>8

\* What a pass of fold keeps.
LEMMA FoldedKeeps ==
    ASSUME NEW t, NEW lost \in Nat, Good(t, lost), Honoured(t), NEW quiet \in QuietSets(t),
           NEW forward \in BOOLEAN, NEW limit \in Int
    PROVE  /\ Good(Folded(t, quiet, forward, limit), lost)
           /\ Honoured(Folded(t, quiet, forward, limit))
           /\ Folded(t, quiet, forward, limit).mem <= t.mem
<1>1. quiet \in SUBSET t.tables /\ <<>> \notin quiet
  BY DEF QuietSets
<1>2. t.tables \subseteq Seq(Bytes)
  BY DEF Good, TreeType, Trees
<1>3a. FoldMakesRoom(t, quiet, forward, limit)
  BY <1>1, FoldedIs
<1>3. PICK D \in SUBSET quiet : /\ Folded(t, quiet, forward, limit) = Deleted(t, D)
                                /\ MemWithout(t, D) < limit \/ D = quiet
  BY <1>3a, Zenon DEF FoldMakesRoom
<1>4. D \in SUBSET (Seq(Bytes) \ {<<>>})
  BY <1>1, <1>2
<1> DEFINE d == Deleted(t, D)
<1>5. /\ Good(d, lost) /\ d.mem <= t.mem /\ d.tables \subseteq t.tables
      /\ DOMAIN d.counters \subseteq DOMAIN t.counters
      /\ \A c \in DOMAIN d.counters : d.counters[c] = t.counters[c]
  BY <1>4, DeletedGood
<1> HIDE DEF d
<1>6. Honoured(d)
  BY <1>5 DEF Honoured
<1> QED  BY <1>3, <1>5, <1>6 DEF d

LEMMA BecomesIs ==
    ASSUME NEW t, NEW lost, Good(t, lost), Becomes(t)
    PROVE  This' = t
<1>1. t = [counters |-> t.counters, tables |-> t.tables, older |-> t.older, mem |-> t.mem]
  BY DEF Good, TreeType, Trees
<1>2. This' = [counters |-> counters', tables |-> tables', older |-> older', mem |-> alloced_mem']
  BY DEF This, Tree
<1> QED  BY <1>1, <1>2 DEF Becomes

LEMMA MemIsInt ==
    ASSUME NEW t, NEW lost, Good(t, lost)
    PROVE  t.mem \in Int
BY DEF Good, TreeType, Trees

LEMMA FoldLimitType ==
    ASSUME NEW t, NEW lost, Good(t, lost), memmax \in MemMaxes
    PROVE  FoldLimit(t) \in Int
<1>1. t.mem \in Int /\ memmax \in Int
  BY MemIsInt, RateMonAssumption
<1>2. (t.mem * 9) \div 10 \in Int
  BY <1>1
<1> QED  BY <1>1, <1>2 DEF FoldLimit

\* The tree with a packet's counter and, if its counter is over the threshold, a table for it.
Grown(addr, hot) ==
    LET c == Deepest(addr)
        t == WithCounter(This, c)
    IN  IF hot /\ ZoomsIn(t, c) THEN ZoomedIn(t, c, addr) ELSE t

\* A packet that has its counter, or room for it, adds to the tree and takes nothing from it.
LEMMA GrownIs ==
    ASSUME IInv, NEW addr \in Addr, NEW hot \in BOOLEAN, Packet(addr, hot)
    PROVE  /\ Good(Grown(addr, hot), unaccounted) /\ Honoured(Grown(addr, hot))
           /\ memmax # 0 => Grown(addr, hot).mem <= memmax
           /\ Deepest(addr) \in Names /\ Deepest(addr) \notin tables
           /\ Grown(addr, hot).tables \subseteq tables \cup {Deepest(addr)}
           /\ DOMAIN counters \subseteq DOMAIN Grown(addr, hot).counters
           /\ \A e \in DOMAIN counters : Grown(addr, hot).counters[e] = counters[e]
<1> DEFINE c == Deepest(addr)
           t == WithCounter(This, c)
           d == Prefix(addr, Len(c) + 1)
           s == Opened(t, c)
           u == IF hot /\ ZoomsIn(t, c) THEN ZoomedIn(t, c, addr) ELSE t
           lost == unaccounted
<1>1. /\ Good(This, lost) /\ Honoured(This) /\ lost \in Nat /\ memmax \in MemMaxes
      /\ now \in Nat \ {0} /\ MemBounded /\ folding = 0 /\ folding \in Nat
  BY DEF IInv, Packet
<1>2. c \in Names /\ c \notin tables /\ Front(c) \in tables
  BY <1>1, DeepestIs
<1>3. /\ Good(t, lost) /\ t.tables = tables
      /\ t.mem = alloced_mem + (IF c \in DOMAIN counters THEN 0 ELSE CounterSize)
      /\ DOMAIN t.counters = DOMAIN counters \cup {c}
      /\ \A e \in DOMAIN counters : t.counters[e] = counters[e]
      /\ c \notin DOMAIN counters => t.counters[c] = 0
  <2>1. Front(c) \in This.tables
    BY <1>2, ThisIs
  <2> HIDE DEF c
  <2> QED  BY <1>1, <1>2, <2>1, WithCounterGood, ThisIs DEF c
<1>4. CounterSize \in Nat /\ StatsSize \in Nat /\ memmax \in Nat /\ alloced_mem \in Int
  BY <1>1, ThisIs, MemIsInt, RateMonAssumption
<1>5. c \in DOMAIN counters \/ Room(This, CounterSize)
  BY DEF Packet
<1>6. memmax # 0 => t.mem <= memmax
  BY <1>1, <1>3, <1>4, <1>5, ThisIs DEF MemBounded, Room
<1>7. Honoured(t)
  BY <1>1, <1>2, <1>3, ThisIs DEF Honoured
<1>8. /\ Good(u, lost) /\ Honoured(u)
      /\ memmax # 0 => u.mem <= memmax
      /\ u.tables \subseteq tables \cup {c} /\ DOMAIN counters \subseteq DOMAIN u.counters
      /\ \A e \in DOMAIN counters : u.counters[e] = counters[e]
  <2>1. CASE ~(hot /\ ZoomsIn(t, c))
    BY <1>3, <1>6, <1>7, <2>1
  <2>2. CASE hot /\ ZoomsIn(t, c)
    <3>1. t.counters[c] < now /\ Len(c) < Depth /\ Room(t, CounterSize + StatsSize)
      BY <2>2 DEF ZoomsIn
    <3>2. c \in DOMAIN t.counters /\ c \notin t.tables
      BY <1>2, <1>3
    <3>3. /\ Good(s, lost) /\ s.counters = t.counters
          /\ s.tables = t.tables \cup {c} /\ s.mem = t.mem + StatsSize
      <4> HIDE DEF t, c
      <4> QED  BY <1>1, <1>3, <3>1, <3>2, OpenedGood
    <3>4. Honoured(s)
      <4>1. t.counters \in [DOMAIN t.counters -> Int]
        BY <1>3 DEF Good, TreeType, Trees
      <4> HIDE DEF t, c, s
      <4>2. ASSUME NEW e \in DOMAIN s.counters, s.counters[e] >= now
            PROVE  e \notin s.tables
        <5>1. e \in DOMAIN t.counters /\ t.counters[e] >= now /\ t.counters[e] \in Int
          BY <3>3, <4>1, <4>2
        <5>2. e \notin t.tables
          BY <1>7, <5>1 DEF Honoured
        <5>3. e # c
          BY <1>1, <3>1, <5>1
        <5> QED  BY <3>3, <5>2, <5>3
      <4> QED  BY <4>2 DEF Honoured
    <3>5. d \in Names /\ Front(d) = c /\ d # c
      <4>1. PICK n \in 1 .. Depth : c = Prefix(addr, n)
        BY <1>1, DeepestIs
      <4>2. Depth \in Nat /\ n \in 0 .. Depth
        BY RateMonAssumption
      <4>3. Len(c) <= n /\ Len(c) >= n
        BY <4>1, <4>2, PrefixIs
      <4>4. Len(c) + 1 = n + 1 /\ n + 1 \in 1 .. Depth /\ n + 1 \in 0 .. Depth /\ n + 1 - 1 = n
        BY <1>2, <3>1, <4>2, <4>3 DEF Names
      <4>5. d = Prefix(addr, n + 1)
        BY <4>4
      <4>6. d \in Seq(Bytes) /\ Len(d) <= n + 1 /\ Len(d) >= n + 1
        BY <4>4, <4>5, PrefixIs
      <4>7. Front(d) = c
        BY <4>1, <4>4, <4>5, FrontOfPrefix
      <4> HIDE DEF c, d
      <4> QED  BY <4>2, <4>3, <4>4, <4>6, <4>7 DEF Names
    <3>6. u = WithCounter(s, d)
      BY <2>2 DEF ZoomedIn
    <3>7. Front(d) \in s.tables
      BY <3>3, <3>5
    <3> HIDE DEF s, d, u
    <3>8. /\ Good(u, lost) /\ u.tables = s.tables
          /\ u.mem = s.mem + (IF d \in DOMAIN s.counters THEN 0 ELSE CounterSize)
          /\ DOMAIN u.counters = DOMAIN s.counters \cup {d}
          /\ \A e \in DOMAIN s.counters : u.counters[e] = s.counters[e]
          /\ d \notin DOMAIN s.counters => u.counters[d] = 0
      BY <1>1, <3>3, <3>5, <3>6, <3>7, WithCounterGood
    <3>9. Honoured(u)
      BY <1>1, <3>4, <3>8 DEF Honoured
    <3>10. t.mem \in Int
      BY <1>3, MemIsInt
    <3>11. memmax # 0 => u.mem <= memmax
      BY <1>4, <3>1, <3>3, <3>8, <3>10 DEF Room
    <3>12. /\ u.tables \subseteq tables \cup {c} /\ DOMAIN counters \subseteq DOMAIN u.counters
           /\ \A e \in DOMAIN counters : u.counters[e] = counters[e]
      BY <1>3, <3>3, <3>8
    <3> QED  BY <3>8, <3>9, <3>11, <3>12
  <2> QED  BY <2>1, <2>2
<1>9. u = Grown(addr, hot)
  BY DEF Grown
<1> HIDE DEF u, c
<1> QED  BY <1>2, <1>8, <1>9 DEF c

LEMMA PacketKeeps ==
    ASSUME IInv, NEW addr \in Addr, NEW hot \in BOOLEAN, Packet(addr, hot)
    PROVE  IInv'
<1> DEFINE u == Grown(addr, hot)
           lost == unaccounted
<1>1. /\ lost \in Nat /\ memmax \in MemMaxes
      /\ now \in Nat \ {0} /\ folding = 0 /\ folding \in Nat
  BY DEF IInv, Packet
<1>4. memmax \in Nat
  BY <1>1, RateMonAssumption
<1>8. /\ Good(u, lost) /\ Honoured(u)
      /\ memmax # 0 => u.mem <= memmax
  BY GrownIs
<1>9. IF ~fold_due THEN Becomes(u)
      ELSE \E quiet \in QuietSets(u), forward \in BOOLEAN :
              Becomes(Folded(u, quiet, forward, FoldLimit(u)))
  BY DEF Packet, Grown
<1> HIDE DEF u
<1>10. PICK v : Becomes(v) /\ Good(v, lost) /\ Honoured(v) /\ v.mem <= u.mem
  <2>1. CASE ~fold_due
    BY <1>8, <1>9, <2>1, MemIsInt
  <2>2. CASE fold_due
    <3>1. PICK quiet \in QuietSets(u), forward \in BOOLEAN :
             Becomes(Folded(u, quiet, forward, FoldLimit(u)))
      BY <1>9, <2>2
    <3>2. FoldLimit(u) \in Int
      BY <1>1, <1>8, FoldLimitType
    <3> QED  BY <1>1, <1>8, <3>1, <3>2, FoldedKeeps
  <2> QED  BY <2>1, <2>2
<1>11. This' = v
  BY <1>10, BecomesIs
<1>12. UNCHANGED <<memmax, now, folding, unaccounted>>
  BY DEF Packet
<1>13. memmax # 0 => alloced_mem' <= memmax
  <2>1. alloced_mem' = v.mem
    BY <1>10 DEF Becomes
  <2>2. u.mem \in Int /\ v.mem \in Int
    BY <1>8, <1>10, MemIsInt
  <2> QED  BY <1>4, <1>8, <1>10, <2>1, <2>2
<1>14. Good(This', unaccounted') /\ Honoured(This)'
  BY <1>10, <1>11, <1>12 DEF Honoured
<1> QED  BY <1>1, <1>12, <1>13, <1>14 DEF IInv, MemBounded

\* A rule for a level that is open deletes what is below it.
LEMMA SetAnnoLevelKeeps ==
    ASSUME IInv, NEW addr \in Addr, NEW level \in 0 .. Depth - 1, NEW when \in Whens,
           SetAnnoLevel(addr, level, when)
    PROVE  IInv'
<1> DEFINE c == Prefix(addr, level + 1)
           t == Deleted(This, {c})
           v == Tree([t.counters EXCEPT ![c] = now + when], t.tables, t.older, t.mem)
           lost == unaccounted
<1>1. /\ Good(This, lost) /\ Honoured(This) /\ lost \in Nat /\ memmax \in MemMaxes
      /\ now \in Nat \ {0} /\ MemBounded /\ folding = 0
      /\ c \in DOMAIN counters /\ Becomes(v)
      /\ UNCHANGED <<memmax, now, folding, unaccounted>>
  BY DEF IInv, SetAnnoLevel
<1>2. c \in Seq(Bytes) \ {<<>>}
  <2>1. c \in Names
    BY <1>1, ThisIs DEF Good, TreeType
  <2> QED  BY <2>1 DEF Names
<1>3. /\ Good(t, lost) /\ t.mem <= alloced_mem /\ t.tables \subseteq tables
      /\ DOMAIN t.counters \subseteq DOMAIN counters
      /\ \A e \in DOMAIN t.counters : t.counters[e] = counters[e]
      /\ c \notin t.tables
  <2>1. {c} \in SUBSET (Seq(Bytes) \ {<<>>})
    BY <1>2
  <2>2. /\ Good(t, lost) /\ t.mem <= This.mem /\ t.tables \subseteq This.tables
        /\ DOMAIN t.counters \subseteq DOMAIN This.counters
        /\ \A e \in DOMAIN t.counters : t.counters[e] = This.counters[e]
        /\ \A s \in {c} : s \notin t.tables
    <3> HIDE DEF c
    <3> QED  BY <1>1, <2>1, DeletedGood
  <2> QED  BY <2>2, ThisIs
<1>4. now + when \in Int
  BY <1>1, RateMonAssumption
<1> HIDE DEF c, t
<1>5. /\ v = [counters |-> v.counters, tables |-> v.tables, older |-> v.older, mem |-> v.mem]
      /\ v.counters = [t.counters EXCEPT ![c] = now + when] /\ v.tables = t.tables
      /\ v.older = t.older /\ v.mem = t.mem
  BY DEF Tree
<1> HIDE DEF v
<1>6. Good(v, lost)
  <2>1. /\ t.counters \in [DOMAIN t.counters -> Int] /\ t.tables \in SUBSET Seq(Bytes)
        /\ t.older \in SUBSET (Seq(Bytes) \X Seq(Bytes)) /\ t.mem \in Int
    BY <1>3 DEF Good, TreeType, Trees
  <2>2. DOMAIN v.counters = DOMAIN t.counters /\ v.counters \in [DOMAIN t.counters -> Int]
    BY <1>4, <1>5, <2>1
  <2>3. v \in Trees(DOMAIN v.counters)
    BY <1>5, <2>1, <2>2 DEF Trees
  <2>4. TreeType(v)
    BY <1>3, <1>5, <2>2, <2>3 DEF Good, TreeType
  <2>5. ListOK(v)
    BY <1>3, <1>5, <2>2 DEF Good, Sound, ListOK
  <2>6. Accounted(v, lost) /\ \A e \in DOMAIN v.counters : Front(e) \in v.tables
    BY <1>3, <1>5, <2>2 DEF Good, Sound, Accounted
  <2> QED  BY <2>4, <2>5, <2>6 DEF Good, Sound
<1>7. Honoured(v)
  BY <1>1, <1>3, <1>5, ThisIs DEF Honoured
<1>8. This' = v
  BY <1>1, <1>6, BecomesIs
<1>9. memmax # 0 => alloced_mem' <= memmax
  <2>1. alloced_mem' = t.mem
    BY <1>1, <1>5 DEF Becomes
  <2>2. t.mem \in Int /\ alloced_mem \in Int /\ memmax \in Int
    BY <1>1, <1>3, ThisIs, MemIsInt, RateMonAssumption
  <2>3. memmax # 0 => alloced_mem <= memmax
    BY <1>1 DEF MemBounded
  <2> QED  BY <1>3, <2>1, <2>2, <2>3
<1>10. Good(This', unaccounted') /\ Honoured(This)'
  BY <1>1, <1>6, <1>7, <1>8 DEF Honoured
<1> QED  BY <1>1, <1>9, <1>10 DEF IInv, MemBounded

\* A reset keeps the base table alone, and on the books the counters it had.
LEMMA ResetKeeps ==
    ASSUME IInv, Reset
    PROVE  IInv'
<1> DEFINE top == {c \in DOMAIN counters : Len(c) = 1}
           v == Tree([c \in {} |-> 0], {<<>>}, {}, StatsSize + Cardinality(top) * CounterSize
                                                   + unaccounted * CounterSize)
<1>1. /\ Good(This, unaccounted) /\ unaccounted \in Nat /\ memmax \in MemMaxes
      /\ now \in Nat \ {0} /\ MemBounded /\ folding = 0
      /\ Becomes(v) /\ unaccounted' = unaccounted + Cardinality(top)
      /\ UNCHANGED <<memmax, now, folding>>
  BY DEF IInv, Reset
<1>2. /\ IsFiniteSet(DOMAIN counters) /\ IsFiniteSet(tables) /\ <<>> \in tables
      /\ alloced_mem = StatsSize * Cardinality(tables)
                       + CounterSize * (Cardinality(DOMAIN counters) + unaccounted)
  BY <1>1, ThisIs DEF Good, TreeType, Sound, ListOK, Accounted
<1>3. /\ Cardinality(top) \in Nat /\ Cardinality(DOMAIN counters) \in Nat
      /\ Cardinality(top) <= Cardinality(DOMAIN counters)
  BY <1>2, CardinalityMinus
<1>4. Cardinality(tables) \in Nat /\ 1 <= Cardinality(tables)
  <2>1. Cardinality(tables) \in Nat /\ Cardinality({<<>>}) <= Cardinality(tables)
    BY <1>2, CardinalityMinus
  <2> QED  BY <2>1, FS_Singleton
<1>5. StatsSize \in Nat /\ CounterSize \in Nat /\ memmax \in Nat /\ 1 <= Depth /\ Depth \in Nat
  BY <1>1, RateMonAssumption
<1>6. /\ v = [counters |-> v.counters, tables |-> v.tables, older |-> v.older, mem |-> v.mem]
      /\ v.counters = [c \in {} |-> 0] /\ v.tables = {<<>>} /\ v.older = {}
      /\ v.mem = StatsSize + Cardinality(top) * CounterSize + unaccounted * CounterSize
  BY DEF Tree
<1> HIDE DEF v, top
<1> DEFINE n == Cardinality(top)
<1>7. /\ n * CounterSize \in Nat /\ unaccounted * CounterSize \in Nat
      /\ v.mem = StatsSize * 1 + CounterSize * (0 + (unaccounted + n))
  <2>1. ASSUME NEW ss \in Nat, NEW cs \in Nat, NEW a \in Nat, NEW b \in Nat
        PROVE  /\ a * cs \in Nat /\ b * cs \in Nat
               /\ ss + a * cs + b * cs = ss * 1 + cs * (0 + (b + a))
    BY SMT
  <2> HIDE DEF n
  <2>2. n \in Nat
    BY <1>3 DEF n
  <2>3. v.mem = StatsSize + n * CounterSize + unaccounted * CounterSize
    BY <1>6 DEF n
  <2> QED  BY <1>1, <1>5, <2>1, <2>2, <2>3
<1>8. DOMAIN v.counters = {}
  BY <1>6
<1>9. Good(v, unaccounted')
  <2>1. v.counters \in [DOMAIN v.counters -> Int]
    BY <1>6, <1>8
  <2>2. v.mem \in Int
    BY <1>5, <1>6, <1>7
  <2>3. <<>> \in Seq(Bytes) /\ Len(<<>>) = 0
    BY EmptySeq
  <2>4. v \in Trees(DOMAIN v.counters)
    BY <1>6, <2>1, <2>2, <2>3 DEF Trees
  <2>5. /\ IsFiniteSet(v.tables) /\ Cardinality(v.tables) = 1
        /\ IsFiniteSet(DOMAIN v.counters) /\ Cardinality(DOMAIN v.counters) = 0
    <3>1. IsFiniteSet({<<>>}) /\ Cardinality({<<>>}) = 1 /\ IsFiniteSet({}) /\ Cardinality({}) = 0
      BY FS_EmptySet, FS_Singleton, Zenon
    <3> QED  BY <1>6, <1>8, <3>1, Zenon
  <2>6. TreeType(v)
    BY <1>5, <1>6, <1>8, <2>3, <2>4, <2>5 DEF TreeType
  <2>7. ListOK(v)
    BY <1>6 DEF ListOK
  <2>8. Accounted(v, unaccounted')
    BY <1>1, <1>7, <2>5 DEF Accounted
  <2> QED  BY <1>8, <2>6, <2>7, <2>8 DEF Good, Sound
<1>10. This' = v
  BY <1>1, <1>9, BecomesIs
<1>11. Honoured(v)
  BY <1>8 DEF Honoured
<1>12. v.mem <= alloced_mem
  <2>1. ASSUME NEW ss \in Nat, NEW cs \in Nat, NEW a \in Nat, NEW b \in Nat,
               NEW T \in Nat, NEW C \in Nat, 1 <= T, a <= C
        PROVE  ss * 1 + cs * (0 + (b + a)) <= ss * T + cs * (C + b)
    <3>1. ss * 1 <= ss * T /\ cs * (b + a) <= cs * (C + b)
      BY <2>1, Monotone
    <3> QED  BY <3>1
  <2> HIDE DEF n
  <2>2. n \in Nat /\ n <= Cardinality(DOMAIN counters)
    BY <1>3 DEF n
  <2>3. StatsSize * 1 + CounterSize * (0 + (unaccounted + n))
          <= StatsSize * Cardinality(tables)
             + CounterSize * (Cardinality(DOMAIN counters) + unaccounted)
    BY <1>1, <1>3, <1>4, <1>5, <2>1, <2>2
  <2>4. v.mem = StatsSize * 1 + CounterSize * (0 + (unaccounted + n))
    BY <1>7 DEF n
  <2> QED  BY <1>2, <2>3, <2>4, Zenon
<1>13. alloced_mem' = v.mem /\ v.mem \in Int /\ alloced_mem \in Int
  BY <1>1, <1>9, ThisIs, MemIsInt DEF Becomes
<1>14. memmax # 0 => alloced_mem' <= memmax
  BY <1>1, <1>5, <1>12, <1>13 DEF MemBounded
<1>15. Good(This', unaccounted') /\ Honoured(This)'
  BY <1>1, <1>9, <1>10, <1>11 DEF Honoured
<1>16. unaccounted' \in Nat
  BY <1>1, <1>3
<1> QED  BY <1>1, <1>14, <1>15, <1>16 DEF IInv, MemBounded

\* A pass of forced_fold.
LEMMA ForcedFoldKeeps ==
    ASSUME IInv, ForcedFold
    PROVE  IInv'
<1>1. /\ Good(This, unaccounted) /\ Honoured(This) /\ unaccounted \in Nat /\ memmax \in MemMaxes
      /\ now \in Nat \ {0} /\ folding \in Nat /\ folding # 0 /\ memmax # 0
      /\ UNCHANGED <<memmax, now, unaccounted>>
  BY DEF IInv, ForcedFold
<1>2. PICK quiet \in QuietSets(This), forward \in BOOLEAN :
         LET t == Folded(This, quiet, forward, memmax)
         IN  /\ Becomes(t)
             /\ folding' = IF t.mem <= memmax THEN 0
                           ELSE IF folding < Passes THEN folding + 1 ELSE folding
  BY DEF ForcedFold
<1> DEFINE t == Folded(This, quiet, forward, memmax)
<1>3. memmax \in Int
  BY <1>1, RateMonAssumption
<1>4. Good(t, unaccounted) /\ Honoured(t)
  BY <1>1, <1>3, FoldedKeeps
<1>5. Becomes(t) /\ folding' = IF t.mem <= memmax THEN 0
                               ELSE IF folding < Passes THEN folding + 1 ELSE folding
  BY <1>2
<1> HIDE DEF t
<1>6. This' = t /\ alloced_mem' = t.mem
  BY <1>4, <1>5, BecomesIs DEF Becomes
<1>7. Good(This', unaccounted') /\ Honoured(This)'
  BY <1>1, <1>4, <1>6 DEF Honoured
<1>8. folding' \in Nat /\ (folding' = 0 => alloced_mem' <= memmax)
  BY <1>1, <1>5, <1>6
<1> QED  BY <1>1, <1>7, <1>8 DEF IInv, MemBounded

LEMMA InitKeeps ==
    ASSUME Init
    PROVE  IInv
<1>1. /\ This = [counters |-> counters, tables |-> tables, older |-> older, mem |-> alloced_mem]
      /\ counters = [c \in {} |-> 0] /\ DOMAIN counters = {} /\ tables = {<<>>} /\ older = {}
      /\ alloced_mem = StatsSize /\ unaccounted = 0 /\ now = 1 /\ folding = 0 /\ memmax \in MemMaxes
  BY DEF Init, This, Tree
<1>2. /\ StatsSize \in Nat /\ CounterSize \in Nat /\ Depth \in Nat /\ 1 <= Depth
      /\ MEMMAX_MIN \in Nat /\ memmax \in Nat /\ (memmax = 0 \/ memmax >= MEMMAX_MIN)
      /\ MAX_COUNTERS * CounterSize \in Nat /\ MEMMAX_MIN >= StatsSize + MAX_COUNTERS * CounterSize
  <2>1. MAX_COUNTERS * CounterSize \in Nat
    BY RateMonAssumption, Monotone
  <2> QED  BY <1>1, <2>1, RateMonAssumption
<1>3. <<>> \in Seq(Bytes) /\ Len(<<>>) = 0
  BY EmptySeq
<1>4. IsFiniteSet({<<>>}) /\ Cardinality({<<>>}) = 1 /\ IsFiniteSet({}) /\ Cardinality({}) = 0
  BY FS_EmptySet, FS_Singleton, Zenon
<1>5. This \in Trees(DOMAIN This.counters)
  <2>1. counters \in [DOMAIN counters -> Int]
    BY <1>1
  <2>2. tables \in SUBSET Seq(Bytes) /\ older \in SUBSET (Seq(Bytes) \X Seq(Bytes))
    BY <1>1, <1>3
  <2>3. alloced_mem \in Int
    BY <1>1, <1>2
  <2>4. This \in Trees(DOMAIN counters)
    BY <1>1, <2>1, <2>2, <2>3 DEF Trees
  <2> QED  BY <2>4, ThisIs
<1>6. TreeType(This)
  BY <1>1, <1>2, <1>3, <1>4, <1>5, ThisIs DEF TreeType
<1>7. ListOK(This)
  BY <1>1, ThisIs DEF ListOK
<1>8. Accounted(This, unaccounted)
  <2>1. StatsSize = StatsSize * 1 + CounterSize * (0 + 0)
    BY <1>2
  <2> QED  BY <1>1, <1>4, <2>1, ThisIs DEF Accounted
<1>9. Good(This, unaccounted) /\ Honoured(This)
  BY <1>1, <1>6, <1>7, <1>8, ThisIs DEF Good, Sound, Honoured
<1> QED  BY <1>1, <1>2, <1>9 DEF IInv, MemBounded

LEMMA StepKeeps == IInv /\ [Next]_vars => IInv'
<1> SUFFICES ASSUME IInv, [Next]_vars
             PROVE  IInv'
  OBVIOUS
<1>1. CASE UNCHANGED vars
  BY <1>1 DEF IInv, vars, This, Honoured, MemBounded
<1>2. ASSUME NEW addr \in Addr, PacketNoRoom(addr)
      PROVE  IInv'
  BY <1>1, <1>2 DEF PacketNoRoom
<1>3. ASSUME NEW m \in MemMaxes, SetMemmax(m)
      PROVE  IInv'
  <2>1. /\ UNCHANGED <<counters, tables, older, alloced_mem, now, unaccounted>>
        /\ memmax' = m /\ folding' = IF m # 0 /\ alloced_mem > m THEN 1 ELSE 0
    BY <1>3 DEF SetMemmax
  <2>2. Good(This', unaccounted') /\ Honoured(This)'
    BY <2>1 DEF IInv, This, Honoured
  <2>3. alloced_mem \in Int /\ m \in Int
    BY ThisIs, MemIsInt, RateMonAssumption DEF IInv
  <2>4. MemBounded' /\ folding' \in Nat /\ (folding' # 0 => memmax' # 0)
    BY <2>1, <2>3 DEF MemBounded
  <2> QED  BY <2>1, <2>2, <2>4 DEF IInv
<1>4. CASE Tick
  <2>1. /\ UNCHANGED <<memmax, counters, tables, older, alloced_mem, folding, unaccounted>>
        /\ now' = now + 1 /\ now \in Nat \ {0}
    BY <1>4 DEF Tick, IInv
  <2>2. This' = This
    BY <2>1 DEF This
  <2>3. counters \in [DOMAIN counters -> Int]
    BY ThisIs DEF IInv, Good, TreeType, Trees
  <2>4. Honoured(This)'
    BY <2>1, <2>2, <2>3, ThisIs DEF IInv, Honoured
  <2>5. MemBounded' /\ now' \in Nat \ {0}
    BY <2>1 DEF IInv, MemBounded
  <2> QED  BY <2>1, <2>2, <2>4, <2>5 DEF IInv
<1> QED  BY <1>1, <1>2, <1>3, <1>4, PacketKeeps, SetAnnoLevelKeeps, ResetKeeps, ForcedFoldKeeps DEF Next

LEMMA Invariance == Spec => []IInv
<1>1. Init => IInv
  BY InitKeeps
<1> QED  BY <1>1, StepKeeps, PTL DEF Spec
----------------------------------------------------------------------------
\* Whatever addresses come, in any order, and whatever is folded, ruled out or
\* reset: the tree, the age list and _alloced_mem fit each other
\* (ipratemon.hh:281-315, ipratemon.cc:354-372).
THEOREM TreeSound == Spec => []TreeOK
<1>1. IInv => TreeOK
  BY DEF IInv, Good, TreeOK
<1> QED  BY <1>1, Invariance, PTL

\* The memory in use is within the limit outside of the memmax handler, for any
\* limit that memmax_write_handler admits (ipratemon.hh:36-37).
THEOREM MemoryWithinLimit == Spec => []MemBounded
<1>1. IInv => MemBounded
  BY DEF IInv
<1> QED  BY <1>1, Invariance, PTL

\* The tables above an open table are open.
LEMMA Ancestors ==
    ASSUME NEW t, NEW lost \in Nat, Good(t, lost), NEW r \in t.tables, NEW s \in Seq(Bytes),
           IsPrefix(s, r)
    PROVE  s \in t.tables
<1> DEFINE Below == {y \in t.tables : IsPrefix(s, y)}
           Lengths == {Len(y) : y \in Below}
<1>1. /\ ListOK(t) /\ \A y \in t.tables : y \in Seq(Bytes) /\ Len(y) \in Nat
  BY DEF Good, Sound, TreeType, Trees
<1>2. Lengths \in SUBSET Nat /\ Lengths # {}
  BY <1>1
<1>3. PICK n \in Lengths : \A m \in Lengths : n <= m
  <2> HIDE DEF Lengths
  <2> QED  BY <1>2, LeastNat
<1>4. PICK x \in Below : n = Len(x)
  BY <1>3
<1>5. ASSUME x # s
      PROVE  FALSE
  <2>1. x # <<>> /\ x \in t.tables /\ x \in Seq(Bytes) /\ IsStrictPrefix(s, x)
    BY <1>1, <1>4, <1>5, PrefixFacts DEF IsStrictPrefix
  <2>2. Len(x) >= 1
    BY <2>1
  <2>3. IsPrefix(s, Front(x))
    BY <2>1, <2>2, PrefixFacts
  <2>4. Front(x) \in t.tables
    <3>1. << Front(x), x >> \in t.older /\ t.older \subseteq t.tables \X t.tables
      BY <1>1, <2>1 DEF ListOK
    <3>2. << Front(x), x >> \in t.tables \X t.tables
      BY <3>1
    <3> QED  BY <3>2
  <2>5. Len(Front(x)) <= Len(x) - 1 /\ Len(Front(x)) \in Nat /\ Len(x) \in Nat
    BY <1>1, <2>1, <2>2, <2>4, FrontOf
  <2>6. Len(Front(x)) \in Lengths
    BY <2>3, <2>4
  <2>7. n <= Len(Front(x))
    BY <1>3, <2>6
  <2> QED  BY <1>4, <2>5, <2>7
<1> QED  BY <1>4, <1>5

\* The second invariant: the rules promised are in their counters.  A counter
\* goes with a table above it alone, and every table was met in the tree or
\* has nothing promised below it.
Promises(t) == \A e \in DOMAIN promised : e \in DOMAIN t.counters /\ t.counters[e] = promised[e]
Kept(t) == \A e \in Remaining(tables \ t.tables) :
              e \in DOMAIN t.counters /\ t.counters[e] = promised[e]
Open(s) == s \in tables \/ \A e \in DOMAIN promised : ~IsStrictPrefix(s, e)

LEMMA DeletedPromises ==
    ASSUME NEW t, NEW lost \in Nat, Good(t, lost), Promises(t),
           NEW S \in SUBSET (Seq(Bytes) \ {<<>>}), \A s \in S : Open(s)
    PROVE  Kept(Deleted(t, S))
<1> DEFINE d == Deleted(t, S)
<1>1. /\ DOMAIN d.counters = DOMAIN t.counters \ CountersBelow(t, S)
      /\ \A c \in DOMAIN d.counters : d.counters[c] = t.counters[c]
      /\ \A s \in S : s \notin d.tables
  <2>1. DOMAIN d.counters = DOMAIN t.counters \ CountersBelow(t, S)
    BY DeletedFields
  <2>2. /\ \A c \in DOMAIN d.counters : d.counters[c] = t.counters[c]
        /\ \A s \in S : s \notin d.tables
    BY DeletedGood
  <2> QED  BY <2>1, <2>2
<1> HIDE DEF d
<1>2. ASSUME NEW e \in Remaining(tables \ d.tables)
      PROVE  e \in DOMAIN d.counters /\ d.counters[e] = promised[e]
  <2>1. /\ e \in DOMAIN promised /\ \A s \in tables \ d.tables : ~IsStrictPrefix(s, e)
        /\ e \in DOMAIN t.counters /\ t.counters[e] = promised[e]
    BY <1>2 DEF Remaining, Promises
  <2>2. \A s \in S : ~IsStrictPrefix(s, e)
    BY <1>1, <2>1 DEF Open
  <2>3. e \notin CountersBelow(t, S)
    BY <2>2 DEF CountersBelow
  <2> QED  BY <1>1, <2>1, <2>3
<1> QED  BY <1>2 DEF Kept, d

LEMMA FoldedPromises ==
    ASSUME NEW t, NEW lost \in Nat, Good(t, lost), Promises(t), \A s \in t.tables : Open(s),
           NEW quiet \in QuietSets(t), NEW forward \in BOOLEAN, NEW limit \in Int
    PROVE  Kept(Folded(t, quiet, forward, limit))
<1>1. quiet \in SUBSET t.tables /\ <<>> \notin quiet /\ t.tables \subseteq Seq(Bytes)
  BY DEF QuietSets, Good, TreeType, Trees
<1>2. FoldMakesRoom(t, quiet, forward, limit)
  BY <1>1, FoldedIs
<1>3. PICK D \in SUBSET quiet : Folded(t, quiet, forward, limit) = Deleted(t, D)
  BY <1>2, Zenon DEF FoldMakesRoom
<1>4. D \in SUBSET (Seq(Bytes) \ {<<>>}) /\ \A s \in D : Open(s)
  BY <1>1
<1> QED  BY <1>3, <1>4, DeletedPromises

LEMMA PacketPromises ==
    ASSUME IInv, Promises(This), NEW addr \in Addr, NEW hot \in BOOLEAN, Packet(addr, hot)
    PROVE  Promises(This)'
<1> DEFINE u == Grown(addr, hot)
           c == Deepest(addr)
<1>1. /\ Good(This, unaccounted) /\ unaccounted \in Nat /\ memmax \in MemMaxes
      /\ promised' = [e \in Remaining(tables \ tables') |-> promised[e]]
  BY DEF IInv, Packet, Promise
<1>2. /\ Good(u, unaccounted) /\ c \in Names /\ c \notin tables
      /\ u.tables \subseteq tables \cup {c}
      /\ DOMAIN counters \subseteq DOMAIN u.counters
      /\ \A e \in DOMAIN counters : u.counters[e] = counters[e]
  BY GrownIs
<1>3. IF ~fold_due THEN Becomes(u)
      ELSE \E quiet \in QuietSets(u), forward \in BOOLEAN :
              Becomes(Folded(u, quiet, forward, FoldLimit(u)))
  BY DEF Packet, Grown
<1> HIDE DEF u, c
<1>4. Promises(u)
  BY <1>2, ThisIs DEF Promises
<1>5. ASSUME NEW e \in DOMAIN promised, IsStrictPrefix(c, e)
      PROVE  FALSE
  <2>1. e \in Names /\ Front(e) \in This.tables
    BY <1>1, <1>5, ThisIs DEF Promises, Good, Sound, TreeType
  <2>2. e \in Seq(Bytes) /\ Len(e) >= 1 /\ c \in Seq(Bytes)
    BY <1>2, <2>1 DEF Names
  <2>3. IsPrefix(c, Front(e))
    BY <1>5, <2>2, PrefixFacts
  <2>4. c \in This.tables
    BY <1>1, <2>1, <2>2, <2>3, Ancestors
  <2> QED  BY <1>2, <2>4, ThisIs
<1>6. \A s \in u.tables : Open(s)
  BY <1>2, <1>5 DEF Open
<1>7. PICK v : Becomes(v) /\ Kept(v)
  <2>1. CASE ~fold_due
    <3>1. Kept(u)
      BY <1>4 DEF Kept, Promises, Remaining
    <3> QED  BY <1>3, <2>1, <3>1
  <2>2. CASE fold_due
    <3>1. PICK quiet \in QuietSets(u), forward \in BOOLEAN :
             Becomes(Folded(u, quiet, forward, FoldLimit(u)))
      BY <1>3, <2>2
    <3>2. FoldLimit(u) \in Int
      BY <1>1, <1>2, FoldLimitType
    <3>3. Kept(Folded(u, quiet, forward, FoldLimit(u)))
      BY <1>1, <1>2, <1>4, <1>6, <3>2, FoldedPromises
    <3> QED  BY <3>1, <3>3
  <2> QED  BY <2>1, <2>2
<1>8. counters' = v.counters /\ tables' = v.tables /\ This'.counters = counters'
  BY <1>7 DEF Becomes, This, Tree
<1> QED  BY <1>1, <1>7, <1>8 DEF Promises, Kept

LEMMA SetAnnoLevelPromises ==
    ASSUME IInv, Promises(This), NEW addr \in Addr, NEW level \in 0 .. Depth - 1,
           NEW when \in Whens, SetAnnoLevel(addr, level, when)
    PROVE  Promises(This)'
<1> DEFINE c == Prefix(addr, level + 1)
           t == Deleted(This, {c})
           v == Tree([t.counters EXCEPT ![c] = now + when], t.tables, t.older, t.mem)
<1>1. /\ Good(This, unaccounted) /\ unaccounted \in Nat /\ c \in DOMAIN counters /\ Becomes(v)
      /\ promised' = [d \in Remaining(tables \ tables') \cup {c} |->
                        IF d = c THEN now + when ELSE promised[d]]
  BY DEF IInv, SetAnnoLevel
<1>2. c \in Names /\ c \in Seq(Bytes) \ {<<>>}
  <2>1. c \in Names
    BY <1>1, ThisIs DEF Good, TreeType
  <2> QED  BY <2>1 DEF Names
<1>3. c \in DOMAIN t.counters
  <2>1. c \notin CountersBelow(This, {c})
    BY DEF CountersBelow, IsStrictPrefix
  <2>2. DOMAIN t.counters = DOMAIN This.counters \ CountersBelow(This, {c})
    BY DeletedFields
  <2> QED  BY <1>1, <2>1, <2>2, ThisIs
<1>4. This'.counters = [t.counters EXCEPT ![c] = now + when] /\ tables' = t.tables
  BY <1>1 DEF Becomes, This, Tree
<1>5. Open(c)
  <2>1. ASSUME NEW e \in DOMAIN promised, IsStrictPrefix(c, e)
        PROVE  c \in tables
    <3>1. e \in Names /\ Front(e) \in This.tables
      BY <1>1, <2>1, ThisIs DEF Promises, Good, Sound, TreeType
    <3>2. e \in Seq(Bytes) /\ Len(e) >= 1
      BY <3>1 DEF Names
    <3> HIDE DEF c
    <3>3. IsPrefix(c, Front(e))
      BY <1>2, <2>1, <3>2, PrefixFacts
    <3>4. c \in This.tables
      BY <1>1, <1>2, <3>1, <3>3, Ancestors
    <3> QED  BY <3>4, ThisIs
  <2> QED  BY <2>1 DEF Open
<1> HIDE DEF c
<1>6. Kept(t)
  BY <1>1, <1>2, <1>5, DeletedPromises
<1>7. t.counters = [e \in DOMAIN t.counters |-> This.counters[e]]
  BY DeletedFields
<1> HIDE DEF t
<1>8. ASSUME NEW e \in DOMAIN promised'
      PROVE  e \in DOMAIN This'.counters /\ This'.counters[e] = promised'[e]
  <2>1. CASE e = c
    BY <1>1, <1>3, <1>4, <1>7, <2>1
  <2>2. CASE e # c
    <3>1. e \in Remaining(tables \ t.tables) /\ promised'[e] = promised[e]
      BY <1>1, <1>4, <1>8, <2>2
    <3>2. e \in DOMAIN t.counters /\ t.counters[e] = promised[e]
      BY <1>6, <3>1 DEF Kept
    <3> QED  BY <1>4, <1>7, <2>2, <3>1, <3>2
  <2> QED  BY <2>1, <2>2
<1> QED  BY <1>8 DEF Promises

LEMMA ForcedFoldPromises ==
    ASSUME IInv, Promises(This), ForcedFold
    PROVE  Promises(This)'
<1>1. /\ Good(This, unaccounted) /\ unaccounted \in Nat /\ memmax \in Int
      /\ promised' = [e \in Remaining(tables \ tables') |-> promised[e]]
  BY RateMonAssumption DEF IInv, ForcedFold, Promise
<1>2. PICK quiet \in QuietSets(This), forward \in BOOLEAN :
         Becomes(Folded(This, quiet, forward, memmax))
  BY DEF ForcedFold
<1>3. \A s \in This.tables : Open(s)
  BY ThisIs DEF Open
<1>4. Kept(Folded(This, quiet, forward, memmax))
  BY <1>1, <1>3, FoldedPromises
<1> DEFINE v == Folded(This, quiet, forward, memmax)
<1>5. counters' = v.counters /\ tables' = v.tables /\ This'.counters = counters'
  BY <1>2 DEF Becomes, This, Tree
<1> HIDE DEF v
<1>6. Kept(v)
  BY <1>4 DEF v
<1> QED  BY <1>1, <1>5, <1>6 DEF Promises, Kept

LEMMA PromisesKept == Spec => []Promises(This)
<1>1. Init => Promises(This)
  BY DEF Init, Promises
<1>2. IInv /\ Promises(This) /\ [Next]_vars => Promises(This)'
  <2> SUFFICES ASSUME IInv, Promises(This), [Next]_vars
               PROVE  Promises(This)'
    OBVIOUS
  <2>1. CASE UNCHANGED vars
    BY <2>1 DEF vars, Promises, This
  <2>2. ASSUME NEW addr \in Addr, PacketNoRoom(addr)
        PROVE  Promises(This)'
    BY <2>1, <2>2 DEF PacketNoRoom
  <2>3. CASE Reset
    BY <2>3 DEF Reset, Promise, Promises
  <2>4. ASSUME NEW m \in MemMaxes, SetMemmax(m)
        PROVE  Promises(This)'
    BY <2>4 DEF SetMemmax, Promises, This
  <2>5. CASE Tick
    BY <2>5 DEF Tick, Promises, This
  <2> QED  BY <2>1, <2>2, <2>3, <2>4, <2>5, PacketPromises, SetAnnoLevelPromises,
              ForcedFoldPromises DEF Next
<1> QED  BY <1>1, <1>2, Invariance, PTL DEF Spec

\* A rule of anno_level holds until its time has come: its counter has it, and
\* no table below is open, unless a table above was deleted or all was reset
\* since it was given (ipratemon.hh:53-59).
THEOREM AnnoRulesHonoured == Spec => []AnnoHonoured
<1>1. IInv /\ Promises(This) => AnnoHonoured
  <2> SUFFICES ASSUME IInv, Promises(This), NEW c \in DOMAIN promised, promised[c] >= now
               PROVE  /\ c \in DOMAIN counters /\ counters[c] = promised[c]
                      /\ \A r \in tables : ~IsPrefix(c, r)
    BY DEF AnnoHonoured
  <2>1. c \in DOMAIN counters /\ counters[c] = promised[c]
    BY ThisIs DEF Promises
  <2>2. c \notin tables
    BY <2>1, ThisIs DEF IInv, Honoured
  <2>3. Good(This, unaccounted) /\ unaccounted \in Nat /\ c \in Seq(Bytes)
    BY <2>1, ThisIs DEF IInv, Good, TreeType, Names
  <2>4. ASSUME NEW r \in tables, IsPrefix(c, r)
        PROVE  FALSE
    BY <2>2, <2>3, <2>4, ThisIs, Ancestors
  <2> QED  BY <2>1, <2>4
<1> QED  BY <1>1, PromisesKept, Invariance, PTL

\* Without open tables but the base there are at most MAX_COUNTERS counters.
LEMMA FewCounters ==
    ASSUME NEW t, Good(t, 0), t.tables = {<<>>}
    PROVE  t.mem <= MEMMAX_MIN
<1> DEFINE C == DOMAIN t.counters
           first == [c \in C |-> c[1]]
<1>1. \A c \in C : c \in Seq(Bytes) /\ Len(c) >= 1 /\ Front(c) = <<>>
  BY DEF Good, TreeType, Sound, Names
<1>2. \A c \in C : Len(c) <= 1
  <2> SUFFICES ASSUME NEW c \in C
               PROVE  Len(c) <= 1
    OBVIOUS
  <2>1. Len(Front(c)) >= Len(c) - 1
    BY <1>1, FrontOf
  <2>2. Len(Front(c)) = 0
    BY <1>1
  <2> QED  BY <1>1, <2>1, <2>2
<1>3. first \in [C -> Bytes]
  BY <1>1
<1>4. ASSUME NEW a \in C, NEW b \in C, first[a] = first[b]
      PROVE  a = b
  <2>1. \A i \in 1 .. Len(a) : a[i] = b[i]
    BY <1>1, <1>2, <1>4
  <2>2. \A m, n \in Nat : m >= 1 /\ m <= 1 /\ n >= 1 /\ n <= 1 => m = n
    OBVIOUS
  <2>3. Len(a) \in Nat /\ Len(b) \in Nat /\ a \in Seq(Bytes) /\ b \in Seq(Bytes)
    BY <1>1
  <2>4. Len(a) = Len(b)
    BY <1>1, <1>2, <2>2, <2>3, Zenon
  <2> QED  BY <2>1, <2>3, <2>4, SeqEqual
<1>5. first \in Injection(C, Bytes)
  BY <1>3, <1>4, Fun_IsInj
<1>6. IsFiniteSet(Bytes) /\ Cardinality(Bytes) = MAX_COUNTERS
  BY FS_Interval, RateMonAssumption DEF Bytes
<1>7. Cardinality(C) <= MAX_COUNTERS /\ Cardinality(C) \in Nat
  BY <1>5, <1>6, FS_Injection, FS_CardinalityType
<1>8. t.mem = StatsSize * 1 + CounterSize * (Cardinality(C) + 0)
  BY FS_Singleton DEF Good, Sound, Accounted
<1>9. CounterSize * Cardinality(C) <= CounterSize * MAX_COUNTERS
  BY <1>7, Monotone, RateMonAssumption
<1> QED  BY <1>7, <1>8, <1>9, RateMonAssumption

\* The last pass of forced_fold, whose threshold is over every rate, makes room
\* under any limit: either enough tables went, or all of them but the base, with
\* which the memory is below the least limit (ipratemon.cc:148-156).
THEOREM ForcedFoldReturns == Spec => ForcedFoldEnds
<1>1. IInv /\ [Next]_vars =>
        [folding = Passes /\ unaccounted = 0 /\ ~thresh0 => folding' = 0]_vars
  <2> SUFFICES ASSUME IInv, [Next]_vars, ~UNCHANGED vars,
                      folding = Passes, unaccounted = 0, ~thresh0
               PROVE  folding' = 0
    OBVIOUS
  <2>1. folding # 0
    BY RateMonAssumption
  <2>2. ForcedFold
    BY <2>1 DEF Next, PacketNoRoom, Packet, SetAnnoLevel, Reset, SetMemmax, Tick
  <2>3. /\ Good(This, 0) /\ memmax \in Nat /\ MEMMAX_MIN \in Nat
        /\ memmax # 0 /\ memmax >= MEMMAX_MIN
    BY <2>1, RateMonAssumption DEF IInv
  <2>4. PICK quiet \in QuietSets(This), forward \in BOOLEAN :
           /\ folding = Passes /\ ~thresh0 => quiet = tables \ {<<>>}
           /\ LET t == Folded(This, quiet, forward, memmax)
              IN  /\ Becomes(t)
                  /\ folding' = IF t.mem <= memmax THEN 0
                                ELSE IF folding < Passes THEN folding + 1 ELSE folding
    BY <2>2 DEF ForcedFold
  <2>5. quiet = tables \ {<<>>} /\ quiet \in SUBSET This.tables /\ tables \subseteq Seq(Bytes)
    BY <2>3, <2>4, ThisIs DEF Good, TreeType, Trees
  <2>6. PICK D \in SUBSET quiet : /\ Folded(This, quiet, forward, memmax) = Deleted(This, D)
                                  /\ MemWithout(This, D) < memmax \/ D = quiet
    <3>1. Good(This, 0) /\ quiet \in SUBSET This.tables /\ forward \in BOOLEAN
          /\ memmax \in Int /\ 0 \in Nat
      BY <2>3, <2>4, <2>5
    <3>2. FoldMakesRoom(This, quiet, forward, memmax)
      BY <3>1, FoldedIs
    <3> QED  BY <3>2 DEF FoldMakesRoom
  <2> DEFINE t == Deleted(This, D)
  <2>7. D \in SUBSET (Seq(Bytes) \ {<<>>})
    BY <2>5
  <2>8. Good(t, 0) /\ t.mem = MemWithout(This, D) /\ t.mem \in Int /\ <<>> \in t.tables
    <3>1. Good(t, 0)
      BY <2>3, <2>7, DeletedGood
    <3>2. t.mem = MemWithout(This, D)
      BY DeletedFields
    <3> HIDE DEF t
    <3> QED  BY <3>1, <3>2, MemIsInt DEF Good, Sound, ListOK
  <2>9. t.mem <= memmax
    <3>1. CASE D = quiet
      <4>1. t.tables \subseteq tables /\ \A s \in quiet : s \notin t.tables
        BY <2>3, <2>7, <3>1, DeletedGood, ThisIs
      <4>2. t.tables = {<<>>}
        BY <2>5, <2>8, <4>1
      <4>3. t.mem <= MEMMAX_MIN
        BY <2>8, <4>2, FewCounters
      <4> QED  BY <2>3, <2>8, <4>3
    <3>2. CASE MemWithout(This, D) < memmax
      BY <2>3, <2>8, <3>2
    <3> QED  BY <2>6, <3>1, <3>2
  <2> QED  BY <2>4, <2>6, <2>9
<1> QED  BY <1>1, Invariance, PTL DEF Spec, ForcedFoldEnds
=============================================================================
