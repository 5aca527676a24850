------------------------- MODULE IPReassembler_proofs -----------------------
(***************************************************************************)
(* What the reassembler keeps and puts out, for any datagrams, paths,      *)
(* memory and clock.  First the operators: patching chunks, walking along  *)
(* a bucket, adding up memory; then the invariant; then one lemma for each *)
(* action.                                                                 *)
(***************************************************************************)
EXTENDS IPReassembler, FiniteSetTheorems, SequenceTheorems, WellFoundedInduction, TLAPS

----------------------------------------------------------------------------
\* A set of numbers has a least one.
LEMMA LeastNat ==
    ASSUME NEW S \in SUBSET Nat, S # {}
    PROVE  \E n \in S : \A m \in S : n <= m
<1> DEFINE T == {1 .. n : n \in S}
           R == StrictSubsetOrdering(Nat)
<1>1. IsWellFoundedOn(R, FiniteSubsetsOf(Nat))
  BY FS_StrictSubsetOrderingWellFounded
<1>2. T \subseteq FiniteSubsetsOf(Nat) /\ T # {}
  <2>1. \A n \in S : 1 .. n \in SUBSET Nat
    OBVIOUS
  <2>2. \A n \in S : IsFiniteSet(1 .. n)
    BY FS_Interval
  <2> QED  BY <2>1, <2>2 DEF FiniteSubsetsOf
<1>3. PICK x \in T : \A y \in T : ~(<<y, x>> \in R)
  BY <1>1, <1>2, WFMin
<1>4. PICK n \in S : x = 1 .. n
  BY <1>3
<1>5. ASSUME NEW m \in S, ~(n <= m)
      PROVE  FALSE
  <2>1. 1 .. m \in SUBSET Nat /\ 1 .. n \in SUBSET Nat
    OBVIOUS
  <2>2. 1 .. m \subseteq 1 .. n /\ 1 .. m # 1 .. n
    BY <1>5
  <2>3. <<1 .. m, 1 .. n>> \in R
    BY <2>1, <2>2 DEF StrictSubsetOrdering
  <2> QED  BY <1>3, <1>4, <2>3
<1>6. \A m \in S : n <= m
  BY <1>5
<1> QED  BY <1>4, <1>6, Zenon

----------------------------------------------------------------------------
\* Chunks, some of which may be empty at the end while a packet grows.
ChunkSet == [off : Nat, lastoff : Nat]
Apart(s) == \A i, j \in 1 .. Len(s) : i < j => s[i].lastoff < s[j].off
Filled(s) == \A i \in 1 .. Len(s) : s[i].off < s[i].lastoff
Covers(s, k) == \E i \in 1 .. Len(s) : s[i].off < k /\ k <= s[i].lastoff

\* The part of a sequence from c to l is replaced.
IsSplice(t, S, s, mid, c, l) ==
    LET n == c - 1 + Len(mid)
    IN  /\ t \in Seq(S) /\ Len(t) = n + (Len(s) - l)
        /\ \A i \in 1 .. c - 1 : t[i] = s[i]
        /\ \A i \in 1 .. Len(mid) : t[c - 1 + i] = mid[i]
        /\ \A i \in 1 .. Len(s) - l : t[n + i] = s[l + i]

LEMMA Splice ==
    ASSUME NEW S, NEW s \in Seq(S), NEW mid \in Seq(S),
           NEW c \in 1 .. Len(s), NEW l \in c .. Len(s)
    PROVE  IsSplice(SubSeq(s, 1, c - 1) \o mid \o SubSeq(s, l + 1, Len(s)), S, s, mid, c, l)
<1> DEFINE a == SubSeq(s, 1, c - 1)
           z == SubSeq(s, l + 1, Len(s))
<1>1. Len(s) \in Nat /\ Len(mid) \in Nat /\ c \in Nat /\ l \in Nat /\ 1 <= c /\ c <= l /\ l <= Len(s)
  OBVIOUS
<1>2. a \in Seq(S) /\ Len(a) = c - 1 /\ \A i \in 1 .. c - 1 : a[i] = s[i]
  <2>1. \A i \in 1 .. c - 1 : s[i] \in S
    BY <1>1, ElementOfSeq
  <2>2. /\ a \in Seq(S) /\ Len(a) = IF 1 <= c - 1 THEN (c - 1) - 1 + 1 ELSE 0
        /\ \A i \in 1 .. (c - 1) - 1 + 1 : a[i] = s[1 + i - 1]
    BY <1>1, <2>1, SubSeqProperties
  <2> QED  BY <1>1, <2>2
<1>3. z \in Seq(S) /\ Len(z) = Len(s) - l /\ \A i \in 1 .. Len(s) - l : z[i] = s[l + i]
  <2>1. \A i \in l + 1 .. Len(s) : s[i] \in S
    BY <1>1, ElementOfSeq
  <2>2. /\ z \in Seq(S) /\ Len(z) = IF l + 1 <= Len(s) THEN Len(s) - (l + 1) + 1 ELSE 0
        /\ \A i \in 1 .. Len(s) - (l + 1) + 1 : z[i] = s[(l + 1) + i - 1]
    BY <1>1, <2>1, SubSeqProperties
  <2> QED  BY <1>1, <2>2
<1> HIDE DEF a, z
<1>4. /\ a \o mid \in Seq(S) /\ Len(a \o mid) = c - 1 + Len(mid)
      /\ \A i \in 1 .. Len(a) + Len(mid) : (a \o mid)[i] = IF i <= Len(a) THEN a[i] ELSE mid[i - Len(a)]
  BY <1>1, <1>2, ConcatProperties
<1> DEFINE b == a \o mid
<1> HIDE DEF b
<1>0. b \in Seq(S)
  BY <1>4 DEF b
<1>5. /\ b \o z \in Seq(S) /\ Len(b \o z) = Len(b) + Len(z)
      /\ \A i \in 1 .. Len(b) + Len(z) : (b \o z)[i] = IF i <= Len(b) THEN b[i] ELSE z[i - Len(b)]
  BY <1>0, <1>3, ConcatProperties
<1> DEFINE t == b \o z
<1> HIDE DEF t
<1>6. t \in Seq(S) /\ Len(t) = c - 1 + Len(mid) + (Len(s) - l)
  BY <1>1, <1>3, <1>4, <1>5 DEF b, t
<1>7. ASSUME NEW i \in 1 .. c - 1
      PROVE  t[i] = s[i]
  BY <1>1, <1>2, <1>3, <1>4, <1>5 DEF b, t
<1>8. ASSUME NEW i \in 1 .. Len(mid)
      PROVE  t[c - 1 + i] = mid[i]
  <2>1. c - 1 + i \in 1 .. Len(b) + Len(z) /\ c - 1 + i <= Len(b) /\ c - 1 + i > Len(a)
        /\ c - 1 + i \in 1 .. Len(a) + Len(mid) /\ (c - 1 + i) - Len(a) = i
    BY <1>1, <1>2, <1>3, <1>4 DEF b
  <2> QED  BY <2>1, <1>2, <1>4, <1>5, <1>1 DEF b, t
<1>9. ASSUME NEW i \in 1 .. Len(s) - l
      PROVE  t[c - 1 + Len(mid) + i] = s[l + i]
  <2>1. /\ c - 1 + Len(mid) + i \in 1 .. Len(b) + Len(z)
        /\ ~(c - 1 + Len(mid) + i <= Len(b)) /\ (c - 1 + Len(mid) + i) - Len(b) = i
    BY <1>1, <1>3, <1>4 DEF b
  <2> QED  BY <2>1, <1>3, <1>5, <1>1 DEF t
<1>10. IsSplice(t, S, s, mid, c, l)
  BY <1>6, <1>7, <1>8, <1>9 DEF IsSplice
<1>11. t = SubSeq(s, 1, c - 1) \o mid \o SubSeq(s, l + 1, Len(s))
  BY DEF a, b, t, z
<1> QED  BY <1>10, <1>11

\* Where a loop over the chunks stops.
LEMMA FirstChunk ==
    ASSUME NEW s \in Seq(ChunkSet), NEW n \in 1 .. Len(s), NEW x \in Nat,
           s[Len(s)].lastoff >= x
    PROVE  LET f == CHOOSE i \in n .. Len(s) : /\ s[i].lastoff >= x
                                               /\ \A j \in n .. i - 1 : s[j].lastoff < x
           IN  /\ f \in n .. Len(s) /\ s[f].lastoff >= x
               /\ \A j \in n .. f - 1 : s[j].lastoff < x
<1> DEFINE T == {i \in n .. Len(s) : s[i].lastoff >= x}
<1>1. Len(s) \in Nat /\ Len(s) \in T /\ T \in SUBSET Nat
  OBVIOUS
<1>2. PICK f \in T : \A m \in T : f <= m
  BY <1>1, LeastNat
<1>3. ASSUME NEW j \in n .. f - 1
      PROVE  s[j].lastoff < x
  <2>1. j \in n .. Len(s) /\ j < f /\ j \notin T
    BY <1>1, <1>2
  <2>2. s[j] \in ChunkSet
    BY <2>1, <1>1, ElementOfSeq
  <2> QED  BY <2>1, <2>2 DEF ChunkSet
<1>4. \E i \in n .. Len(s) : s[i].lastoff >= x /\ \A j \in n .. i - 1 : s[j].lastoff < x
  BY <1>2, <1>3
<1> QED  BY <1>4

\* simple_action's patching, on chunks apart whose last may have been added empty
\* behind the data: they stay apart, and cover what they did and what came.
LEMMA PatchKeeps ==
    ASSUME NEW s \in Seq(ChunkSet), Len(s) >= 1, Apart(s),
           NEW lo \in Nat, NEW hi \in Nat, lo < hi, s[Len(s)].lastoff >= hi,
           \A i \in 1 .. Len(s) : \/ s[i].off < s[i].lastoff
                                  \/ i = Len(s) /\ s[i].off = hi /\ s[i].lastoff = hi
    PROVE  LET r == Patched(s, lo, hi)
           IN  /\ r \in Seq(ChunkSet) /\ Len(r) >= 1 /\ Apart(r) /\ Filled(r)
               /\ r[Len(r)].lastoff = s[Len(s)].lastoff
               /\ \A k \in Nat : Covers(r, k) <=> Covers(s, k) \/ (lo < k /\ k <= hi)
<1> DEFINE N == Len(s)
           c == CHOOSE i \in DOMAIN s : /\ s[i].lastoff >= lo
                                        /\ \A j \in 1 .. i - 1 : s[j].lastoff < lo
           l == CHOOSE i \in c .. N : /\ s[i].lastoff >= hi
                                      /\ \A j \in c .. i - 1 : s[j].lastoff < hi
           from == IF lo < s[c].off THEN lo ELSE s[c].off
           mid == IF hi < s[l].off THEN <<Chunk(from, hi), s[l]>>
                                   ELSE <<Chunk(from, s[l].lastoff)>>
           r == SubSeq(s, 1, c - 1) \o mid \o SubSeq(s, l + 1, N)
<1>1. Patched(s, lo, hi) = r
  BY DEF Patched
<1>2. N \in Nat /\ N >= 1
  OBVIOUS
<1>2a. DOMAIN s = 1 .. N
  OBVIOUS
<1>3. ASSUME NEW i \in 1 .. N
      PROVE  s[i].off \in Nat /\ s[i].lastoff \in Nat /\ s[i].off <= s[i].lastoff /\ s[i] \in ChunkSet
  <2>1. s[i] \in ChunkSet
    BY ElementOfSeq
  <2>2. s[i].off \in Nat /\ s[i].lastoff \in Nat
    BY <2>1 DEF ChunkSet
  <2> QED  BY <2>1, <2>2
<1>4. c \in 1 .. N /\ s[c].lastoff >= lo /\ \A j \in 1 .. c - 1 : s[j].lastoff < lo
  <2>1. s[N].lastoff >= lo
    BY <1>2, <1>3
  <2>2. 1 \in 1 .. Len(s)
    BY <1>2
  <2> QED  BY <1>2a, <2>1, <2>2, FirstChunk
<1> HIDE DEF c
<1>5. l \in c .. N /\ s[l].lastoff >= hi /\ \A j \in c .. l - 1 : s[j].lastoff < hi
  BY <1>4, FirstChunk
<1> HIDE DEF l
<1>6. from \in Nat /\ from <= lo /\ from <= s[c].off /\ (from = lo \/ from = s[c].off)
  BY <1>3, <1>4
<1>7. c \in Nat /\ l \in Nat /\ 1 <= c /\ c <= l /\ l <= N
  BY <1>2, <1>4, <1>5
<1> HIDE DEF from
<1> DEFINE M == Len(mid)
           n == c - 1 + M
<1>8a. l \in 1 .. N /\ s[l].lastoff \in Nat /\ s[l] \in ChunkSet
  BY <1>2, <1>3, <1>7
<1>8b. Chunk(from, hi) \in ChunkSet /\ Chunk(from, s[l].lastoff) \in ChunkSet
  BY <1>6, <1>8a DEF Chunk, ChunkSet
<1>8c. mid \in Seq(ChunkSet)
  BY <1>8a, <1>8b
<1>8. /\ M \in {1, 2}
      /\ mid[1].off = from /\ mid[1].lastoff \in Nat
      /\ hi < s[l].off => M = 2 /\ mid[1].lastoff = hi /\ mid[2] = s[l]
      /\ ~(hi < s[l].off) => M = 1 /\ mid[1].lastoff = s[l].lastoff
  <2>1. CASE hi < s[l].off
    <3>1. mid = <<Chunk(from, hi), s[l]>>
      BY <2>1
    <3> QED  BY <3>1, <2>1 DEF Chunk
  <2>2. CASE ~(hi < s[l].off)
    <3>1. mid = <<Chunk(from, s[l].lastoff)>>
      BY <2>2
    <3> QED  BY <3>1, <2>2, <1>8a DEF Chunk
  <2> QED  BY <2>1, <2>2
<1> HIDE DEF mid
<1>9. /\ r \in Seq(ChunkSet) /\ Len(r) = n + (N - l)
      /\ \A i \in 1 .. c - 1 : r[i] = s[i]
      /\ \A i \in 1 .. M : r[c - 1 + i] = mid[i]
      /\ \A i \in 1 .. N - l : r[n + i] = s[l + i]
  <2>1. c \in 1 .. Len(s) /\ l \in c .. Len(s)
    BY <1>4, <1>5
  <2>2. IsSplice(r, ChunkSet, s, mid, c, l)
    BY <1>8c, <2>1, Splice
  <2> HIDE DEF r
  <2> QED  BY <2>2 DEF IsSplice
<1> HIDE DEF r
<1>10. M \in Nat /\ M >= 1 /\ n \in Nat /\ n >= 1 /\ Len(r) \in Nat /\ n = c - 1 + M
  BY <1>2, <1>5, <1>7, <1>8, <1>9
<1> HIDE DEF M, n
<1> DEFINE Low == 1 .. c - 1
           High == l + 1 .. N
<1>11. \A i \in Low : i \in 1 .. N /\ s[i].lastoff < lo /\ s[i].lastoff < s[c].off /\ s[i].off < s[i].lastoff
  BY <1>2, <1>3, <1>4, <1>7 DEF Apart
<1>12. \A i \in High : i \in 1 .. N /\ s[l].lastoff < s[i].off /\ s[i].off < s[i].lastoff
  <2> SUFFICES ASSUME NEW i \in High
               PROVE  i \in 1 .. N /\ s[l].lastoff < s[i].off /\ s[i].off < s[i].lastoff
    OBVIOUS
  <2>1. i \in 1 .. N /\ l \in 1 .. N /\ l < i
    BY <1>2, <1>7
  <2>2. s[l].lastoff < s[i].off
    BY <2>1, <1>2 DEF Apart
  <2>3. s[i].off # hi
    BY <2>1, <2>2, <1>3, <1>5
  <2> QED  BY <2>1, <2>2, <2>3
\* what each place of the result holds
<1>13. ASSUME NEW i \in 1 .. Len(r)
       PROVE  \/ i \in Low /\ r[i] = s[i]
              \/ i = c /\ r[i] = mid[1]
              \/ i = c + 1 /\ M = 2 /\ r[i] = s[l]
              \/ /\ i - n + l \in High /\ r[i] = s[i - n + l] /\ i > n
  <2>1. CASE i <= c - 1
    BY <2>1, <1>9, <1>7
  <2>2. CASE i > c - 1 /\ i <= n
    <3>1. i - (c - 1) \in 1 .. M /\ c - 1 + (i - (c - 1)) = i
      BY <2>2, <1>7, <1>10
    <3>2. r[i] = mid[i - (c - 1)]
      BY <3>1, <1>9
    <3>3. CASE i - (c - 1) = 1
      BY <3>2, <3>3, <1>7
    <3>4. CASE i - (c - 1) = 2
      <4>1. M = 2 /\ i = c + 1
        BY <3>1, <3>4, <1>7, <1>8, <1>10
      <4>2. mid[2] = s[l]
        BY <4>1, <1>8
      <4> QED  BY <3>2, <3>4, <4>1, <4>2
    <3>5. i - (c - 1) \in {1, 2}
      BY <3>1, <1>7, <1>8, <1>10
    <3> QED  BY <3>3, <3>4, <3>5
  <2>3. CASE i > n
    <3>1. i - n \in 1 .. N - l /\ n + (i - n) = i /\ l + (i - n) = i - n + l
      BY <2>3, <1>9, <1>10, <1>7, <1>2
    <3> QED  BY <2>3, <3>1, <1>9, <1>7, <1>2
  <2> QED  BY <2>1, <2>2, <2>3, <1>7, <1>10
<1> QED
  <2> SUFFICES /\ r \in Seq(ChunkSet) /\ Len(r) >= 1 /\ Apart(r) /\ Filled(r)
               /\ r[Len(r)].lastoff = s[Len(s)].lastoff
               /\ \A k \in Nat : Covers(r, k) <=> Covers(s, k) \/ (lo < k /\ k <= hi)
    BY <1>1
  <2>1. r \in Seq(ChunkSet) /\ Len(r) >= 1
    BY <1>2, <1>5, <1>7, <1>9, <1>10
  <2>2. /\ s[c].off \in Nat /\ s[c].lastoff \in Nat /\ s[c].off <= s[c].lastoff
        /\ s[l].off \in Nat /\ s[l].lastoff \in Nat /\ s[l].off <= s[l].lastoff
    BY <1>2, <1>3, <1>7
  <2>3. mid[1].off < mid[1].lastoff /\ mid[1].lastoff <= s[l].lastoff
    BY <1>5, <1>6, <1>8, <2>2
  <2>4. M = 2 => mid[1].lastoff < s[l].off /\ s[l].off < s[l].lastoff
    BY <1>8, <2>2, <1>8a DEF M
  <2>5. ASSUME NEW i \in Low
        PROVE  s[i].lastoff < mid[1].off
    BY <2>5, <1>3, <1>6, <1>8, <1>11
  <2>6. Filled(r)
    BY <1>11, <1>12, <1>13, <2>3, <2>4 DEF Filled
  <2>7. Apart(r)
    <3> SUFFICES ASSUME NEW i \in 1 .. Len(r), NEW j \in 1 .. Len(r), i < j
                 PROVE  r[i].lastoff < r[j].off
      BY DEF Apart
    <3>1. CASE i \in Low /\ r[i] = s[i]
      <4>1. CASE j \in Low /\ r[j] = s[j]
        BY <3>1, <4>1, <1>2, <1>7 DEF Apart
      <4>2. CASE j = c /\ r[j] = mid[1]
        BY <3>1, <4>2, <2>5
      <4>3. CASE j = c + 1 /\ M = 2 /\ r[j] = s[l]
        BY <3>1, <4>3, <2>2, <2>3, <2>4, <2>5, <1>3, <1>8, <1>11
      <4>4. CASE j - n + l \in High /\ r[j] = s[j - n + l] /\ j > n
        BY <3>1, <4>4, <2>2, <1>2, <1>3, <1>7, <1>11, <1>12 DEF Apart
      <4> QED  BY <4>1, <4>2, <4>3, <4>4, <1>13
    <3>2. CASE i = c /\ r[i] = mid[1]
      <4>1. CASE j = c + 1 /\ M = 2 /\ r[j] = s[l]
        BY <3>2, <4>1, <2>4
      <4>2. CASE j - n + l \in High /\ r[j] = s[j - n + l] /\ j > n
        <5>1. s[l].lastoff < s[j - n + l].off /\ s[j - n + l].off \in Nat
          BY <4>2, <1>3, <1>12
        <5>2. s[l].lastoff < r[j].off /\ r[j].off \in Nat
          BY <4>2, <5>1
        <5>3. r[i].lastoff <= s[l].lastoff /\ r[i].lastoff \in Nat
          BY <3>2, <2>3, <1>8
        <5> QED  BY <5>2, <5>3, <2>2
      <4>3. j \notin Low /\ j # c
        BY <3>2, <1>7
      <4> QED  BY <4>1, <4>2, <4>3, <1>13
    <3>3. CASE i = c + 1 /\ M = 2 /\ r[i] = s[l]
      <4>1. j - n + l \in High /\ r[j] = s[j - n + l]
        BY <3>3, <1>7, <1>13
      <4> QED  BY <3>3, <4>1, <1>12
    <3>4. CASE i - n + l \in High /\ r[i] = s[i - n + l] /\ i > n
      <4>1. j > n /\ j \notin Low /\ j # c /\ (M = 2 => j # c + 1)
        BY <3>4, <1>7, <1>8, <1>10
      <4>2. j - n + l \in High /\ r[j] = s[j - n + l]
        BY <4>1, <1>13
      <4>3. i - n + l \in 1 .. N /\ j - n + l \in 1 .. N /\ i - n + l < j - n + l
        BY <3>4, <4>2, <1>2, <1>7, <1>10
      <4> QED  BY <3>4, <4>2, <4>3 DEF Apart
    <3> QED  BY <3>1, <3>2, <3>3, <3>4, <1>13
  \* where the result holds each part
  <2>8. \A i \in Low : i \in 1 .. Len(r) /\ r[i] = s[i]
    BY <1>2, <1>7, <1>9, <1>10
  <2>9. c \in 1 .. Len(r) /\ r[c] = mid[1]
    <3>1. 1 \in 1 .. M /\ c - 1 + 1 = c
      BY <1>7, <1>10
    <3> QED  BY <3>1, <1>2, <1>7, <1>9, <1>10
  <2>10. M = 2 => c + 1 \in 1 .. Len(r) /\ r[c + 1] = s[l]
    <3>1. M = 2 => 2 \in 1 .. M /\ c - 1 + 2 = c + 1
      BY <1>7
    <3> QED  BY <3>1, <1>2, <1>7, <1>8, <1>9, <1>10
  <2>11. ASSUME NEW i \in High
         PROVE  i - l + n \in 1 .. Len(r) /\ r[i - l + n] = s[i]
    <3>1. i - l \in 1 .. N - l /\ n + (i - l) = i - l + n /\ l + (i - l) = i
      BY <1>2, <1>7, <1>10
    <3>2. i - l + n \in 1 .. Len(r)
      BY <1>2, <1>7, <1>9, <1>10
    <3>3. r[n + (i - l)] = s[l + (i - l)]
      BY <3>1, <1>9
    <3> QED  BY <3>1, <3>2, <3>3
  <2>12. r[Len(r)].lastoff = s[Len(s)].lastoff
    <3>1. Len(r) \in 1 .. Len(r) /\ Len(r) - n + l = N
      BY <1>2, <1>7, <1>9, <1>10
    <3>2. CASE l = N
      <4>1. Len(r) = n
        BY <3>1, <3>2, <1>7, <1>10
      <4>2. CASE M = 1
        <5>1. Len(r) = c /\ mid[1].lastoff = s[l].lastoff
          BY <4>1, <4>2, <1>7, <1>8, <1>10
        <5> QED  BY <5>1, <3>2, <2>9
      <4>3. CASE M = 2
        <5>1. Len(r) = c + 1
          BY <4>1, <4>3, <1>7, <1>10
        <5> QED  BY <5>1, <4>3, <3>2, <2>10
      <4> QED  BY <4>2, <4>3, <1>8
    <3>3. CASE l < N
      <4>1. N - l \in 1 .. N - l /\ n + (N - l) = Len(r) /\ l + (N - l) = N
        BY <3>3, <1>2, <1>7, <1>9
      <4> QED  BY <4>1, <1>9
    <3> QED  BY <3>2, <3>3, <1>2, <1>7
  <2>13. ASSUME NEW k \in Nat, Covers(r, k)
        PROVE  Covers(s, k) \/ (lo < k /\ k <= hi)
    <3>1. PICK i \in 1 .. Len(r) : r[i].off < k /\ k <= r[i].lastoff
      BY <2>13 DEF Covers
    <3>2. CASE i \in Low /\ r[i] = s[i]
      BY <3>1, <3>2, <1>11 DEF Covers
    <3>3. CASE i = c /\ r[i] = mid[1]
      <4>1. CASE k <= lo
        <5>1. from = s[c].off
          BY <3>1, <3>3, <4>1, <1>6, <1>8
        <5>2. s[c].off < k /\ k <= s[c].lastoff
          BY <3>1, <3>3, <4>1, <5>1, <1>4, <1>8, <2>2
        <5> QED  BY <5>2, <1>4 DEF Covers
      <4>2. CASE k > hi
        <5>1. mid[1].lastoff = s[l].lastoff /\ s[l].off <= hi
          BY <3>1, <3>3, <4>2, <1>8, <2>2
        <5>2. s[l].off < k /\ k <= s[l].lastoff
          BY <3>1, <3>3, <4>2, <5>1, <2>2
        <5> QED  BY <5>2, <1>8a DEF Covers
      <4> QED  BY <4>1, <4>2
    <3>4. CASE i = c + 1 /\ M = 2 /\ r[i] = s[l]
      BY <3>1, <3>4, <1>8a DEF Covers
    <3>5. CASE i - n + l \in High /\ r[i] = s[i - n + l] /\ i > n
      BY <3>1, <3>5, <1>12 DEF Covers
    <3> QED  BY <3>2, <3>3, <3>4, <3>5, <1>13
  <2>14. ASSUME NEW k \in Nat, lo < k, k <= hi
         PROVE  Covers(r, k)
    <3>1. mid[1].off < k
      BY <2>14, <1>6, <1>8
    <3>2. k <= mid[1].lastoff
      BY <2>14, <1>5, <1>8, <2>2
    <3> QED  BY <3>1, <3>2, <2>9 DEF Covers
  <2>15. ASSUME NEW k \in Nat, Covers(s, k)
         PROVE  Covers(r, k)
    <3>1. PICK i \in 1 .. N : s[i].off < k /\ k <= s[i].lastoff
      BY <2>15 DEF Covers
    <3>2. CASE i \in Low
      BY <3>1, <3>2, <2>8 DEF Covers
    <3>3. CASE i \in High
      BY <3>1, <3>3, <2>11 DEF Covers
    <3>4. CASE i \in c .. l
      <4>1. from < k
        <5>1. CASE i = c
          BY <3>1, <5>1, <1>6, <2>2
        <5>2. CASE i > c
          <6>1. s[c].lastoff < s[i].off
            BY <3>4, <5>2, <1>2, <1>7 DEF Apart
          <6> QED  BY <3>1, <6>1, <1>3, <1>4, <1>6
        <5> QED  BY <3>4, <5>1, <5>2, <1>7
      <4>2. CASE i = l /\ M = 2
        BY <3>1, <4>2, <2>10 DEF Covers
      <4>3. CASE ~(i = l /\ M = 2)
        <5>1. k <= mid[1].lastoff
          <6>1. CASE i = l
            BY <3>1, <4>3, <6>1, <1>8
          <6>2. CASE i < l
            BY <3>1, <3>4, <6>2, <1>3, <1>5, <1>7, <1>8, <2>2
          <6> QED  BY <3>4, <6>1, <6>2, <1>7
        <5> QED  BY <4>1, <5>1, <1>8, <2>9 DEF Covers
      <4> QED  BY <4>2, <4>3
    <3> QED  BY <3>2, <3>3, <3>4, <1>2, <1>7
  <2> QED  BY <2>1, <2>6, <2>7, <2>12, <2>13, <2>14, <2>15
----------------------------------------------------------------------------
\* Walks along a bucket
Members(s) == {s[i] : i \in 1 .. Len(s)}
OneOfEach(s) == \A i, j \in 1 .. Len(s) : s[i].id = s[j].id => i = j
Walk(s, ids, f, n) ==
    f = [i \in 0 .. n |-> IF i = 0 THEN <<>>
                          ELSE IF s[i].id \in ids THEN f[i - 1] ELSE Append(f[i - 1], s[i])]

LEMMA WalkExists ==
    ASSUME NEW s, NEW ids, NEW N \in Nat
    PROVE  \E f : Walk(s, ids, f, N)
<1> DEFINE Bad == {n \in Nat : ~\E f : Walk(s, ids, f, n)}
<1>1. SUFFICES ASSUME Bad # {} PROVE FALSE
  OBVIOUS
<1>2. PICK n \in Bad : \A m \in Bad : n <= m
  BY <1>1, LeastNat
<1>3. CASE n = 0
  <2>1. Walk(s, ids, [i \in 0 .. 0 |-> <<>>], 0)
    BY DEF Walk
  <2> QED  BY <1>2, <1>3, <2>1
<1>4. CASE n # 0
  <2>1. n - 1 \in Nat /\ n - 1 \notin Bad
    BY <1>2, <1>4
  <2>2. PICK f : Walk(s, ids, f, n - 1)
    BY <2>1
  <2> DEFINE g == [i \in 0 .. n |->
                     IF i = n THEN IF s[n].id \in ids THEN f[n - 1] ELSE Append(f[n - 1], s[n])
                     ELSE f[i]]
  <2>3. \A i \in 0 .. n : g[i] = IF i = 0 THEN <<>>
                                 ELSE IF s[i].id \in ids THEN g[i - 1] ELSE Append(g[i - 1], s[i])
    <3> SUFFICES ASSUME NEW i \in 0 .. n
                 PROVE  g[i] = IF i = 0 THEN <<>>
                               ELSE IF s[i].id \in ids THEN g[i - 1] ELSE Append(g[i - 1], s[i])
      OBVIOUS
    <3>1. CASE i = n
      <4>1. g[n - 1] = f[n - 1]
        BY <1>2, <1>4
      <4> QED  BY <3>1, <4>1, <1>4
    <3>2. CASE i # n
      <4>1. i \in 0 .. n - 1 /\ g[i] = f[i]
        BY <3>2, <1>2
      <4>2. i # 0 => i - 1 \in 0 .. n /\ i - 1 # n /\ g[i - 1] = f[i - 1]
        BY <3>2, <1>2
      <4>3. f[i] = IF i = 0 THEN <<>>
                   ELSE IF s[i].id \in ids THEN f[i - 1] ELSE Append(f[i - 1], s[i])
        BY <2>2, <4>1 DEF Walk
      <4> QED  BY <4>1, <4>2, <4>3
    <3> QED  BY <3>1, <3>2
  <2>4. Walk(s, ids, g, n)
    <3> HIDE DEF g
    <3>1. g = [i \in 0 .. n |-> g[i]]
      BY DEF g
    <3> QED  BY <2>3, <3>1 DEF Walk
  <2> QED  BY <1>2, <2>4
<1> QED  BY <1>3, <1>4

\* What is left is what was there but for the queues unlinked, in its order.
LEMMA KeptIs ==
    ASSUME NEW S, NEW s \in Seq(S), NEW ids
    PROVE  /\ Kept(s, ids) \in Seq(S)
           /\ Members(Kept(s, ids)) = {q \in Members(s) : q.id \notin ids}
           /\ OneOfEach(s) => OneOfEach(Kept(s, ids))
<1> DEFINE N == Len(s)
           f == CHOOSE f : Walk(s, ids, f, N)
<1>1. Kept(s, ids) = f[N]
  BY DEF Kept, Walk
<1>2. N \in Nat
  OBVIOUS
<1>3. Walk(s, ids, f, N)
  BY <1>2, WalkExists
<1> HIDE DEF f
<1>4. \A i \in 0 .. N : f[i] = IF i = 0 THEN <<>>
                               ELSE IF s[i].id \in ids THEN f[i - 1] ELSE Append(f[i - 1], s[i])
  BY <1>3 DEF Walk
<1> DEFINE Right(i) == /\ f[i] \in Seq(S)
                       /\ Members(f[i]) = {q \in {s[j] : j \in 1 .. i} : q.id \notin ids}
                       /\ OneOfEach(s) => OneOfEach(f[i])
           Bad == {i \in 0 .. N : ~Right(i)}
<1>5. SUFFICES ASSUME Bad # {} PROVE FALSE
  <2>1. N \in 0 .. N
    BY <1>2
  <2>2. Right(N)
    BY <1>5, <2>1
  <2> QED  BY <1>1, <2>2 DEF Members
<1>6a. Bad \in SUBSET Nat
  <2> HIDE DEF Right
  <2> QED  BY <1>2
<1>6. PICK n \in Bad : \A m \in Bad : n <= m
  <2> HIDE DEF Bad
  <2> QED  BY <1>5, <1>6a, LeastNat
<1>7. CASE n = 0
  <2>1. f[0] = <<>>
    BY <1>2, <1>4
  <2>2. Right(0)
    BY <2>1 DEF Members, OneOfEach
  <2> QED  BY <1>6, <1>7, <2>2
<1>8. CASE n # 0
  <2>1. n - 1 \in 0 .. N /\ n \in 1 .. N /\ n - 1 \notin Bad
    <3> HIDE DEF Right
    <3> QED  BY <1>2, <1>6, <1>8
  <2>2. Right(n - 1)
    BY <2>1
  <2>3. s[n] \in S
    BY <2>1
  <2>4. {s[j] : j \in 1 .. n} = {s[j] : j \in 1 .. n - 1} \cup {s[n]}
    BY <2>1
  <2>5. CASE s[n].id \in ids
    <3>1. f[n] = f[n - 1]
      BY <1>4, <2>1, <2>5
    <3>2. {q \in {s[j] : j \in 1 .. n} : q.id \notin ids} = {q \in {s[j] : j \in 1 .. n - 1} : q.id \notin ids}
      BY <2>4, <2>5
    <3> QED  BY <1>6, <2>2, <3>1, <3>2
  <2>6. CASE s[n].id \notin ids
    <3>1. f[n] = Append(f[n - 1], s[n])
      <4>1. n \in 0 .. N /\ n # 0
        BY <2>1
      <4> QED  BY <1>4, <4>1, <2>6
    <3> DEFINE t == f[n - 1]
    <3>2. t \in Seq(S) /\ Len(t) \in Nat
      BY <2>2
    <3> HIDE DEF t
    <3>3. /\ Append(t, s[n]) \in Seq(S) /\ Len(Append(t, s[n])) = Len(t) + 1
          /\ \A i \in 1 .. Len(t) : Append(t, s[n])[i] = t[i]
          /\ Append(t, s[n])[Len(t) + 1] = s[n]
      BY <2>3, <3>2
    <3> DEFINE u == Append(t, s[n])
    <3> HIDE DEF u
    <3>4. Members(u) = Members(t) \cup {s[n]}
      BY <3>2, <3>3 DEF Members, u
    <3>5. Members(u) = {q \in {s[j] : j \in 1 .. n} : q.id \notin ids}
      BY <2>2, <2>4, <2>6, <3>4 DEF t
    <3>6. ASSUME OneOfEach(s)
          PROVE  OneOfEach(u)
      <4>1. OneOfEach(t)
        BY <2>2, <3>6 DEF t
      <4>2. \A i \in 1 .. Len(t) : t[i].id # s[n].id
        <5> SUFFICES ASSUME NEW i \in 1 .. Len(t), t[i].id = s[n].id
                     PROVE  FALSE
          OBVIOUS
        <5>1. t[i] \in Members(t)
          BY DEF Members
        <5>2. PICK j \in 1 .. n - 1 : t[i] = s[j]
          BY <5>1, <2>2 DEF t
        <5> QED  BY <5>2, <3>6, <2>1, <1>2 DEF OneOfEach
      <4> QED  BY <3>2, <3>3, <4>1, <4>2 DEF OneOfEach, u
    <3>7. f[n] = u
      BY <3>1 DEF t, u
    <3> QED  BY <1>6, <3>3, <3>5, <3>6, <3>7 DEF u
  <2> QED  BY <2>5, <2>6
<1> QED  BY <1>7, <1>8
----------------------------------------------------------------------------
\* Adding up memory
Memory(qs) == MapThenSumSet(Size, qs)
AddsUp(S, f) ==
    f = [s \in SUBSET S |-> IF s = {} THEN 0
                            ELSE LET q == CHOOSE q \in s : TRUE IN Size(q) + f[s \ {q}]]

\* A set of subsets of a finite set has a least one.
LEMMA LeastSubset ==
    ASSUME NEW U, IsFiniteSet(U), NEW F \in SUBSET (SUBSET U), F # {}
    PROVE  \E T \in F : \A V \in F : V \subseteq T => V = T
<1>1. IsWellFoundedOn(StrictSubsetOrdering(U), FiniteSubsetsOf(U))
  BY FS_StrictSubsetOrderingWellFounded
<1>2. F \subseteq FiniteSubsetsOf(U)
  BY FS_Subset DEF FiniteSubsetsOf
<1>3. PICK T \in F : \A V \in F : ~(<<V, T>> \in StrictSubsetOrdering(U))
  BY <1>1, <1>2, WFMin
<1>4. ASSUME NEW V \in F, V \subseteq T, V # T
      PROVE  FALSE
  <2>1. <<V, T>> \in StrictSubsetOrdering(U)
    BY <1>4 DEF StrictSubsetOrdering
  <2> QED  BY <1>3, <2>1
<1> QED  BY <1>4

LEMMA AddsUpOnce ==
    ASSUME NEW U, IsFiniteSet(U), NEW S \in SUBSET U, NEW f, NEW g,
           AddsUp(U, f), AddsUp(S, g)
    PROVE  \A s \in SUBSET S : f[s] = g[s]
<1> DEFINE Bad == {s \in SUBSET S : f[s] # g[s]}
<1>1. SUFFICES ASSUME Bad # {} PROVE FALSE
  OBVIOUS
<1>2. PICK T \in Bad : \A V \in Bad : V \subseteq T => V = T
  <2>1. Bad \in SUBSET (SUBSET U)
    OBVIOUS
  <2> HIDE DEF Bad
  <2> QED  BY <1>1, <2>1, LeastSubset
<1>3. /\ f[T] = IF T = {} THEN 0 ELSE LET q == CHOOSE q \in T : TRUE IN Size(q) + f[T \ {q}]
      /\ g[T] = IF T = {} THEN 0 ELSE LET q == CHOOSE q \in T : TRUE IN Size(q) + g[T \ {q}]
  BY <1>2 DEF AddsUp
<1>4. T # {}
  BY <1>2, <1>3
<1> DEFINE q == CHOOSE q \in T : TRUE
<1>5. q \in T
  BY <1>4
<1> HIDE DEF q
<1>6. T \ {q} \notin Bad /\ T \ {q} \in SUBSET S
  BY <1>2, <1>5
<1>7. f[T \ {q}] = g[T \ {q}]
  BY <1>6
<1> QED  BY <1>2, <1>3, <1>4, <1>7 DEF q

LEMMA AddsUpExists ==
    ASSUME NEW U, IsFiniteSet(U)
    PROVE  \E f : AddsUp(U, f)
<1> DEFINE Bad == {s \in SUBSET U : ~\E f : AddsUp(s, f)}
<1>1. SUFFICES ASSUME Bad # {} PROVE FALSE
  OBVIOUS
<1>2. PICK T \in Bad : \A V \in Bad : V \subseteq T => V = T
  <2>1. Bad \in SUBSET (SUBSET U)
    OBVIOUS
  <2> HIDE DEF Bad
  <2> QED  BY <1>1, <2>1, LeastSubset
<1> DEFINE h == [s \in SUBSET T |-> CHOOSE f : AddsUp(s, f)]
           z(s) == CHOOSE q \in s : TRUE
           v == [s \in SUBSET T |-> IF s = {} THEN 0 ELSE Size(z(s)) + h[s \ {z(s)}][s \ {z(s)}]]
<1>3. ASSUME NEW s \in SUBSET T, s # T
      PROVE  AddsUp(s, h[s])
  <2>1. s \notin Bad /\ s \in SUBSET U
    BY <1>2, <1>3
  <2>2. \E f : AddsUp(s, f)
    BY <2>1
  <2> QED  BY <2>2
<1> HIDE DEF h
<1>4. ASSUME NEW s \in SUBSET T, s # T
      PROVE  v[s] = h[s][s]
  <2>1. h[s][s] = IF s = {} THEN 0 ELSE LET q == CHOOSE q \in s : TRUE IN Size(q) + h[s][s \ {q}]
    BY <1>3, <1>4 DEF AddsUp
  <2>2. CASE s = {}
    BY <2>1, <2>2
  <2>3. CASE s # {}
    <3> DEFINE q == z(s)
               w == s \ {q}
    <3>1. q \in s
      BY <2>3
    <3>2. w \in SUBSET s /\ w \in SUBSET T /\ w # T
      BY <1>4, <3>1
    <3>3. IsFiniteSet(s)
      BY <1>2, FS_Subset
    <3>4. AddsUp(w, h[w]) /\ AddsUp(s, h[s])
      <4> HIDE DEF w
      <4> QED  BY <3>2, <1>3, <1>4
    <3>5. h[s][w] = h[w][w]
      <4>0. w \in SUBSET s
        BY <3>2
      <4> HIDE DEF w, q, z, v, Bad
      <4> DEFINE a == h[s]
                 b == h[w]
      <4>1. AddsUp(s, a) /\ AddsUp(w, b)
        BY <3>4
      <4> HIDE DEF a, b
      <4>2. \A x \in SUBSET w : a[x] = b[x]
        BY <4>0, <4>1, <3>3, AddsUpOnce
      <4> QED  BY <4>2 DEF a, b
    <3>6. h[s][s] = Size(q) + h[s][w]
      BY <2>1, <2>3
    <3> QED  BY <2>3, <3>5, <3>6
  <2> QED  BY <2>2, <2>3
<1>5. AddsUp(T, v)
  <2>1. ASSUME NEW s \in SUBSET T
        PROVE  v[s] = IF s = {} THEN 0 ELSE LET q == CHOOSE q \in s : TRUE IN Size(q) + v[s \ {q}]
    <3>1. CASE s = {}
      BY <3>1
    <3>2. CASE s # {}
      <4>1. z(s) \in s
        BY <3>2
      <4>2. s \ {z(s)} \in SUBSET T /\ s \ {z(s)} # T
        BY <4>1
      <4>3. v[s \ {z(s)}] = h[s \ {z(s)}][s \ {z(s)}]
        <5> HIDE DEF v, z
        <5> QED  BY <1>4, <4>2
      <4>4. v[s] = Size(z(s)) + h[s \ {z(s)}][s \ {z(s)}]
        BY <3>2
      <4> QED  BY <3>2, <4>3, <4>4
    <3> QED  BY <3>1, <3>2
  <2>2. v = [s \in SUBSET T |-> v[s]]
    OBVIOUS
  <2> HIDE DEF v
  <2> QED  BY <2>1, <2>2 DEF AddsUp
<1> QED  BY <1>2, <1>5

LEMMA MemoryStep ==
    ASSUME NEW S, IsFiniteSet(S)
    PROVE  /\ Memory({}) = 0
           /\ S # {} => LET q == CHOOSE q \in S : TRUE IN Memory(S) = Size(q) + Memory(S \ {q})
<1> DEFINE M(U) == CHOOSE f : AddsUp(U, f)
<1>1. \A U : Memory(U) = M(U)[U]
  BY DEF Memory, MapThenSumSet, MapThenFoldSet, AddsUp
<1>2. ASSUME NEW U, IsFiniteSet(U)
      PROVE  AddsUp(U, M(U))
  BY <1>2, AddsUpExists
<1> HIDE DEF M
<1>3. Memory({}) = 0
  <2>1. AddsUp({}, M({}))
    BY <1>2, FS_EmptySet
  <2>2. {} \in SUBSET {}
    OBVIOUS
  <2>3. M({})[{}] = 0
    BY <2>1, <2>2 DEF AddsUp
  <2> QED  BY <1>1, <2>3
<1>4. ASSUME S # {}
      PROVE  LET q == CHOOSE q \in S : TRUE IN Memory(S) = Size(q) + Memory(S \ {q})
  <2> DEFINE q == CHOOSE q \in S : TRUE
             W == S \ {q}
  <2>1. q \in S
    BY <1>4
  <2>2. IsFiniteSet(W) /\ W \in SUBSET S
    BY FS_Subset
  <2>3. M(S)[S] = Size(q) + M(S)[W]
    <3>1. AddsUp(S, M(S)) /\ S \in SUBSET S
      BY <1>2
    <3> QED  BY <1>4, <3>1 DEF AddsUp
  <2> HIDE DEF W, q
  <2>4. \A x \in SUBSET W : M(S)[x] = M(W)[x]
    BY <1>2, <2>2, AddsUpOnce
  <2>5. Memory(S) = Size(q) + Memory(W)
    BY <1>1, <2>3, <2>4
  <2> QED  BY <2>5 DEF W, q
<1> QED  BY <1>3, <1>4

\* Any queue can be counted first: the sum has no order.
LEMMA MemoryOfOne ==
    ASSUME NEW S, IsFiniteSet(S), \A q \in S : Size(q) \in Nat
    PROVE  /\ Memory(S) \in Nat
           /\ \A q \in S : Memory(S) = Size(q) + Memory(S \ {q})
<1> DEFINE Bad == {s \in SUBSET S : ~(/\ Memory(s) \in Nat
                                      /\ \A q \in s : Memory(s) = Size(q) + Memory(s \ {q}))}
<1>1. SUFFICES ASSUME Bad # {} PROVE FALSE
  <2>1. S \in SUBSET S
    OBVIOUS
  <2> QED  BY <1>1, <2>1
<1>2. PICK T \in Bad : \A V \in Bad : V \subseteq T => V = T
  <2>1. Bad \in SUBSET (SUBSET S)
    OBVIOUS
  <2> HIDE DEF Bad
  <2> QED  BY <1>1, <2>1, LeastSubset
<1>3. ASSUME NEW s \in SUBSET T, s # T
      PROVE  Memory(s) \in Nat /\ \A q \in s : Memory(s) = Size(q) + Memory(s \ {q})
  BY <1>2, <1>3
<1>4. T \in SUBSET S /\ IsFiniteSet(T) /\ \A q \in T : Size(q) \in Nat
  BY <1>2, FS_Subset
<1>5. CASE T = {}
  <2>1. Memory(T) = 0 /\ \A q \in T : FALSE
    BY <1>4, <1>5, MemoryStep
  <2> QED  BY <1>2, <2>1
<1>6. CASE T # {}
  <2> DEFINE z == CHOOSE q \in T : TRUE
  <2>1. z \in T
    BY <1>6
  <2>2. Memory(T) = Size(z) + Memory(T \ {z})
    BY <1>4, <1>6, MemoryStep
  <2> HIDE DEF z
  <2>3. Memory(T \ {z}) \in Nat /\ Size(z) \in Nat
    <3>1. T \ {z} \in SUBSET T /\ T \ {z} # T
      BY <2>1
    <3> QED  BY <3>1, <1>3, <1>4, <2>1
  <2>4. ASSUME NEW q \in T
        PROVE  Memory(T) = Size(q) + Memory(T \ {q})
    <3>1. CASE q = z
      BY <2>2, <3>1
    <3>2. CASE q # z
      <4> DEFINE W == T \ {q, z}
      <4>1. /\ T \ {z} \in SUBSET T /\ T \ {z} # T /\ q \in T \ {z} /\ (T \ {z}) \ {q} = W
            /\ T \ {q} \in SUBSET T /\ T \ {q} # T /\ z \in T \ {q} /\ (T \ {q}) \ {z} = W
            /\ W \in SUBSET T /\ W # T
        BY <2>1, <3>2
      <4> HIDE DEF W
      <4>2. Memory(T \ {z}) = Size(q) + Memory(W)
        BY <4>1, <1>3
      <4>3. Memory(T \ {q}) = Size(z) + Memory(W)
        BY <4>1, <1>3
      <4>4. Memory(W) \in Nat /\ Size(q) \in Nat
        BY <4>1, <1>3, <1>4
      <4> QED  BY <2>2, <2>3, <4>2, <4>3, <4>4
    <3> QED  BY <3>1, <3>2
  <2>5. Memory(T) \in Nat
    BY <2>2, <2>3
  <2> QED  BY <1>2, <2>4, <2>5
<1> QED  BY <1>5, <1>6

\* What goes and what stays make up what there was.
LEMMA MemoryWithout ==
    ASSUME NEW S, IsFiniteSet(S), \A q \in S : Size(q) \in Nat, NEW G \in SUBSET S
    PROVE  Memory(S \ G) = Memory(S) - Memory(G)
<1> DEFINE Bad == {s \in SUBSET G : Memory(S \ s) # Memory(S) - Memory(s)}
<1>1. SUFFICES ASSUME Bad # {} PROVE FALSE
  <2>1. G \in SUBSET G
    OBVIOUS
  <2> QED  BY <1>1, <2>1
<1>2. PICK T \in Bad : \A V \in Bad : V \subseteq T => V = T
  <2>1. Bad \in SUBSET (SUBSET S)
    OBVIOUS
  <2> HIDE DEF Bad
  <2> QED  BY <1>1, <2>1, LeastSubset
<1>3. \A s \in SUBSET S : IsFiniteSet(s) /\ Memory(s) \in Nat /\ \A q \in s : Memory(s) = Size(q) + Memory(s \ {q})
  <2> SUFFICES ASSUME NEW s \in SUBSET S
               PROVE  IsFiniteSet(s) /\ Memory(s) \in Nat /\ \A q \in s : Memory(s) = Size(q) + Memory(s \ {q})
    OBVIOUS
  <2>1. IsFiniteSet(s) /\ \A q \in s : Size(q) \in Nat
    BY FS_Subset
  <2> QED  BY <2>1, MemoryOfOne
<1>4. CASE T = {}
  <2>1. S \ T = S /\ Memory(T) = 0 /\ Memory(S) \in Nat
    BY <1>3, <1>4, MemoryStep
  <2>2. Memory(S \ T) = Memory(S) - Memory(T)
    BY <2>1
  <2>3. T \in Bad
    BY <1>2
  <2> QED  BY <2>2, <2>3
<1>5. ASSUME NEW q \in T
      PROVE  FALSE
  <2> DEFINE W == T \ {q}
  <2>1. W \in SUBSET G /\ W \notin Bad
    BY <1>2
  <2>2. Memory(S \ W) = Memory(S) - Memory(W)
    BY <2>1
  <2>3. q \in S \ W /\ (S \ W) \ {q} = S \ T /\ S \ W \in SUBSET S /\ S \ T \in SUBSET S
        /\ T \in SUBSET S /\ q \in S /\ W \in SUBSET S
    BY <1>2
  <2> HIDE DEF W
  <2>4. Memory(S \ W) = Size(q) + Memory(S \ T)
    BY <1>3, <2>3
  <2>5. Memory(T) = Size(q) + Memory(W)
    BY <1>3, <2>3 DEF W
  <2>6. Memory(S) \in Nat /\ Memory(T) \in Nat /\ Memory(W) \in Nat /\ Memory(S \ T) \in Nat /\ Size(q) \in Nat
    BY <1>3, <2>3
  <2> QED  BY <1>2, <2>2, <2>4, <2>5, <2>6
<1> QED  BY <1>2, <1>4, <1>5
----------------------------------------------------------------------------
\* The invariant.  A packet in the network is a piece of a datagram, and its id
\* says of which.
Contents == {d.body : d \in Datagrams} \cup {Garbage}
Packet == [id : Nat, body : {d.body : d \in Datagrams}, off : Nat, len : Nat \ {0},
           mf : BOOLEAN, df : BOOLEAN, hl : Nat, opt : OptKinds]
Piece(p, d) ==
    /\ p \in Packet /\ p.hl >= IP_HEADER /\ p.body = d.body
    /\ p.off + p.len <= d.len
    /\ p.mf <=> p.off + p.len < d.len
    /\ p.off = 0 => p.hl = d.hl
NetInv ==
    /\ \A p \in net : \E d \in Datagrams : Piece(p, d)
    /\ \A p, r \in net : p.id = r.id => p.body = r.body

\* A queue is what came of a datagram of which some block has not come.
QueueSet == [id : Nat, hl : Nat, mf : BOOLEAN, ts : Nat, chunks : Seq(ChunkSet),
             data : Seq(Contents), seen : SUBSET Nat]
Partial(q, d) ==
    /\ q \in QueueSet /\ Length(q) <= d.len
    /\ Len(q.chunks) >= 1 /\ Apart(q.chunks) /\ Filled(q.chunks)
    /\ q.chunks[Len(q.chunks)].lastoff = Length(q)
    /\ \A k \in Nat : Covers(q.chunks, k) <=> k \in q.seen
    /\ q.seen \subseteq 1 .. Length(q)
    /\ \A k \in 1 .. Length(q) : q.data[k] = IF k \in q.seen THEN d.body ELSE Garbage
    /\ q.mf <=> d.len \notin q.seen
    /\ q.hl = IF 1 \in q.seen THEN d.hl ELSE IP_HEADER
Known(q) == \E p \in net, d \in Datagrams : q.id = p.id /\ p.body = d.body /\ Partial(q, d)

\* Queues are in their bucket, one of each id, unfinished, and _mem_used is theirs.
StoreOK(m, used) ==
    /\ m \in [Buckets -> Seq(QueueSet)]
    /\ \A b \in Buckets : OneOfEach(m[b])
    /\ \A b \in Buckets : \A q \in Members(m[b]) : bucketno(q) = b /\ Known(q) /\ ~Done(q)
    /\ used = Memory(Queues(m))

IInv ==
    /\ NetInv /\ StoreOK(map, mem_used)
    /\ now \in Nat /\ reap_time \in Nat
    /\ EmittedAsSent /\ PartialAsReceived

----------------------------------------------------------------------------
\* One queue
LEMMA DatagramType ==
    ASSUME NEW d \in Datagrams
    PROVE  d.len \in Nat /\ d.len >= 1 /\ d.hl \in Nat /\ d.body \in Contents /\ d.body # Garbage
<1>1. d \in Datagram /\ d.body # Garbage
  BY ReassemblerAssumption
<1>2. d.len \in Nat \ {0} /\ d.hl \in IP_HEADER .. 60
  BY <1>1 DEF Datagram
<1> QED  BY <1>1, <1>2 DEF Contents, IP_HEADER

LEMMA PieceType ==
    ASSUME NEW p, NEW d \in Datagrams, Piece(p, d)
    PROVE  /\ d.len \in Nat /\ d.len >= 1 /\ d.hl \in Nat /\ d.body \in Contents /\ d.body # Garbage
           /\ p.id \in Nat /\ p.off \in Nat /\ p.len \in Nat /\ p.len >= 1 /\ p.hl \in Nat
           /\ p.mf \in BOOLEAN /\ p.body = d.body /\ p.off + p.len <= d.len
           /\ p.off + p.len \in Nat
<1>1. p.id \in Nat /\ p.off \in Nat /\ p.len \in Nat \ {0} /\ p.hl \in Nat /\ p.mf \in BOOLEAN
  BY DEF Piece, Packet
<1> QED  BY <1>1, DatagramType DEF Piece

LEMMA QueueType ==
    ASSUME NEW q \in QueueSet
    PROVE  /\ Length(q) \in Nat /\ Size(q) \in Nat /\ q.id \in Nat /\ bucketno(q) \in Buckets
           /\ q.ts \in Nat /\ q.hl \in Nat /\ q.mf \in BOOLEAN
           /\ q.data \in Seq(Contents) /\ q.chunks \in Seq(ChunkSet)
<1>1. q.data \in Seq(Contents) /\ q.id \in Nat /\ q.chunks \in Seq(ChunkSet)
      /\ q.ts \in Nat /\ q.hl \in Nat /\ q.mf \in BOOLEAN
  BY DEF QueueSet
<1>2. NMAP \in Nat \ {0}
  BY ReassemblerAssumption
<1>3. q.id % NMAP \in 0 .. NMAP - 1
  BY <1>1, <1>2
<1>4. Len(q.data) \in Nat
  BY <1>1
<1> QED  BY <1>1, <1>3, <1>4 DEF Length, Size, IPH_MEM_USED, bucketno, Buckets

\* simple_action's extension of the chunks when the packet grows
LEMMA Extended ==
    ASSUME NEW s \in Seq(ChunkSet), Len(s) >= 1, Apart(s), Filled(s),
           NEW hi \in Nat, s[Len(s)].lastoff < hi
    PROVE  LET t == Append(s, Chunk(hi, hi))
           IN  /\ t \in Seq(ChunkSet) /\ Len(t) >= 1 /\ Apart(t)
               /\ t[Len(t)].lastoff = hi
               /\ \A i \in 1 .. Len(t) : \/ t[i].off < t[i].lastoff
                                         \/ i = Len(t) /\ t[i].off = hi /\ t[i].lastoff = hi
               /\ \A k \in Nat : Covers(t, k) <=> Covers(s, k)
<1> DEFINE N == Len(s)
           e == Chunk(hi, hi)
           t == Append(s, e)
<1>1. N \in Nat /\ N >= 1
  OBVIOUS
<1>2. e \in ChunkSet /\ e.off = hi /\ e.lastoff = hi
  BY DEF Chunk, ChunkSet
<1> HIDE DEF e
<1>3. t \in Seq(ChunkSet) /\ Len(t) = N + 1 /\ t[N + 1] = e /\ \A i \in 1 .. N : t[i] = s[i]
  BY <1>1, <1>2
<1> HIDE DEF t
<1>4. ASSUME NEW i \in 1 .. N
      PROVE  s[i].off \in Nat /\ s[i].lastoff \in Nat /\ s[i].off < s[i].lastoff /\ s[i].lastoff < hi
  <2>1. s[i] \in ChunkSet /\ s[N] \in ChunkSet
    BY <1>1
  <2>2. s[i].off \in Nat /\ s[i].lastoff \in Nat /\ s[N].lastoff \in Nat /\ s[N].off \in Nat
    BY <2>1 DEF ChunkSet
  <2>3. s[i].off < s[i].lastoff /\ s[N].off < s[N].lastoff
    BY <1>1 DEF Filled
  <2>4. i < N => s[i].lastoff < s[N].off
    BY <1>1 DEF Apart
  <2> QED  BY <1>1, <2>2, <2>3, <2>4
<1>5. Apart(t)
  <2> SUFFICES ASSUME NEW i \in 1 .. N + 1, NEW j \in 1 .. N + 1, i < j
               PROVE  t[i].lastoff < t[j].off
    BY <1>1, <1>3 DEF Apart
  <2>1. i \in 1 .. N /\ t[i] = s[i]
    BY <1>1, <1>3
  <2>2. CASE j = N + 1
    BY <1>2, <1>3, <1>4, <2>1, <2>2
  <2>3. CASE j # N + 1
    BY <1>1, <1>3, <2>1, <2>3 DEF Apart
  <2> QED  BY <2>2, <2>3
<1>6. \A i \in 1 .. N + 1 : \/ t[i].off < t[i].lastoff
                            \/ i = N + 1 /\ t[i].off = hi /\ t[i].lastoff = hi
  BY <1>1, <1>2, <1>3, <1>4
<1>7. \A k \in Nat : Covers(t, k) <=> Covers(s, k)
  <2> SUFFICES ASSUME NEW k \in Nat
               PROVE  Covers(t, k) <=> Covers(s, k)
    OBVIOUS
  <2>1. Covers(t, k) <=> \E i \in 1 .. N + 1 : t[i].off < k /\ k <= t[i].lastoff
    BY <1>3 DEF Covers
  <2>2. ~(e.off < k /\ k <= e.lastoff)
    BY <1>2
  <2> QED  BY <1>1, <1>3, <2>1, <2>2 DEF Covers
<1> QED  BY <1>1, <1>2, <1>3, <1>5, <1>6, <1>7 DEF e, t

LEMMA MergedIs ==
    ASSUME NEW d \in Datagrams, NEW q, Partial(q, d), NEW p, Piece(p, d), ~Completed(q, p)
    PROVE  /\ Partial(Merged(q, p), d)
           /\ Merged(q, p).id = q.id /\ Merged(q, p).ts = q.ts
<1> DEFINE lo == p.off
           hi == p.off + p.len
           n == Length(q)
           len == IF hi > n THEN hi ELSE n
           chunks == IF Grows(q, p) THEN Append(q.chunks, Chunk(hi, hi)) ELSE q.chunks
           patched == Patched(chunks, lo, hi)
           data == [k \in 1 .. len |-> IF k \in Blocks(p) THEN p.body
                                       ELSE IF k <= n THEN q.data[k] ELSE Garbage]
           r == Merged(q, p)
<1>1. /\ d.len \in Nat /\ d.len >= 1 /\ d.hl \in Nat /\ d.body \in Contents /\ Garbage \in Contents
      /\ lo \in Nat /\ hi \in Nat /\ lo < hi /\ hi <= d.len /\ p.hl \in Nat /\ p.mf \in BOOLEAN
      /\ p.body = d.body
  BY PieceType DEF Contents
<1>2. /\ q \in QueueSet /\ n \in Nat /\ n <= d.len /\ q.chunks \in Seq(ChunkSet)
      /\ q.data \in Seq(Contents) /\ Len(q.data) = n
      /\ q.id \in Nat /\ q.ts \in Nat /\ q.hl \in Nat /\ q.mf \in BOOLEAN
  BY QueueType DEF Partial, Length
<1>3. /\ Len(q.chunks) >= 1 /\ Apart(q.chunks) /\ Filled(q.chunks)
      /\ q.chunks[Len(q.chunks)].lastoff = n
      /\ \A k \in Nat : Covers(q.chunks, k) <=> k \in q.seen
  BY DEF Partial
<1>4. Grows(q, p) <=> hi > n
  BY <1>1, <1>2 DEF Grows, Completed
<1>5. len \in Nat /\ hi <= len /\ n <= len /\ len <= d.len
  BY <1>1, <1>2
<1>6. r = Queue(q.id, IF lo = 0 THEN p.hl ELSE q.hl, q.mf /\ p.mf, q.ts, patched, data, q.seen \cup Blocks(p))
  BY DEF Merged
<1>7. Blocks(p) = lo + 1 .. hi
  BY DEF Blocks
<1> HIDE DEF r, n, lo, hi, len
<1>8. /\ chunks \in Seq(ChunkSet) /\ Len(chunks) >= 1 /\ Apart(chunks)
      /\ chunks[Len(chunks)].lastoff = len
      /\ \A i \in 1 .. Len(chunks) : \/ chunks[i].off < chunks[i].lastoff
                                     \/ i = Len(chunks) /\ chunks[i].off = hi /\ chunks[i].lastoff = hi
      /\ \A k \in Nat : Covers(chunks, k) <=> k \in q.seen
  <2>1. CASE hi > n
    <3> DEFINE t == Append(q.chunks, Chunk(hi, hi))
    <3>1. chunks = t /\ len = hi
      BY <1>4, <2>1 DEF len
    <3>2. q.chunks[Len(q.chunks)].lastoff < hi
      BY <1>1, <1>2, <1>3, <2>1
    <3>3. /\ t \in Seq(ChunkSet) /\ Len(t) >= 1 /\ Apart(t)
          /\ t[Len(t)].lastoff = hi
          /\ \A i \in 1 .. Len(t) : \/ t[i].off < t[i].lastoff
                                    \/ i = Len(t) /\ t[i].off = hi /\ t[i].lastoff = hi
          /\ \A k \in Nat : Covers(t, k) <=> Covers(q.chunks, k)
      BY <1>1, <1>2, <1>3, <3>2, Extended
    <3> HIDE DEF t, chunks
    <3> QED  BY <1>3, <3>1, <3>3
  <2>2. CASE ~(hi > n)
    <3>1. chunks = q.chunks /\ len = n
      BY <1>4, <2>2 DEF len
    <3> HIDE DEF chunks
    <3> QED  BY <1>2, <1>3, <3>1 DEF Filled
  <2> QED  BY <2>1, <2>2
<1> HIDE DEF chunks
<1>9. /\ patched \in Seq(ChunkSet) /\ Len(patched) >= 1 /\ Apart(patched) /\ Filled(patched)
      /\ patched[Len(patched)].lastoff = len
      /\ \A k \in Nat : Covers(patched, k) <=> Covers(chunks, k) \/ (lo < k /\ k <= hi)
  <2>1. chunks[Len(chunks)].lastoff >= hi
    BY <1>1, <1>5, <1>8
  <2> QED  BY <1>1, <1>8, <2>1, PatchKeeps
<1> HIDE DEF patched
<1>10. ASSUME NEW k \in 1 .. len
       PROVE  data[k] = IF k \in q.seen \cup Blocks(p) THEN d.body ELSE Garbage
  <2>1. k <= n => q.data[k] = IF k \in q.seen THEN d.body ELSE Garbage
    BY <1>2, <1>5 DEF Partial, n
  <2>2. k > n => k \notin q.seen
    BY <1>2, <1>5 DEF Partial, n
  <2> QED  BY <1>1, <1>2, <1>5, <2>1, <2>2
<1>11. data \in Seq(Contents) /\ Len(data) = len
  <2>1. \A k \in 1 .. len : data[k] \in Contents
    BY <1>1, <1>10
  <2>2. data \in [1 .. len -> Contents]
    <3>1. data = [k \in 1 .. len |-> data[k]]
      OBVIOUS
    <3> HIDE DEF data
    <3> QED  BY <2>1, <3>1
  <2> HIDE DEF data
  <2> QED  BY <1>5, <2>2
<1> HIDE DEF data
<1>12. q.seen \cup Blocks(p) \in SUBSET (1 .. len)
  <2>1. q.seen \subseteq 1 .. n
    BY DEF Partial, n
  <2> QED  BY <1>1, <1>2, <1>5, <1>7, <2>1
<1>13. /\ r.id = q.id /\ r.hl = (IF lo = 0 THEN p.hl ELSE q.hl) /\ r.mf = (q.mf /\ p.mf) /\ r.ts = q.ts
       /\ r.chunks = patched /\ r.data = data /\ r.seen = q.seen \cup Blocks(p)
       /\ r \in QueueSet
  <2>1. (IF lo = 0 THEN p.hl ELSE q.hl) \in Nat /\ (q.mf /\ p.mf) \in BOOLEAN
        /\ q.seen \cup Blocks(p) \in SUBSET Nat
    BY <1>1, <1>2, <1>5, <1>12
  <2> QED  BY <1>2, <1>6, <1>9, <1>11, <2>1 DEF Queue, QueueSet
<1>14. r.mf <=> d.len \notin r.seen
  <2>1. q.mf <=> d.len \notin q.seen
    BY DEF Partial
  <2>2. p.mf <=> hi < d.len
    BY DEF Piece, hi
  <2>3. p.mf <=> d.len \notin Blocks(p)
    BY <1>1, <1>7, <2>2
  <2> QED  BY <1>13, <2>1, <2>3, Zenon
<1>15. r.hl = IF 1 \in r.seen THEN d.hl ELSE IP_HEADER
  <2>1. q.hl = IF 1 \in q.seen THEN d.hl ELSE IP_HEADER
    BY DEF Partial
  <2>2. lo = 0 => p.hl = d.hl
    BY DEF Piece, lo
  <2>3. 1 \in Blocks(p) <=> lo = 0
    BY <1>1, <1>7
  <2> QED  BY <1>13, <2>1, <2>2, <2>3
<1>16. \A k \in Nat : Covers(r.chunks, k) <=> k \in r.seen
  BY <1>1, <1>7, <1>8, <1>9, <1>13
<1>17. Length(r) = len
  BY <1>11, <1>13 DEF Length
<1> QED  BY <1>5, <1>9, <1>10, <1>12, <1>13, <1>14, <1>15, <1>16, <1>17 DEF Partial, r

LEMMA NewQueueIs ==
    ASSUME NEW d \in Datagrams, NEW p, Piece(p, d), IsFrag(p), now \in Nat
    PROVE  /\ Partial(NewQueue(p), d) /\ ~Done(NewQueue(p))
           /\ NewQueue(p).id = p.id /\ (p.off # 0 => NewQueue(p).ts = 0)
<1> DEFINE hi == p.off + p.len
           data == [k \in 1 .. hi |-> IF k \in Blocks(p) THEN p.body ELSE Garbage]
           q == NewQueue(p)
           c == <<Chunk(p.off, hi)>>
<1>1. /\ d.len \in Nat /\ d.len >= 1 /\ d.hl \in Nat /\ d.body \in Contents /\ Garbage \in Contents
      /\ p.off \in Nat /\ hi \in Nat /\ p.off < hi /\ hi <= d.len /\ p.hl \in Nat /\ p.mf \in BOOLEAN
      /\ p.body = d.body /\ p.id \in Nat
  BY PieceType DEF Contents
<1>2. Blocks(p) = p.off + 1 .. hi
  BY DEF Blocks
<1>3. data \in Seq(Contents) /\ Len(data) = hi
  <2>1. \A k \in 1 .. hi : data[k] \in Contents
    BY <1>1
  <2>2. data \in [1 .. hi -> Contents]
    <3>1. data = [k \in 1 .. hi |-> data[k]]
      OBVIOUS
    <3> HIDE DEF data
    <3> QED  BY <2>1, <3>1
  <2> HIDE DEF data, hi
  <2> QED  BY <1>1, <2>2
<1>4. Chunk(p.off, hi) \in ChunkSet /\ Chunk(p.off, hi).off = p.off /\ Chunk(p.off, hi).lastoff = hi
  BY <1>1 DEF Chunk, ChunkSet
<1>5. c \in Seq(ChunkSet) /\ Len(c) = 1 /\ c[1] = Chunk(p.off, hi)
  BY <1>4
<1>6. q = Queue(p.id, IF p.off = 0 THEN p.hl ELSE IP_HEADER, p.mf, IF p.off = 0 THEN now ELSE 0,
                c, data, Blocks(p))
  BY DEF NewQueue
<1>7. \A k \in 1 .. hi : data[k] = IF k \in Blocks(p) THEN d.body ELSE Garbage
  BY <1>1
<1>8. p.mf <=> hi < d.len
  BY DEF Piece
<1>9. p.off = 0 => p.hl = d.hl
  BY DEF Piece
<1> HIDE DEF c, data, q, hi
<1>10. /\ q.id = p.id /\ q.hl = (IF p.off = 0 THEN p.hl ELSE IP_HEADER) /\ q.mf = p.mf
       /\ q.ts = (IF p.off = 0 THEN now ELSE 0) /\ q.chunks = c /\ q.data = data /\ q.seen = Blocks(p)
       /\ q \in QueueSet
  <2>1. Blocks(p) \in SUBSET Nat
    BY <1>1, <1>2
  <2> QED  BY <1>1, <1>3, <1>5, <1>6, <2>1 DEF Queue, QueueSet, IP_HEADER
<1>11. Length(q) = hi
  BY <1>3, <1>10 DEF Length
<1>12. Apart(c) /\ Filled(c) /\ c[Len(c)].lastoff = hi
  BY <1>1, <1>4, <1>5 DEF Apart, Filled
<1>13. \A k \in Nat : Covers(c, k) <=> k \in Blocks(p)
  BY <1>1, <1>2, <1>4, <1>5 DEF Covers
<1>14. q.mf <=> d.len \notin q.seen
  BY <1>1, <1>2, <1>8, <1>10
<1>15. q.hl = IF 1 \in q.seen THEN d.hl ELSE IP_HEADER
  BY <1>1, <1>2, <1>9, <1>10
<1>16. ~Done(q)
  <2>1. Chunk(p.off, hi) = Chunk(0, hi) => p.off = 0
    BY <1>4 DEF Chunk
  <2> QED  BY <1>5, <1>10, <1>11, <2>1 DEF Done, IsFrag
<1>17. q.seen \subseteq 1 .. hi
  BY <1>1, <1>2, <1>10
<1>18. Len(q.chunks) >= 1
  <2>1. Len(c) >= 1
    BY <1>5
  <2> QED  BY <1>10, <2>1, Zenon
<1> QED  BY <1>1, <1>7, <1>10, <1>11, <1>12, <1>13, <1>14, <1>15, <1>16, <1>17, <1>18 DEF Partial, q

\* A queue that is done holds its datagram, as it was sent.
LEMMA DoneIsWhole ==
    ASSUME NEW d \in Datagrams, NEW q, Partial(q, d), Done(q)
    PROVE  q.data = [k \in 1 .. d.len |-> d.body] /\ q.hl = d.hl
<1>1. d.len \in Nat /\ d.len >= 1
  BY DatagramType
<1>2. q.data \in Seq(Contents) /\ Length(q) \in Nat /\ Len(q.data) = Length(q)
  BY QueueType DEF Partial, Length
<1>3. d.len \in q.seen /\ Length(q) = d.len
  BY <1>1, <1>2 DEF Done, Partial
<1>4. \A k \in 1 .. d.len : k \in q.seen
  <2> SUFFICES ASSUME NEW k \in 1 .. d.len
               PROVE  k \in q.seen
    OBVIOUS
  <2>1. q.chunks[1].off = 0 /\ q.chunks[1].lastoff = d.len
    BY <1>3 DEF Done, Chunk
  <2>2. 1 \in 1 .. Len(q.chunks)
    BY QueueType DEF Partial
  <2>3. Covers(q.chunks, k)
    BY <1>1, <2>1, <2>2 DEF Covers
  <2> QED  BY <1>1, <2>3 DEF Partial
<1>5. \A k \in 1 .. d.len : q.data[k] = d.body
  BY <1>3, <1>4 DEF Partial
<1>6. q.data = [k \in 1 .. d.len |-> q.data[k]]
  BY <1>2, <1>3
<1>7. q.hl = d.hl
  BY <1>1, <1>4 DEF Partial
<1> QED  BY <1>5, <1>6, <1>7

\* A queue that holds every block is done.
LEMMA WholeIsDone ==
    ASSUME NEW d \in Datagrams, NEW q, Partial(q, d), q.seen = 1 .. d.len
    PROVE  Done(q)
<1> DEFINE c == q.chunks
           n == Len(c)
<1>1. d.len \in Nat /\ d.len >= 1
  BY DatagramType
<1>2. /\ c \in Seq(ChunkSet) /\ n \in Nat /\ n >= 1 /\ Apart(c) /\ Filled(c)
      /\ Length(q) \in Nat /\ Length(q) <= d.len /\ c[n].lastoff = Length(q) /\ q.mf \in BOOLEAN
  BY QueueType DEF Partial
<1>3. \A i \in 1 .. n : c[i] \in ChunkSet /\ c[i].off \in Nat /\ c[i].lastoff \in Nat
  <2>1. \A i \in 1 .. n : c[i] \in ChunkSet
    BY <1>2
  <2> QED  BY <2>1 DEF ChunkSet
<1>4. \A k \in Nat : Covers(c, k) <=> k \in 1 .. d.len
  BY DEF Partial
<1>5. d.len \in q.seen /\ ~q.mf /\ Length(q) = d.len
  BY <1>1, <1>2 DEF Partial
<1> HIDE DEF c, n
\* the first chunk begins with the first block
<1>6. c[1].off = 0
  <2>1. PICK i \in 1 .. n : c[i].off < 1 /\ 1 <= c[i].lastoff
    <3>1. Covers(c, 1)
      BY <1>1, <1>4
    <3> QED  BY <3>1 DEF Covers, n
  <2>2. CASE i = 1
    BY <1>3, <2>1, <2>2
  <2>3. CASE i # 1
    <3>1. 1 \in 1 .. n /\ 1 < i
      BY <1>2, <2>1, <2>3
    <3>2. c[1].lastoff < c[i].off
      BY <1>2, <2>1, <3>1 DEF Apart, n
    <3> QED  BY <1>3, <2>1, <3>1, <3>2
  <2> QED  BY <2>2, <2>3
\* and goes on to the last: there is no other
<1>7. n = 1
  <2> SUFFICES ASSUME n # 1
               PROVE  FALSE
    OBVIOUS
  <2>1. 1 \in 1 .. n /\ 2 \in 1 .. n /\ n \in 1 .. n
    BY <1>2
  <2> DEFINE k == c[1].lastoff + 1
  <2>2. c[1].lastoff < c[2].off /\ c[2].off < c[2].lastoff /\ c[2].lastoff <= c[n].lastoff
    <3>1. c[1].lastoff < c[2].off /\ c[2].off < c[2].lastoff
      BY <1>2, <2>1 DEF Apart, Filled, n
    <3>2. 2 < n => c[2].lastoff < c[n].off /\ c[n].off < c[n].lastoff
      BY <1>2, <2>1 DEF Apart, Filled, n
    <3> QED  BY <1>2, <1>3, <2>1, <3>1, <3>2
  <2>3. k \in Nat /\ k \in 1 .. d.len
    <3>1. c[1].lastoff \in Nat /\ c[2].off \in Nat /\ c[2].lastoff \in Nat
      BY <1>3, <2>1
    <3>2. c[n].lastoff = Length(q) /\ Length(q) \in Nat /\ Length(q) <= d.len
      BY <1>2
    <3>3. c[1].lastoff < c[2].off /\ c[2].off < d.len
      BY <1>1, <2>2, <3>1, <3>2
    <3> QED  BY <1>1, <3>1, <3>3
  <2>4. PICK i \in 1 .. n : c[i].off < k /\ k <= c[i].lastoff
    BY <1>4, <2>3 DEF Covers, n
  <2>5. CASE i = 1
    BY <1>3, <2>1, <2>4, <2>5
  <2>6. CASE i # 1
    <3>1. c[1].lastoff < c[i].off
      BY <1>2, <2>1, <2>4, <2>6 DEF Apart, n
    <3> QED  BY <1>3, <2>1, <2>4, <3>1
  <2> QED  BY <2>5, <2>6
<1>8. c[1] = Chunk(0, Length(q))
  <2>1. c[1] \in ChunkSet /\ c[1].off = 0 /\ c[1].lastoff = Length(q)
    BY <1>2, <1>3, <1>6, <1>7
  <2>2. c[1] = [off |-> c[1].off, lastoff |-> c[1].lastoff]
    BY <2>1 DEF ChunkSet
  <2> QED  BY <2>1, <2>2 DEF Chunk
<1> QED  BY <1>5, <1>8 DEF Done, c
----------------------------------------------------------------------------
\* The buckets
LEMMA MembersFinite ==
    ASSUME NEW S, NEW s \in Seq(S)
    PROVE  IsFiniteSet(Members(s))
<1>1. Len(s) \in Nat /\ s \in [1 .. Len(s) -> S]
  OBVIOUS
<1>2. s \in Surjection(1 .. Len(s), Members(s))
  BY <1>1 DEF Surjection, Members
<1>3. IsFiniteSet(1 .. Len(s))
  BY <1>1, FS_Interval
<1> QED  BY <1>2, <1>3, FS_Surjection

LEMMA QueuesAre ==
    ASSUME NEW m \in [Buckets -> Seq(QueueSet)]
    PROVE  /\ IsFiniteSet(Queues(m))
           /\ \A q : q \in Queues(m) <=> \E b \in Buckets : q \in Members(m[b])
           /\ Queues(m) \subseteq QueueSet
<1>1. \A b \in Buckets : m[b] \in Seq(QueueSet) /\ DOMAIN m[b] = 1 .. Len(m[b])
  OBVIOUS
<1>2. Queues(m) = UNION {Members(m[b]) : b \in Buckets}
  BY <1>1 DEF Queues, Members
<1>3. IsFiniteSet({Members(m[b]) : b \in Buckets})
  <2> DEFINE f == [b \in Buckets |-> Members(m[b])]
  <2>1. f \in Surjection(Buckets, {Members(m[b]) : b \in Buckets})
    BY DEF Surjection
  <2>2. IsFiniteSet(Buckets)
    BY ReassemblerAssumption, FS_Interval DEF Buckets
  <2> QED  BY <2>1, <2>2, FS_Surjection
<1>4. \A T \in {Members(m[b]) : b \in Buckets} : IsFiniteSet(T)
  BY <1>1, MembersFinite
<1>5. IsFiniteSet(UNION {Members(m[b]) : b \in Buckets})
  BY <1>3, <1>4, FS_UNION
<1>6. \A b \in Buckets : Members(m[b]) \subseteq QueueSet
  BY <1>1 DEF Members
<1> QED  BY <1>2, <1>5, <1>6

LEMMA StoreFacts ==
    ASSUME NEW m, NEW used, StoreOK(m, used)
    PROVE  /\ m \in [Buckets -> Seq(QueueSet)]
           /\ IsFiniteSet(Queues(m)) /\ used = Memory(Queues(m))
           /\ \A q : q \in Queues(m) <=> \E b \in Buckets : q \in Members(m[b])
           /\ \A q \in Queues(m) : /\ q \in QueueSet /\ Size(q) \in Nat /\ Known(q) /\ ~Done(q)
                                   /\ bucketno(q) \in Buckets /\ q \in Members(m[bucketno(q)])
           /\ \A q, r \in Queues(m) : q.id = r.id => q = r
<1>1. m \in [Buckets -> Seq(QueueSet)]
  BY DEF StoreOK
<1>2. /\ IsFiniteSet(Queues(m)) /\ Queues(m) \subseteq QueueSet
      /\ \A q : q \in Queues(m) <=> \E b \in Buckets : q \in Members(m[b])
  BY <1>1, QueuesAre
<1>3. ASSUME NEW q \in Queues(m)
      PROVE  /\ q \in QueueSet /\ Size(q) \in Nat /\ Known(q) /\ ~Done(q)
             /\ bucketno(q) \in Buckets /\ q \in Members(m[bucketno(q)])
  <2>1. PICK b \in Buckets : q \in Members(m[b])
    BY <1>2
  <2>2. bucketno(q) = b /\ Known(q) /\ ~Done(q)
    BY <2>1 DEF StoreOK
  <2>3. q \in QueueSet
    BY <1>2
  <2> QED  BY <2>1, <2>2, <2>3, QueueType
<1>4. ASSUME NEW q \in Queues(m), NEW r \in Queues(m), q.id = r.id
      PROVE  q = r
  <2> DEFINE b == bucketno(q)
  <2>1. q \in Members(m[b]) /\ r \in Members(m[b]) /\ b \in Buckets
    BY <1>3, <1>4 DEF bucketno
  <2>2. OneOfEach(m[b])
    BY <2>1 DEF StoreOK
  <2> HIDE DEF b
  <2> QED  BY <1>4, <2>1, <2>2 DEF Members, OneOfEach
<1> QED  BY <1>1, <1>2, <1>3, <1>4 DEF StoreOK

\* Queues of some ids are unlinked.
LEMMA WithoutIs ==
    ASSUME NEW m, NEW used, StoreOK(m, used), NEW ids
    PROVE  LET gone == {q \in Queues(m) : q.id \in ids}
           IN  /\ Queues(Without(m, ids)) = Queues(m) \ gone
               /\ StoreOK(Without(m, ids), used - Memory(gone))
<1> DEFINE gone == {q \in Queues(m) : q.id \in ids}
           w == Without(m, ids)
<1>1. /\ m \in [Buckets -> Seq(QueueSet)] /\ IsFiniteSet(Queues(m)) /\ used = Memory(Queues(m))
      /\ \A q : q \in Queues(m) <=> \E b \in Buckets : q \in Members(m[b])
      /\ \A q \in Queues(m) : Size(q) \in Nat
  BY StoreFacts
<1>2. ASSUME NEW b \in Buckets
      PROVE  /\ w[b] \in Seq(QueueSet) /\ Members(w[b]) = {q \in Members(m[b]) : q.id \notin ids}
             /\ OneOfEach(w[b])
  <2>1. m[b] \in Seq(QueueSet) /\ OneOfEach(m[b])
    BY <1>1 DEF StoreOK
  <2>2. w[b] = Kept(m[b], ids)
    BY DEF Without
  <2> QED  BY <2>1, <2>2, KeptIs
<1>3. w \in [Buckets -> Seq(QueueSet)]
  <2>1. w = [b \in Buckets |-> w[b]]
    BY DEF Without
  <2> HIDE DEF w
  <2> QED  BY <1>2, <2>1
<1>4. \A q : q \in Queues(w) <=> \E b \in Buckets : q \in Members(w[b])
  BY <1>3, QueuesAre
<1> HIDE DEF w
<1>5. Queues(w) = Queues(m) \ gone
  BY <1>1, <1>2, <1>4
<1>6. used - Memory(gone) = Memory(Queues(w))
  <2>1. gone \in SUBSET Queues(m)
    OBVIOUS
  <2> HIDE DEF gone
  <2> QED  BY <1>1, <1>5, <2>1, MemoryWithout
<1>7. \A b \in Buckets : \A q \in Members(w[b]) : bucketno(q) = b /\ Known(q) /\ ~Done(q)
  BY <1>2 DEF StoreOK
<1> QED  BY <1>2, <1>3, <1>5, <1>6, <1>7 DEF StoreOK, w

\* What the reaping throws away: all that came of one incomplete datagram
PartOf(o, d) ==
    /\ o.seen \subseteq 1 .. d.len /\ o.seen # 1 .. d.len
    /\ Len(o.data) \in o.seen
    /\ \A k \in 1 .. Len(o.data) : o.data[k] = IF k \in o.seen THEN d.body ELSE Garbage
    /\ o.hl = IF 1 \in o.seen THEN d.hl ELSE IP_HEADER
GoneOK(gone) == \A o \in gone : o.port = 1 /\ \E d \in Datagrams : PartOf(o, d)

LEMMA ThrownIs ==
    ASSUME NEW d \in Datagrams, NEW q, Partial(q, d), ~Done(q)
    PROVE  PartOf(Thrown(q), d)
<1> DEFINE n == Length(q)
           c == q.chunks
<1>1. d.len \in Nat /\ n \in Nat /\ n <= d.len /\ n = Len(q.data) /\ c \in Seq(ChunkSet)
  BY DatagramType, QueueType DEF Partial, Length
<1>2. q.seen \subseteq 1 .. d.len
  BY <1>1 DEF Partial
<1>3. q.seen # 1 .. d.len
  BY WholeIsDone
<1>4. n \in q.seen
  <2>1. Len(c) \in 1 .. Len(c) /\ c[Len(c)].off < c[Len(c)].lastoff /\ c[Len(c)].lastoff = n
    BY <1>1 DEF Partial, Filled
  <2>2. Covers(c, n)
    BY <1>1, <2>1 DEF Covers
  <2> QED  BY <1>1, <2>2 DEF Partial
<1>5. /\ \A k \in 1 .. n : q.data[k] = IF k \in q.seen THEN d.body ELSE Garbage
      /\ q.hl = IF 1 \in q.seen THEN d.hl ELSE IP_HEADER
  BY DEF Partial
<1>6. Thrown(q).data = q.data /\ Thrown(q).seen = q.seen /\ Thrown(q).hl = q.hl
  BY DEF Thrown
<1> HIDE DEF n
<1> QED  BY <1>1, <1>2, <1>3, <1>4, <1>5, <1>6 DEF PartOf

LEMMA ThrowIs ==
    ASSUME NEW st, StoreOK(st.map, st.used), GoneOK(st.gone),
           NEW qs \in SUBSET Queues(st.map)
    PROVE  LET t == Throw(st, qs)
           IN  StoreOK(t.map, t.used) /\ GoneOK(t.gone)
<1> DEFINE ids == {q.id : q \in qs}
           t == Throw(st, qs)
<1>1. t.map = Without(st.map, ids) /\ t.used = st.used - Memory(qs)
      /\ t.gone = st.gone \cup {Thrown(q) : q \in qs}
  BY DEF Throw, Store, Memory
<1>2. qs = {q \in Queues(st.map) : q.id \in ids}
  <2>1. \A q, r \in Queues(st.map) : q.id = r.id => q = r
    BY StoreFacts
  <2> QED  BY <2>1
<1>3. StoreOK(Without(st.map, ids), st.used - Memory(qs))
  <2> HIDE DEF ids
  <2>1. StoreOK(Without(st.map, ids), st.used - Memory({q \in Queues(st.map) : q.id \in ids}))
    BY WithoutIs
  <2> QED  BY <1>2, <2>1
<1>4. ASSUME NEW q \in qs
      PROVE  Thrown(q).port = 1 /\ \E d \in Datagrams : PartOf(Thrown(q), d)
  <2>1. Known(q) /\ ~Done(q)
    BY StoreFacts
  <2>2. PICK d \in Datagrams : Partial(q, d)
    BY <2>1 DEF Known
  <2>3. PartOf(Thrown(q), d)
    BY <2>1, <2>2, ThrownIs
  <2>4. Thrown(q).port = 1
    BY DEF Thrown
  <2> QED  BY <2>3, <2>4
<1>5. GoneOK(t.gone)
  <2> HIDE DEF t
  <2> QED  BY <1>1, <1>4 DEF GoneOK
<1> QED  BY <1>1, <1>3, <1>5

LEMMA AfterReapIs ==
    ASSUME IInv
    PROVE  StoreOK(AfterReap.map, AfterReap.used) /\ GoneOK(AfterReap.gone)
<1> DEFINE st == Store(map, mem_used, {})
<1>1. st.map = map /\ st.used = mem_used /\ st.gone = {}
  BY DEF Store
<1>2. StoreOK(st.map, st.used) /\ GoneOK(st.gone)
  BY <1>1 DEF IInv, GoneOK
<1>3. Reaped(map) \in SUBSET Queues(st.map)
  BY <1>1 DEF Reaped
<1>4. AfterReap = IF now >= reap_time THEN Throw(st, Reaped(map)) ELSE st
  BY DEF AfterReap
<1> HIDE DEF st
<1> QED  BY <1>2, <1>3, <1>4, ThrowIs

LEMMA AfterOverfullIs ==
    ASSUME IInv
    PROVE  StoreOK(AfterOverfull.map, AfterOverfull.used) /\ GoneOK(AfterOverfull.gone)
<1> DEFINE st == AfterReap
           qs == Overfull(st.map, st.used)
<1>1. StoreOK(st.map, st.used) /\ GoneOK(st.gone)
  BY AfterReapIs
<1>2. qs \in SUBSET Queues(st.map)
  BY DEF Overfull
<1>3. AfterOverfull = IF st.used > HIMEM THEN Throw(st, qs) ELSE st
  BY DEF AfterOverfull
<1> HIDE DEF st, qs
<1> QED  BY <1>1, <1>2, <1>3, ThrowIs

LEMMA MemoryWith ==
    ASSUME NEW S, IsFiniteSet(S), \A q \in S : Size(q) \in Nat,
           NEW r, r \notin S, Size(r) \in Nat
    PROVE  Memory(S \cup {r}) = Size(r) + Memory(S) /\ Memory(S) \in Nat
<1>1. IsFiniteSet(S \cup {r})
  BY FS_AddElement
<1>2. (S \cup {r}) \ {r} = S
  OBVIOUS
<1>3. \A q \in S \cup {r} : Size(q) \in Nat
  OBVIOUS
<1> DEFINE T == S \cup {r}
<1>4. r \in T
  OBVIOUS
<1> HIDE DEF T
<1>5. Memory(T) = Size(r) + Memory(T \ {r})
  BY <1>1, <1>3, <1>4, MemoryOfOne DEF T
<1>6. Memory(S) \in Nat
  BY MemoryOfOne
<1> QED  BY <1>2, <1>5, <1>6 DEF T

\* One bucket is given other queues.
LEMMA BucketIs ==
    ASSUME NEW m, NEW used, StoreOK(m, used), NEW b \in Buckets,
           NEW s \in Seq(QueueSet), OneOfEach(s),
           \A q \in Members(s) : bucketno(q) = b /\ Known(q) /\ ~Done(q)
    PROVE  LET w == [m EXCEPT ![b] = s]
           IN  /\ Queues(w) = (Queues(m) \ Members(m[b])) \cup Members(s)
               /\ StoreOK(w, Memory(Queues(w)))
<1> DEFINE w == [m EXCEPT ![b] = s]
<1>1. /\ m \in [Buckets -> Seq(QueueSet)]
      /\ \A q : q \in Queues(m) <=> \E c \in Buckets : q \in Members(m[c])
  BY StoreFacts
<1>2. w \in [Buckets -> Seq(QueueSet)] /\ w[b] = s /\ \A c \in Buckets \ {b} : w[c] = m[c]
  BY <1>1
<1>3. \A q : q \in Queues(w) <=> \E c \in Buckets : q \in Members(w[c])
  BY <1>2, QueuesAre
<1> HIDE DEF w
<1>4. \A c \in Buckets : \A q \in Members(m[c]) : bucketno(q) = c
  BY DEF StoreOK
<1>5. Queues(w) = (Queues(m) \ Members(m[b])) \cup Members(s)
  <2>1. ASSUME NEW q \in Queues(w)
        PROVE  q \in (Queues(m) \ Members(m[b])) \cup Members(s)
    <3>1. PICK c \in Buckets : q \in Members(w[c])
      BY <1>3
    <3>2. CASE c = b
      BY <1>2, <3>1, <3>2
    <3>3. CASE c # b
      <4>1. q \in Members(m[c])
        BY <1>2, <3>1, <3>3
      <4> QED  BY <1>1, <1>4, <3>3, <4>1
    <3> QED  BY <3>2, <3>3
  <2>2. ASSUME NEW q \in Queues(m), q \notin Members(m[b])
        PROVE  q \in Queues(w)
    <3>1. PICK c \in Buckets : q \in Members(m[c])
      BY <1>1
    <3>2. c # b
      BY <2>2, <3>1
    <3> QED  BY <1>2, <1>3, <3>1, <3>2
  <2>3. Members(s) \subseteq Queues(w)
    BY <1>2, <1>3
  <2> QED  BY <2>1, <2>2, <2>3
<1>6. \A c \in Buckets : OneOfEach(w[c])
  BY <1>2 DEF StoreOK
<1>7. \A c \in Buckets : \A q \in Members(w[c]) : bucketno(q) = c /\ Known(q) /\ ~Done(q)
  BY <1>2 DEF StoreOK
<1> QED  BY <1>2, <1>5, <1>6, <1>7 DEF StoreOK, w

\* Packets of one id are of one datagram.
LEMMA SameDatagram ==
    ASSUME IInv, NEW p \in net, NEW q, Known(q), q.id = p.id
    PROVE  \E d \in Datagrams : Partial(q, d) /\ Piece(p, d)
<1>1. PICK r \in net, d \in Datagrams : q.id = r.id /\ r.body = d.body /\ Partial(q, d)
  BY DEF Known
<1>2. PICK e \in Datagrams : Piece(p, e)
  BY DEF IInv, NetInv
<1>3. p.body = r.body
  BY <1>1 DEF IInv, NetInv
<1>4. e.body = d.body
  BY <1>1, <1>2, <1>3 DEF Piece
<1>5. e = d
  BY <1>4, ReassemblerAssumption
<1> QED  BY <1>1, <1>2, <1>5

\* What a step may put out
OutRight(gone) ==
    \A o \in gone : /\ o.port = 1 => \E d \in Datagrams : PartOf(o, d)
                    /\ o.port = 0 => \E d \in Datagrams : o.data = [k \in 1 .. d.len |-> d.body] /\ o.hl = d.hl

LEMMA JoinedIs ==
    ASSUME IInv, NEW st, StoreOK(st.map, st.used), GoneOK(st.gone),
           NEW q \in Queues(st.map), NEW p \in net, q.id = p.id
    PROVE  LET t == Joined(st, q, p)
           IN  StoreOK(t.map, t.used) /\ OutRight(t.gone)
<1> DEFINE r == Merged(q, p)
           used == st.used + Length(r) - Length(q)
           t == Joined(st, q, p)
           m == st.map
           b == bucketno(p)
<1>1. /\ m \in [Buckets -> Seq(QueueSet)] /\ IsFiniteSet(Queues(m)) /\ st.used = Memory(Queues(m))
      /\ \A x \in Queues(m) : /\ x \in QueueSet /\ Size(x) \in Nat /\ Known(x) /\ ~Done(x)
                              /\ bucketno(x) \in Buckets /\ x \in Members(m[bucketno(x)])
      /\ \A x, y \in Queues(m) : x.id = y.id => x = y
  BY StoreFacts
<1>2. PICK d \in Datagrams : Partial(q, d) /\ Piece(p, d)
  BY <1>1, SameDatagram
<1>3. OutRight(st.gone)
  BY DEF GoneOK, OutRight
<1>4. CASE Completed(q, p)
  <2>1. t = st
    BY <1>4 DEF Joined
  <2> QED  BY <1>3, <2>1
<1>5. CASE ~Completed(q, p)
  <2>1. Partial(r, d) /\ r.id = q.id
    BY <1>2, <1>5, MergedIs
  <2>2. r \in QueueSet /\ Length(r) \in Nat /\ Size(r) = IPH_MEM_USED + Length(r) /\ Size(r) \in Nat
    BY <2>1, QueueType DEF Partial, Size
  <2>3. q \in QueueSet /\ Length(q) \in Nat /\ Size(q) = IPH_MEM_USED + Length(q) /\ Size(q) \in Nat
    BY <1>1, QueueType DEF Size
  <2>4. Memory(Queues(m)) \in Nat /\ Memory(Queues(m)) = Size(q) + Memory(Queues(m) \ {q})
    BY <1>1, MemoryOfOne
  <2>5. b = bucketno(q) /\ b \in Buckets /\ q \in Members(m[b])
    BY <1>1 DEF bucketno
  <2> HIDE DEF r, b
  <2>6. CASE Done(r)
    <3>1. t = Store(Without(m, {p.id}), used - Size(r), st.gone \cup {Emission(r)})
      BY <1>5, <2>6 DEF Joined, r
    <3>2. t.map = Without(m, {p.id}) /\ t.used = used - Size(r) /\ t.gone = st.gone \cup {Emission(r)}
      BY <3>1 DEF Store
    <3>3. {x \in Queues(m) : x.id \in {p.id}} = {q}
      BY <1>1
    <3>4. StoreOK(Without(m, {p.id}), st.used - Memory({x \in Queues(m) : x.id \in {p.id}}))
      <4> DEFINE ids == {p.id}
      <4> HIDE DEF ids, m
      <4>1. StoreOK(m, st.used)
        BY DEF m
      <4>2. StoreOK(Without(m, ids), st.used - Memory({x \in Queues(m) : x.id \in ids}))
        BY <4>1, WithoutIs
      <4> QED  BY <4>2 DEF ids
    <3>5. Memory({q}) = Size(q)
      <4>1. {} \cup {q} = {q}
        OBVIOUS
      <4>2. Memory({} \cup {q}) = Size(q) + Memory({})
        BY <2>3, MemoryWith, FS_EmptySet
      <4>3. Memory({}) = 0
        BY MemoryStep, FS_EmptySet
      <4> QED  BY <2>3, <4>1, <4>2, <4>3
    <3>6. st.used - Memory({q}) = used - Size(r)
      BY <1>1, <2>2, <2>3, <2>4, <3>5 DEF IPH_MEM_USED
    <3>7. r.data = [k \in 1 .. d.len |-> d.body] /\ r.hl = d.hl
      BY <2>1, <2>6, DoneIsWhole
    <3>8. OutRight(t.gone)
      <4> DEFINE e == Emission(r)
      <4>1. e.port = 0 /\ e.data = r.data /\ e.hl = r.hl
        BY DEF Emission
      <4> HIDE DEF t, e
      <4>2. t.gone = st.gone \cup {e}
        BY <3>2 DEF e
      <4>3. e.port # 1 /\ \E c \in Datagrams : e.data = [k \in 1 .. c.len |-> c.body] /\ e.hl = c.hl
        <5>1. e.data = [k \in 1 .. d.len |-> d.body] /\ e.hl = d.hl
          BY <3>7, <4>1, Zenon
        <5> QED  BY <4>1, <5>1
      <4> QED  BY <1>3, <4>2, <4>3, Zenon DEF OutRight
    <3> QED  BY <3>2, <3>3, <3>4, <3>6, <3>8
  <2>7. CASE ~Done(r)
    <3> DEFINE s == [i \in DOMAIN m[b] |-> IF m[b][i] = q THEN r ELSE m[b][i]]
    <3>1. t = Store([m EXCEPT ![b] = s], used, st.gone)
      BY <1>5, <2>7 DEF Joined, r, b
    <3>2. t.map = [m EXCEPT ![b] = s] /\ t.used = used /\ t.gone = st.gone
      BY <3>1 DEF Store
    <3>3. m[b] \in Seq(QueueSet) /\ Len(m[b]) \in Nat /\ DOMAIN m[b] = 1 .. Len(m[b])
      BY <1>1, <2>5
    <3>4. s \in Seq(QueueSet) /\ Len(s) = Len(m[b])
      <4>1. \A i \in 1 .. Len(m[b]) : m[b][i] \in QueueSet
        BY <3>3
      <4>2. s \in [1 .. Len(m[b]) -> QueueSet]
        BY <2>2, <3>3, <4>1
      <4> HIDE DEF s
      <4> QED  BY <3>3, <4>2
    <3>5. \A i \in 1 .. Len(m[b]) : /\ s[i] = IF m[b][i] = q THEN r ELSE m[b][i]
                                    /\ s[i].id = m[b][i].id
      BY <2>1, <3>3
    <3> HIDE DEF s
    <3>6. Members(s) = (Members(m[b]) \ {q}) \cup {r}
      <4>1. PICK i \in 1 .. Len(m[b]) : m[b][i] = q
        BY <2>5 DEF Members
      <4>2. \A j \in 1 .. Len(m[b]) : s[j] \in (Members(m[b]) \ {q}) \cup {r}
        BY <3>5 DEF Members
      <4>3. r \in Members(s)
        BY <3>4, <3>5, <4>1 DEF Members
      <4>4. Members(m[b]) \ {q} \subseteq Members(s)
        BY <3>4, <3>5 DEF Members
      <4> QED  BY <3>4, <4>2, <4>3, <4>4 DEF Members
    <3>7. OneOfEach(s)
      <4>1. OneOfEach(m[b])
        BY <2>5 DEF StoreOK
      <4> QED  BY <3>4, <3>5, <4>1 DEF OneOfEach
    <3>8. \A x \in Members(s) : bucketno(x) = b /\ Known(x) /\ ~Done(x)
      <4>1. \A x \in Members(m[b]) : bucketno(x) = b /\ Known(x) /\ ~Done(x)
        BY <2>5 DEF StoreOK
      <4>2. bucketno(r) = b
        BY <2>1, <2>5 DEF bucketno
      <4>3. Known(r)
        <5>1. p.body = d.body
          BY <1>2 DEF Piece
        <5> QED  BY <2>1, <5>1 DEF Known
      <4> QED  BY <2>7, <3>6, <4>1, <4>2, <4>3
    <3> DEFINE w == [m EXCEPT ![b] = s]
    <3>9. Queues(w) = (Queues(m) \ Members(m[b])) \cup Members(s) /\ StoreOK(w, Memory(Queues(w)))
      <4> HIDE DEF m, w
      <4>1. StoreOK(m, st.used)
        BY DEF m
      <4> QED  BY <2>5, <3>4, <3>7, <3>8, <4>1, BucketIs DEF w
    <3> HIDE DEF w
    <3>10. Queues(w) = (Queues(m) \ {q}) \cup {r}
      <4>1. Members(m[b]) \subseteq Queues(m)
        BY <2>5, StoreFacts
      <4> QED  BY <2>5, <3>6, <3>9, <4>1
    <3>11. r \notin Queues(m) \ {q}
      BY <1>1, <2>1
    <3>12. Memory(Queues(w)) = Size(r) + Memory(Queues(m) \ {q}) /\ Memory(Queues(m) \ {q}) \in Nat
      <4> DEFINE S == Queues(m) \ {q}
      <4>1. IsFiniteSet(S) /\ \A x \in S : Size(x) \in Nat
        BY <1>1, FS_Subset
      <4> HIDE DEF S
      <4>2. r \notin S
        BY <3>11 DEF S
      <4>3. Memory(S \cup {r}) = Size(r) + Memory(S) /\ Memory(S) \in Nat
        BY <2>2, <4>1, <4>2, MemoryWith
      <4> QED  BY <3>10, <4>3 DEF S
    <3>13. Memory(Queues(w)) = used
      BY <1>1, <2>2, <2>3, <2>4, <3>12 DEF IPH_MEM_USED
    <3> QED  BY <1>3, <3>2, <3>9, <3>13 DEF w
  <2> QED  BY <2>6, <2>7
<1> QED  BY <1>4, <1>5

LEMMA BegunIs ==
    ASSUME IInv, NEW st, StoreOK(st.map, st.used), GoneOK(st.gone),
           NEW p \in net, IsFrag(p), \A q \in Queues(st.map) : q.id # p.id
    PROVE  LET t == Begun(st, p)
           IN  StoreOK(t.map, t.used) /\ OutRight(t.gone)
<1> DEFINE q == NewQueue(p)
           t == Begun(st, p)
           m == st.map
           b == bucketno(p)
           s == <<q>> \o m[b]
           w == [m EXCEPT ![b] = s]
<1>1. /\ m \in [Buckets -> Seq(QueueSet)] /\ IsFiniteSet(Queues(m)) /\ st.used = Memory(Queues(m))
      /\ \A x : x \in Queues(m) <=> \E c \in Buckets : x \in Members(m[c])
      /\ \A x \in Queues(m) : Size(x) \in Nat
  BY StoreFacts
<1>2. PICK d \in Datagrams : Piece(p, d)
  BY DEF IInv, NetInv
<1>3. Partial(q, d) /\ ~Done(q) /\ q.id = p.id
  BY <1>2, NewQueueIs DEF IInv
<1>4. q \in QueueSet /\ Size(q) \in Nat /\ b = bucketno(q) /\ b \in Buckets
  BY <1>3, QueueType DEF Partial, bucketno
<1>5. Known(q)
  BY <1>2, <1>3 DEF Known, Piece
<1>6. t.map = w /\ t.used = st.used + Size(q) /\ t.gone = st.gone
  BY DEF Begun, Store
<1> HIDE DEF q, b, t
<1>7. m[b] \in Seq(QueueSet) /\ Len(m[b]) \in Nat
  BY <1>1, <1>4
<1> DEFINE old == m[b]
<1> HIDE DEF old
<1>8. /\ s \in Seq(QueueSet) /\ Len(s) = Len(old) + 1 /\ s[1] = q
      /\ \A i \in 1 .. Len(old) : s[i + 1] = old[i]
  BY <1>4, <1>7 DEF old
<1> HIDE DEF s
<1>9. \A i \in 1 .. Len(s) : i = 1 \/ (i - 1 \in 1 .. Len(old) /\ s[i] = old[i - 1])
  BY <1>7, <1>8 DEF old
<1>10. Members(s) = {q} \cup Members(old)
  <2>1. Members(s) \subseteq {q} \cup Members(old)
    BY <1>8, <1>9 DEF Members
  <2>2. q \in Members(s)
    BY <1>7, <1>8 DEF Members, old
  <2>3. ASSUME NEW x \in Members(old)
        PROVE  x \in Members(s)
    <3>1. PICK i \in 1 .. Len(old) : x = old[i]
      BY DEF Members
    <3>2. i + 1 \in 1 .. Len(s) /\ s[i + 1] = x
      BY <1>7, <1>8, <3>1 DEF old
    <3> QED  BY <3>2 DEF Members
  <2> QED  BY <2>1, <2>2, <2>3
<1>11. Members(old) \subseteq Queues(m)
  BY <1>1, <1>4 DEF old
<1>12. OneOfEach(s)
  <2>1. OneOfEach(old)
    BY <1>4 DEF StoreOK, old
  <2>2. \A i \in 1 .. Len(old) : old[i].id # q.id
    BY <1>3, <1>11 DEF Members
  <2> SUFFICES ASSUME NEW i \in 1 .. Len(s), NEW j \in 1 .. Len(s), s[i].id = s[j].id
               PROVE  i = j
    BY DEF OneOfEach
  <2>3. CASE i = 1 /\ j = 1
    BY <2>3
  <2>4. CASE i = 1 /\ j # 1
    BY <1>8, <1>9, <2>2, <2>4
  <2>5. CASE i # 1 /\ j = 1
    BY <1>8, <1>9, <2>2, <2>5
  <2>6. CASE i # 1 /\ j # 1
    <3>1. /\ i - 1 \in 1 .. Len(old) /\ j - 1 \in 1 .. Len(old)
          /\ old[i - 1].id = old[j - 1].id
      BY <1>9, <2>6
    <3>2. i - 1 = j - 1
      BY <2>1, <3>1 DEF OneOfEach
    <3> QED  BY <3>2
  <2> QED  BY <2>3, <2>4, <2>5, <2>6
<1>13. \A x \in Members(s) : bucketno(x) = b /\ Known(x) /\ ~Done(x)
  BY <1>3, <1>4, <1>5, <1>10 DEF StoreOK, old
<1>14. Queues(w) = (Queues(m) \ Members(m[b])) \cup Members(s) /\ StoreOK(w, Memory(Queues(w)))
  <2> HIDE DEF m, w
  <2>1. StoreOK(m, st.used)
    BY DEF m
  <2> QED  BY <1>4, <1>8, <1>12, <1>13, <2>1, BucketIs DEF w
<1> HIDE DEF w
<1>15. Queues(w) = Queues(m) \cup {q}
  BY <1>10, <1>11, <1>14 DEF old
<1>16. q \notin Queues(m)
  BY <1>3
<1>17. Memory(Queues(w)) = st.used + Size(q)
  <2> DEFINE S == Queues(m)
  <2> HIDE DEF S
  <2>1. Memory(S \cup {q}) = Size(q) + Memory(S) /\ Memory(S) \in Nat
    BY <1>1, <1>4, <1>16, MemoryWith DEF S
  <2> QED  BY <1>1, <1>4, <1>15, <2>1 DEF S
<1>18. OutRight(st.gone)
  BY DEF GoneOK, OutRight
<1> QED  BY <1>6, <1>14, <1>17, <1>18 DEF t
----------------------------------------------------------------------------
\* One lemma for each action
LEMMA Leaving ==
    ASSUME IInv, NEW st, StoreOK(st.map, st.used), OutRight(st.gone), Leaves(st),
           UNCHANGED <<net, now>>, reap_time' \in Nat
    PROVE  IInv'
<1>1. NetInv' /\ now' \in Nat
  BY DEF IInv, NetInv, Piece, Packet
<1>2. StoreOK(map, mem_used)'
  <2>1. \A q : Known(q)' <=> Known(q)
    BY DEF Known
  <2> QED  BY <2>1 DEF Leaves, StoreOK
<1>3. EmittedAsSent'
  BY DEF EmittedAsSent, Leaves, OutRight
<1>4. PartialAsReceived'
  BY DEF PartialAsReceived, Leaves, OutRight, PartOf
<1> QED  BY <1>1, <1>2, <1>3, <1>4 DEF IInv

LEMMA ArrivalTime ==
    ASSUME IInv, NEW p, Arrives(p)
    PROVE  UNCHANGED <<net, now>> /\ reap_time' \in Nat
BY DEF IInv, Arrives, REAP_INTERVAL

LEMMA KeepKeeps ==
    ASSUME IInv, NEW p \in net, Keep(p)
    PROVE  IInv'
<1> DEFINE st == AfterOverfull
           has == {q \in Queues(st.map) : q.id = p.id}
<1>1. StoreOK(st.map, st.used) /\ GoneOK(st.gone)
  BY AfterOverfullIs
<1>2. Arrives(p) /\ IsFrag(p)
  BY DEF Keep, Arrives
<1>3. IF \E q \in Queues(st.map) : q.id = p.id
      THEN Leaves(Joined(st, CHOOSE q \in Queues(st.map) : q.id = p.id, p))
      ELSE Leaves(Begun(st, p))
  BY DEF Keep
<1>4. UNCHANGED <<net, now>> /\ reap_time' \in Nat
  BY <1>2, ArrivalTime
<1> HIDE DEF st
<1>5. CASE \E q \in Queues(st.map) : q.id = p.id
  <2> DEFINE q == CHOOSE q \in Queues(st.map) : q.id = p.id
             t == Joined(st, q, p)
  <2>1. q \in Queues(st.map) /\ q.id = p.id
    BY <1>5
  <2> HIDE DEF q
  <2>2. StoreOK(t.map, t.used) /\ OutRight(t.gone)
    BY <1>1, <2>1, JoinedIs
  <2>3. Leaves(t)
    BY <1>3, <1>5 DEF q
  <2> HIDE DEF t
  <2> QED  BY <1>4, <2>2, <2>3, Leaving
<1>6. CASE ~\E q \in Queues(st.map) : q.id = p.id
  <2> DEFINE t == Begun(st, p)
  <2>1. StoreOK(t.map, t.used) /\ OutRight(t.gone)
    BY <1>1, <1>2, <1>6, BegunIs
  <2>2. Leaves(t)
    BY <1>3, <1>6
  <2> HIDE DEF t
  <2> QED  BY <1>4, <2>1, <2>2, Leaving
<1> QED  BY <1>5, <1>6

LEMMA RefuseBadKeeps ==
    ASSUME IInv, NEW p \in net, RefuseBad(p)
    PROVE  IInv'
<1> DEFINE st == AfterReap
<1>1. StoreOK(st.map, st.used) /\ GoneOK(st.gone)
  BY AfterReapIs
<1>2. Leaves(st) /\ UNCHANGED <<net, now>> /\ reap_time' \in Nat
  BY ArrivalTime DEF RefuseBad
<1>3. OutRight(st.gone)
  BY <1>1 DEF GoneOK, OutRight
<1> HIDE DEF st
<1> QED  BY <1>1, <1>2, <1>3, Leaving

LEMMA KeepNoMemoryKeeps ==
    ASSUME IInv, NEW p \in net, KeepNoMemory(p)
    PROVE  IInv'
<1> DEFINE st == AfterOverfull
           ids == {p.id}
           qs == {q \in Queues(st.map) : q.id = p.id}
           t == Store(Without(st.map, ids), st.used - MapThenSumSet(Size, qs), st.gone)
<1>1. StoreOK(st.map, st.used) /\ GoneOK(st.gone)
  BY AfterOverfullIs
<1>2. Leaves(t) /\ Arrives(p)
  BY DEF KeepNoMemory
<1>3. UNCHANGED <<net, now>> /\ reap_time' \in Nat
  BY <1>2, ArrivalTime
<1> HIDE DEF st
<1>4. qs = {q \in Queues(st.map) : q.id \in ids}
  OBVIOUS
<1>5. t.map = Without(st.map, ids) /\ t.used = st.used - Memory(qs) /\ t.gone = st.gone
  BY DEF Store, Memory
<1> HIDE DEF ids, t
<1>6. StoreOK(t.map, t.used)
  <2>1. StoreOK(Without(st.map, ids), st.used - Memory({q \in Queues(st.map) : q.id \in ids}))
    BY <1>1, WithoutIs
  <2> QED  BY <1>4, <1>5, <2>1
<1>7. OutRight(t.gone)
  BY <1>1, <1>5 DEF GoneOK, OutRight
<1> QED  BY <1>2, <1>3, <1>6, <1>7, Leaving

LEMMA PassWholeKeeps ==
    ASSUME IInv, NEW p \in net, PassWhole(p)
    PROVE  IInv'
<1> DEFINE st == Store(map, mem_used, {Whole(p)})
<1>1. st.map = map /\ st.used = mem_used /\ st.gone = {Whole(p)}
  BY DEF Store
<1>2. StoreOK(st.map, st.used)
  BY <1>1 DEF IInv
<1>3. PICK d \in Datagrams : Piece(p, d)
  BY DEF IInv, NetInv
<1>4. p.len = d.len /\ p.hl = d.hl /\ p.body = d.body
  <2>1. p.off = 0 /\ ~p.mf
    BY DEF PassWhole, IsFrag
  <2>2. p.len \in Nat /\ d.len \in Nat
    BY <1>3, PieceType
  <2> QED  BY <1>3, <2>1, <2>2 DEF Piece
<1>5. OutRight({Whole(p)})
  BY <1>4 DEF OutRight, Whole
<1>6. Leaves(st) /\ UNCHANGED <<net, now>> /\ reap_time' \in Nat
  BY <1>1 DEF PassWhole, Leaves, IInv
<1>7. OutRight(st.gone)
  BY <1>1, <1>5
<1> HIDE DEF st
<1> QED  BY <1>2, <1>6, <1>7, Leaving

\* What a fragmenter makes of a piece are pieces of the same datagram.
LEMMA FragmentsArePieces ==
    ASSUME NEW d \in Datagrams, NEW p, Piece(p, d), NEW path \in Mtus, NEW id \in Nat,
           ~Fits(p, path.mtu), ~Dropped(p, path.mtu, path.honor_df),
           NEW f \in Fragments(p, path.mtu, id)
    PROVE  Piece(f, d) /\ f.id = id
<1> DEFINE mtu == path.mtu
           first == FirstDlen(p, mtu)
           step == OutDlen(mtu)
<1>1. /\ p \in Packet /\ p.hl \in Nat /\ p.hl >= 20 /\ p.len \in Nat /\ p.len >= 1 /\ p.off \in Nat
      /\ p.off + p.len <= d.len /\ p.body = d.body /\ p.mf \in BOOLEAN /\ d.len \in Nat
      /\ (p.mf <=> p.off + p.len < d.len) /\ (p.off = 0 => p.hl = d.hl)
      /\ p.body \in {e.body : e \in Datagrams} /\ p.opt \in OptKinds
  <2>1. p \in Packet
    BY DEF Piece
  <2>2. p.body \in {e.body : e \in Datagrams} /\ p.opt \in OptKinds
    BY <2>1 DEF Packet
  <2> QED  BY <2>1, <2>2, PieceType DEF Piece, IP_HEADER
<1>2. mtu \in Nat
  BY ReassemblerAssumption
<1>3. first \in Int /\ first >= 1 /\ 8 * first <= mtu - p.hl /\ mtu < p.hl + 8 * p.len
  <2>1. p.hl + 8 * p.len > mtu
    BY <1>1, <1>2 DEF Fits
  <2>2. first >= 1
    BY <1>1, <1>2 DEF Dropped, FirstDlen
  <2>3. first \in Int /\ 8 * first <= mtu - p.hl
    BY <1>1, <1>2 DEF FirstDlen
  <2> QED  BY <1>1, <1>2, <2>1, <2>2, <2>3
<1>4. first < p.len /\ step \in Nat /\ step >= 1
  <2>1. first < p.len
    BY <1>1, <1>2, <1>3
  <2>2. mtu - 20 \in Nat /\ mtu - 20 >= 8
    BY <1>1, <1>2, <1>3
  <2> QED  BY <2>1, <2>2 DEF OutDlen, IP_HEADER
<1> HIDE DEF mtu, first, step
<1>5. CASE f = FirstFragment(p, mtu, id)
  <2>1. f = [p EXCEPT !.id = id, !.df = FALSE, !.mf = TRUE, !.len = first]
    BY <1>5 DEF FirstFragment, first
  <2>2. /\ f \in Packet /\ f.id = id /\ f.off = p.off /\ f.len = first /\ f.mf /\ f.hl = p.hl /\ f.body = p.body
    <3>1. first \in Nat \ {0}
      BY <1>3
    <3> QED  BY <1>1, <2>1, <3>1 DEF Packet
  <2> QED  BY <1>1, <1>3, <1>4, <2>2 DEF Piece, IP_HEADER
<1>6. ASSUME NEW off \in first .. p.len - 1, f = NextFragment(p, mtu, id, off)
      PROVE  Piece(f, d) /\ f.id = id
  <2> DEFINE n == IF off + step > p.len THEN p.len - off ELSE step
             mf == p.mf \/ off + n < p.len
  <2>1. f = [p EXCEPT !.id = id, !.df = FALSE, !.off = @ + off, !.len = n,
                      !.mf = mf, !.hl = IP_HEADER, !.opt = "none"]
    BY <1>6 DEF NextFragment, step
  <2>2. n \in Nat \ {0} /\ off + n <= p.len /\ off \in Nat /\ off >= 1
    BY <1>1, <1>3, <1>4, <1>6
  <2>3. mf \in BOOLEAN /\ (mf <=> p.off + off + n < d.len)
    BY <1>1, <2>2
  <2> HIDE DEF n, mf
  <2>4. /\ f \in Packet /\ f.id = id /\ f.off = p.off + off /\ f.len = n /\ f.mf = mf
        /\ f.hl = IP_HEADER /\ f.body = p.body
    <3>1. p.off + off \in Nat /\ IP_HEADER \in Nat /\ "none" \in OptKinds
      BY <1>1, <2>2 DEF IP_HEADER, OptKinds
    <3> QED  BY <1>1, <2>1, <2>2, <2>3, <3>1 DEF Packet
  <2> QED  BY <1>1, <2>2, <2>3, <2>4 DEF Piece, IP_HEADER
<1>7. f = FirstFragment(p, mtu, id) \/ \E off \in first .. p.len - 1 : f = NextFragment(p, mtu, id, off)
  BY DEF Fragments, mtu, first
<1> QED  BY <1>5, <1>6, <1>7

LEMMA FragmentKeeps ==
    ASSUME IInv, NEW p \in net, NEW path \in Mtus, Fragment(p, path)
    PROVE  IInv'
<1>1. PICK d \in Datagrams : Piece(p, d)
  BY DEF IInv, NetInv
<1>2. PICK id \in (IF p.df THEN FreshIds ELSE {p.id}) :
          /\ p.df => \A r \in net : r.id # id
          /\ net' = net \cup Fragments(p, path.mtu, id)
  BY DEF Fragment
<1>3. id \in Nat /\ (id = p.id \/ \A r \in net : r.id # id)
  BY <1>1, <1>2, PieceType, ReassemblerAssumption
<1>4. \A f \in Fragments(p, path.mtu, id) : Piece(f, d) /\ f.id = id
  BY <1>1, <1>3, FragmentsArePieces DEF Fragment
<1> DEFINE new == Fragments(p, path.mtu, id)
<1> HIDE DEF new
<1>5. net' = net \cup new /\ \A f \in new : Piece(f, d) /\ f.id = id /\ f.body = p.body
  BY <1>1, <1>2, <1>4 DEF new, Piece
<1>6. NetInv'
  <2>1. \A r \in net' : \E e \in Datagrams : Piece(r, e)
    BY <1>5 DEF IInv, NetInv
  <2>2. \A f, r \in net' : f.id = r.id => f.body = r.body
    BY <1>3, <1>5 DEF IInv, NetInv
  <2> QED  BY <2>1, <2>2 DEF NetInv
<1>7. UNCHANGED <<map, reap_time, mem_used, now>> /\ out' = {}
  BY DEF Fragment
<1>8. StoreOK(map, mem_used)'
  <2>1. \A q : Known(q) => Known(q)'
    BY <1>5 DEF Known
  <2> QED  BY <1>7, <2>1 DEF IInv, StoreOK
<1> QED  BY <1>6, <1>7, <1>8 DEF IInv, EmittedAsSent, PartialAsReceived

LEMMA TickKeeps ==
    ASSUME IInv, Tick
    PROVE  IInv'
<1>1. UNCHANGED <<net, map, reap_time, mem_used>> /\ out' = {}
  BY DEF Tick
<1>2. now' \in Nat
  BY ReassemblerAssumption DEF Tick, IInv
<1>3. NetInv'
  BY <1>1 DEF IInv, NetInv
<1>4. StoreOK(map, mem_used)'
  <2>1. \A q : Known(q) => Known(q)'
    BY <1>1 DEF Known
  <2> QED  BY <1>1, <2>1 DEF IInv, StoreOK
<1> QED  BY <1>1, <1>2, <1>3, <1>4 DEF IInv, EmittedAsSent, PartialAsReceived

LEMMA Initially == Init => IInv
<1> SUFFICES ASSUME Init
             PROVE  IInv
  OBVIOUS
<1>1. /\ net = Datagrams /\ map = [b \in Buckets |-> <<>>] /\ mem_used = 0
      /\ now = Start /\ reap_time = 0 /\ out = {}
  BY DEF Init
<1>2. NetInv
  <2>1. ASSUME NEW d \in Datagrams
        PROVE  Piece(d, d)
    <3>1. d \in Datagram
      BY ReassemblerAssumption
    <3>2. /\ d \in Packet /\ d.hl \in IP_HEADER .. 60 /\ d.off = 0 /\ d.mf = FALSE /\ d.len \in Nat
      <4>1. /\ d.id \in Nat /\ d.body \in {e.body : e \in Datagrams} /\ d.off = 0 /\ d.len \in Nat \ {0}
            /\ d.mf = FALSE /\ d.df \in BOOLEAN /\ d.hl \in IP_HEADER .. 60 /\ d.opt \in OptKinds
        BY <3>1 DEF Datagram
      <4>2. d = [id |-> d.id, body |-> d.body, off |-> d.off, len |-> d.len, mf |-> d.mf,
                 df |-> d.df, hl |-> d.hl, opt |-> d.opt]
        BY <3>1 DEF Datagram
      <4>3. d.hl \in Nat /\ d.off \in Nat /\ d.mf \in BOOLEAN
        <5>1. d.mf \in BOOLEAN
          BY <4>1, Zenon
        <5>2. d.off \in Nat
          BY <4>1
        <5> QED  BY <5>1, <5>2, DatagramType
      <4>4. d \in Packet
        BY <4>1, <4>2, <4>3 DEF Packet
      <4> QED  BY <4>1, <4>4
    <3> QED  BY <3>2 DEF Piece, IP_HEADER
  <2>2. \A d, e \in Datagrams : d.id = e.id => d.body = e.body
    BY ReassemblerAssumption
  <2> QED  BY <1>1, <2>1, <2>2 DEF NetInv
<1>3. StoreOK(map, mem_used)
  <2>1. map \in [Buckets -> Seq(QueueSet)] /\ \A b \in Buckets : map[b] = <<>>
    BY <1>1
  <2>2. \A b \in Buckets : Members(map[b]) = {} /\ OneOfEach(map[b])
    BY <2>1 DEF Members, OneOfEach
  <2>3. Queues(map) = {}
    BY <2>1, <2>2, QueuesAre
  <2>4. Memory(Queues(map)) = 0
    BY <2>3, MemoryStep, FS_EmptySet
  <2> QED  BY <1>1, <2>1, <2>2, <2>4 DEF StoreOK
<1>4. now \in Nat /\ reap_time \in Nat
  BY <1>1, ReassemblerAssumption
<1> QED  BY <1>1, <1>2, <1>3, <1>4 DEF IInv, EmittedAsSent, PartialAsReceived

\* The packets on the network, the queues, the memory and what left the element
\* fit each other in every reachable state (see IInv).
THEOREM Invariance == Spec => []IInv
<1>1. IInv /\ [Next]_vars => IInv'
  <2> SUFFICES ASSUME IInv, [Next]_vars
               PROVE  IInv'
    OBVIOUS
  <2>1. CASE Next
    BY <2>1, PassWholeKeeps, RefuseBadKeeps, KeepKeeps, KeepNoMemoryKeeps, FragmentKeeps, TickKeeps DEF Next
  <2>2. CASE UNCHANGED vars
    <3>1. UNCHANGED <<net, map, reap_time, mem_used, now, out>>
      BY <2>2 DEF vars
    <3>2. \A q : Known(q) => Known(q)'
      BY <3>1 DEF Known
    <3>3. StoreOK(map, mem_used)'
      BY <3>1, <3>2 DEF IInv, StoreOK
    <3> QED  BY <3>1, <3>3 DEF IInv, NetInv, EmittedAsSent, PartialAsReceived
  <2> QED  BY <2>1, <2>2
<1> QED  BY <1>1, Initially, PTL DEF Spec
----------------------------------------------------------------------------
\* What leaves by output 0 is a datagram as it was sent, however it was cut up,
\* reordered, repeated, and whatever was thrown away (ipreassembler.hh:19-22).
THEOREM EmittedWhole == Spec => []EmittedAsSent
BY Invariance, PTL DEF IInv

\* What is given up holds all that came of one incomplete datagram, at its proper
\* offsets (ipreassembler.hh:25-27).
THEOREM PartialIsSound == Spec => []PartialAsReceived
BY Invariance, PTL DEF IInv

\* A queue that holds its whole datagram is not kept waiting (ipreassembler.cc:344-348).
THEOREM NothingWhole == Spec => []WholeIsEmitted
<1>1. IInv => WholeIsEmitted
  <2> SUFFICES ASSUME IInv, NEW q \in Queues(map), NEW d \in Datagrams,
                      q.seen = 1 .. d.len, q.data[1] = d.body
               PROVE  FALSE
    BY DEF WholeIsEmitted
  <2>1. Known(q) /\ ~Done(q)
    BY StoreFacts DEF IInv
  <2>2. PICK e \in Datagrams : Partial(q, e)
    BY <2>1 DEF Known
  <2>3. 1 \in 1 .. d.len /\ 1 \in 1 .. Length(q)
    BY <2>2, DatagramType DEF Partial
  <2>4. q.data[1] = e.body
    BY <2>2, <2>3 DEF Partial
  <2>5. e = d
    BY <2>4, ReassemblerAssumption
  <2> QED  BY <2>1, <2>2, <2>5, WholeIsDone
<1> QED  BY <1>1, Invariance, PTL

\* check() finds nothing to report (ipreassembler.cc:95-137), and the chunks say
\* exactly which blocks came (ipreassembler.cc:303-320).
THEOREM StoreIsSound == Spec => []CheckPasses
<1>1. IInv => CheckPasses
  <2> SUFFICES ASSUME IInv
               PROVE  CheckPasses
    OBVIOUS
  <2>1. StoreOK(map, mem_used)
    BY DEF IInv
  <2>2. map \in [Buckets -> Seq(QueueSet)]
    BY <2>1 DEF StoreOK
  <2>3. ASSUME NEW b \in Buckets
        PROVE  DOMAIN map[b] = 1 .. Len(map[b]) /\ Members(map[b]) = {map[b][i] : i \in DOMAIN map[b]}
    BY <2>2 DEF Members
  <2>4. ASSUME NEW q \in Queues(map)
        PROVE  \E d \in Datagrams : Partial(q, d)
    BY <2>1, StoreFacts DEF Known
  <2>5. mem_used = MapThenSumSet(Size, Queues(map))
    BY <2>1 DEF StoreOK, Memory
  <2>6. \A b \in Buckets : \A i, j \in DOMAIN map[b] : map[b][i].id = map[b][j].id => i = j
    BY <2>1, <2>3 DEF StoreOK, OneOfEach
  <2>7. ASSUME NEW q \in Queues(map)
        PROVE  /\ q.chunks[Len(q.chunks)].lastoff = Length(q)
               /\ \A i \in DOMAIN q.chunks : q.chunks[i].off < q.chunks[i].lastoff
               /\ \A i \in 1 .. Len(q.chunks) - 1 : q.chunks[i].lastoff < q.chunks[i + 1].off
    <3>1. PICK d \in Datagrams : Partial(q, d)
      BY <2>4
    <3>2. q.chunks \in Seq(ChunkSet) /\ DOMAIN q.chunks = 1 .. Len(q.chunks) /\ Len(q.chunks) \in Nat
      BY <3>1, QueueType DEF Partial
    <3> QED  BY <3>1, <3>2 DEF Partial, Apart, Filled
  <2>8. ASSUME NEW b \in Buckets, NEW q \in {map[b][i] : i \in DOMAIN map[b]}
        PROVE  bucketno(q) = b /\ q \in Queues(map)
    <3>1. q \in Members(map[b])
      BY <2>3
    <3> QED  BY <2>1, <3>1, StoreFacts DEF StoreOK
  <2>9. CheckWouldPass
    BY <2>5, <2>6, <2>7, <2>8 DEF CheckWouldPass
  <2>10. ASSUME NEW q \in Queues(map)
         PROVE  /\ UNION {c.off + 1 .. c.lastoff : c \in {q.chunks[i] : i \in DOMAIN q.chunks}} = q.seen
                /\ \A k \in DOMAIN q.data : q.data[k] = Garbage <=> k \notin q.seen
    <3>1. PICK d \in Datagrams : Partial(q, d)
      BY <2>4
    <3>2. /\ q.chunks \in Seq(ChunkSet) /\ DOMAIN q.chunks = 1 .. Len(q.chunks)
          /\ q.data \in Seq(Contents) /\ DOMAIN q.data = 1 .. Length(q) /\ Length(q) \in Nat
      BY <3>1, QueueType DEF Partial, Length
    <3>3. \A i \in 1 .. Len(q.chunks) : q.chunks[i].off \in Nat /\ q.chunks[i].lastoff \in Nat
      <4>1. \A i \in 1 .. Len(q.chunks) : q.chunks[i] \in ChunkSet
        BY <3>2
      <4> QED  BY <4>1 DEF ChunkSet
    <3>4. \A k \in Nat : Covers(q.chunks, k) <=> k \in q.seen
      BY <3>1 DEF Partial
    <3>5. q.seen \subseteq Nat
      BY <3>1, <3>2 DEF Partial
    <3> DEFINE U == UNION {c.off + 1 .. c.lastoff : c \in {q.chunks[i] : i \in DOMAIN q.chunks}}
    <3>6. \A k : k \in U <=> \E i \in 1 .. Len(q.chunks) : k \in q.chunks[i].off + 1 .. q.chunks[i].lastoff
      BY <3>2
    <3> HIDE DEF U
    <3>7. ASSUME NEW k \in U
          PROVE  k \in q.seen
      BY <3>3, <3>4, <3>6 DEF Covers
    <3>8. ASSUME NEW k \in q.seen
          PROVE  k \in U
      BY <3>3, <3>4, <3>5, <3>6 DEF Covers
    <3>9. U = q.seen
      BY <3>7, <3>8
    <3>10. \A k \in DOMAIN q.data : q.data[k] = Garbage <=> k \notin q.seen
      BY <3>1, <3>2, DatagramType DEF Partial
    <3> QED  BY <3>9, <3>10 DEF U
  <2>11. ChunksReceived
    BY <2>10 DEF ChunksReceived
  <2> QED  BY <2>9, <2>11 DEF CheckPasses
<1> QED  BY <1>1, Invariance, PTL
=============================================================================
