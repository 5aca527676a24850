----------------------------- MODULE IPRw_proofs ----------------------------
(***************************************************************************)
(* The map of the rewriters leads to live pairs, replies come back, and a  *)
(* refusal is explained, for any packets, configurations and patterns.     *)
(* The invariant says of each entry of _map whose flow it is, and of each  *)
(* pair which entries are its own: a flow that enters is in nobody's way,  *)
(* as the element has just looked it and its reply up.                     *)
(***************************************************************************)
EXTENDS IPRw, FiniteSetTheorems, SequenceTheorems, TLAPS

\* The kinds of values; a pair is spelled out, its flows can be anything
TypeInv ==
    /\ config \in Configs
    /\ map = [f \in DOMAIN map |-> map[f]]
    /\ DOMAIN pairs \subseteq 1 .. MaxPairs
    /\ pairs = [n \in DOMAIN pairs |->
                  [in |-> pairs[n].in, out |-> pairs[n].out, pat |-> pairs[n].pat,
                   used |-> [forward |-> pairs[n].used.forward, reverse |-> pairs[n].used.reverse]]]
    /\ last_pattern \in [Inputs -> Nat]
    /\ next \in [Patterns(config) -> Nat]
    /\ \A pat \in Patterns(config) : next[pat] <= pat.top + 1

\* An entry of the map leads to a pair of which its flow is one of the two
MapInv ==
    \A f \in DOMAIN map :
       /\ map[f].pair \in DOMAIN pairs /\ map[f].dir \in {"forward", "reverse"}
       /\ map[f] = [pair |-> map[f].pair, dir |-> map[f].dir]
       /\ map[f].dir = "forward" => f = pairs[map[f].pair].in
       /\ map[f].dir = "reverse" => f = Rev(pairs[map[f].pair].out)

\* Made from ranges alone, a pair has its two flows to itself
Ranged == AllVaried /\ NoneKept
PairInv ==
    Ranged => \A n \in DOMAIN pairs :
       /\ pairs[n].in \in DOMAIN map /\ Rev(pairs[n].out) \in DOMAIN map
       /\ map[Rev(pairs[n].out)] = [pair |-> n, dir |-> "reverse"]
       /\ pairs[n].in # Rev(pairs[n].out) => map[pairs[n].in] = [pair |-> n, dir |-> "forward"]

IInv == TypeInv /\ MapInv /\ PairInv /\ DropsExplained
----------------------------------------------------------------------------
\* There is a number for a new pair.
LEMMA NewPairIsFree ==
    ASSUME DOMAIN pairs \subseteq 1 .. MaxPairs, Cardinality(DOMAIN pairs) < MaxPairs
    PROVE  NewPair \in 1 .. MaxPairs /\ NewPair \notin DOMAIN pairs
<1>1. Cardinality(1 .. MaxPairs) = MaxPairs
  BY FS_Interval, RwAssumption
<1>2. DOMAIN pairs # 1 .. MaxPairs
  BY <1>1, RwAssumption
<1> QED  BY <1>2 DEF NewPair

\* What Enter changes: the pairs and the map have one pair more.
LEMMA Entered ==
    ASSUME TypeInv, NEW in, NEW out, NEW pat, Enter(in, out, pat)
    PROVE  /\ NewPair \in 1 .. MaxPairs /\ NewPair \notin DOMAIN pairs
           /\ DOMAIN pairs' = DOMAIN pairs \cup {NewPair}
           /\ \A n \in DOMAIN pairs : pairs'[n] = pairs[n]
           /\ pairs'[NewPair].in = in /\ pairs'[NewPair].out = out
           /\ pairs' = [n \in DOMAIN pairs' |->
                [in |-> pairs'[n].in, out |-> pairs'[n].out, pat |-> pairs'[n].pat,
                 used |-> [forward |-> pairs'[n].used.forward, reverse |-> pairs'[n].used.reverse]]]
           /\ DOMAIN map' = DOMAIN map \cup {in, Rev(out)}
           /\ map' = [f \in DOMAIN map' |-> map'[f]]
           /\ map'[Rev(out)] = [pair |-> NewPair, dir |-> "reverse"]
           /\ in # Rev(out) => map'[in] = [pair |-> NewPair, dir |-> "forward"]
           /\ \A f \in DOMAIN map \ {in, Rev(out)} : map'[f] = map[f]
<1> DEFINE new == NewPair
<1>1. new \in 1 .. MaxPairs /\ new \notin DOMAIN pairs
  BY NewPairIsFree DEF Enter, TypeInv
<1>2. PICK garbage \in BOOLEAN :
         pairs' = [n \in DOMAIN pairs \cup {new} |->
                     IF n = new THEN [in |-> in, out |-> out, pat |-> pat,
                                      used |-> [forward |-> late, reverse |-> garbage]]
                     ELSE pairs[n]]
  BY DEF Enter
<1>3. map' = [f \in DOMAIN map \cup {in, Rev(out)} |->
                 IF f = Rev(out) THEN [pair |-> new, dir |-> "reverse"]
                 ELSE IF f = in THEN [pair |-> new, dir |-> "forward"] ELSE map[f]]
  BY DEF Enter
<1> HIDE DEF new
<1>4. DOMAIN pairs' = DOMAIN pairs \cup {new}
  BY <1>2
<1>5. /\ \A n \in DOMAIN pairs : pairs'[n] = pairs[n]
      /\ pairs'[new] = [in |-> in, out |-> out, pat |-> pat,
                        used |-> [forward |-> late, reverse |-> garbage]]
  BY <1>1, <1>2
<1>6. \A n \in DOMAIN pairs' :
         pairs'[n] = [in |-> pairs'[n].in, out |-> pairs'[n].out, pat |-> pairs'[n].pat,
                      used |-> [forward |-> pairs'[n].used.forward, reverse |-> pairs'[n].used.reverse]]
  <2>1. ASSUME NEW n \in DOMAIN pairs
        PROVE  pairs[n] = [in |-> pairs[n].in, out |-> pairs[n].out, pat |-> pairs[n].pat,
                      used |-> [forward |-> pairs[n].used.forward, reverse |-> pairs[n].used.reverse]]
    BY Zenon DEF TypeInv
  <2> QED  BY <1>4, <1>5, <2>1
<1>7. pairs' = [n \in DOMAIN pairs' |-> pairs'[n]]
  BY <1>2, <1>4
<1>8. DOMAIN map' = DOMAIN map \cup {in, Rev(out)}
  BY <1>3
<1>9. /\ map'[Rev(out)] = [pair |-> new, dir |-> "reverse"]
      /\ in # Rev(out) => map'[in] = [pair |-> new, dir |-> "forward"]
      /\ \A f \in DOMAIN map \ {in, Rev(out)} : map'[f] = map[f]
      /\ map' = [f \in DOMAIN map' |-> map'[f]]
  BY <1>3
<1>10. pairs' = [n \in DOMAIN pairs' |->
                  [in |-> pairs'[n].in, out |-> pairs'[n].out, pat |-> pairs'[n].pat,
                   used |-> [forward |-> pairs'[n].used.forward, reverse |-> pairs'[n].used.reverse]]]
  BY <1>6, <1>7
<1> QED  BY <1>1, <1>4, <1>5, <1>8, <1>9, <1>10 DEF new

\* Whatever enters, each entry of the map still leads to a pair of its flow.
LEMMA EnterKeepsMap ==
    ASSUME TypeInv, MapInv, NEW in, NEW out, NEW pat, Enter(in, out, pat)
    PROVE  MapInv'
<1> DEFINE new == NewPair
<1>1. /\ new \notin DOMAIN pairs
      /\ DOMAIN pairs' = DOMAIN pairs \cup {new}
      /\ \A n \in DOMAIN pairs : pairs'[n] = pairs[n]
      /\ pairs'[new].in = in /\ pairs'[new].out = out
      /\ DOMAIN map' = DOMAIN map \cup {in, Rev(out)}
      /\ map'[Rev(out)] = [pair |-> new, dir |-> "reverse"]
      /\ in # Rev(out) => map'[in] = [pair |-> new, dir |-> "forward"]
      /\ \A f \in DOMAIN map \ {in, Rev(out)} : map'[f] = map[f]
  BY Entered
<1> HIDE DEF new
<1>2. SUFFICES ASSUME NEW f \in DOMAIN map'
               PROVE  /\ map'[f].pair \in DOMAIN pairs' /\ map'[f].dir \in {"forward", "reverse"}
                      /\ map'[f] = [pair |-> map'[f].pair, dir |-> map'[f].dir]
                      /\ map'[f].dir = "forward" => f = pairs'[map'[f].pair].in
                      /\ map'[f].dir = "reverse" => f = Rev(pairs'[map'[f].pair].out)
  BY DEF MapInv, Rev
<1>3. CASE f = Rev(out)
  BY <1>1, <1>3
<1>4. CASE f = in /\ in # Rev(out)
  BY <1>1, <1>4
<1>5. CASE f \in DOMAIN map \ {in, Rev(out)}
  <2>1. map'[f] = map[f] /\ pairs'[map[f].pair] = pairs[map[f].pair] /\ map[f].pair \in DOMAIN pairs'
    BY <1>1, <1>5 DEF MapInv
  <2> QED  BY <1>5, <2>1 DEF MapInv
<1> QED  BY <1>1, <1>3, <1>4, <1>5

\* A flow that is new, with a reply that is new, takes no entry from another pair.
LEMMA EnterKeepsPairs ==
    ASSUME TypeInv, PairInv, NEW in, NEW out, NEW pat, Enter(in, out, pat), UNCHANGED config,
           Ranged => in \notin DOMAIN map /\ Rev(out) \notin DOMAIN map
    PROVE  PairInv'
<1> DEFINE new == NewPair
<1>1. /\ new \notin DOMAIN pairs
      /\ DOMAIN pairs' = DOMAIN pairs \cup {new}
      /\ \A n \in DOMAIN pairs : pairs'[n] = pairs[n]
      /\ pairs'[new].in = in /\ pairs'[new].out = out
      /\ DOMAIN map' = DOMAIN map \cup {in, Rev(out)}
      /\ map'[Rev(out)] = [pair |-> new, dir |-> "reverse"]
      /\ in # Rev(out) => map'[in] = [pair |-> new, dir |-> "forward"]
      /\ \A f \in DOMAIN map \ {in, Rev(out)} : map'[f] = map[f]
  BY Entered
<1> HIDE DEF new
<1>2. Ranged' = Ranged
  BY DEF Ranged, AllVaried, NoneKept, Inputs
<1>3. SUFFICES ASSUME Ranged, NEW n \in DOMAIN pairs'
               PROVE  /\ pairs'[n].in \in DOMAIN map' /\ Rev(pairs'[n].out) \in DOMAIN map'
                      /\ map'[Rev(pairs'[n].out)] = [pair |-> n, dir |-> "reverse"]
                      /\ pairs'[n].in # Rev(pairs'[n].out) =>
                            map'[pairs'[n].in] = [pair |-> n, dir |-> "forward"]
  BY <1>2 DEF PairInv, Rev
<1>4. CASE n = new
  BY <1>1, <1>4
<1>5. CASE n \in DOMAIN pairs
  <2>1. /\ pairs'[n] = pairs[n]
        /\ pairs[n].in \in DOMAIN map /\ Rev(pairs[n].out) \in DOMAIN map
    BY <1>1, <1>3, <1>5 DEF PairInv
  <2>2. map'[pairs[n].in] = map[pairs[n].in] /\ map'[Rev(pairs[n].out)] = map[Rev(pairs[n].out)]
    BY <1>1, <1>3, <2>1
  <2> QED  BY <1>1, <1>3, <1>5, <2>1, <2>2 DEF PairInv
<1> QED  BY <1>1, <1>4, <1>5
----------------------------------------------------------------------------
\* A set of numbers has a least one.
LEMMA LeastNat ==
    ASSUME NEW S \in SUBSET Nat, S # {}
    PROVE  \E n \in S : \A m \in S : n <= m
<1> DEFINE T == {1 .. n : n \in S}
           R == StrictSubsetOrdering(Nat)
<1>1. IsWellFoundedOn(R, FiniteSubsetsOf(Nat))
  BY FS_StrictSubsetOrderingWellFounded
<1>2. T \subseteq FiniteSubsetsOf(Nat) /\ T # {}
  <2>1. \A n \in S : 1 .. n \in SUBSET Nat
    OBVIOUS
  <2>2. \A n \in S : IsFiniteSet(1 .. n)
    BY FS_Interval
  <2> QED  BY <2>1, <2>2 DEF FiniteSubsetsOf
<1>3. PICK x \in T : \A y \in T : ~(<<y, x>> \in R)
  BY <1>1, <1>2, WFMin
<1>4. PICK n \in S : x = 1 .. n
  BY <1>3
<1>5. ASSUME NEW m \in S, ~(n <= m)
      PROVE  FALSE
  <2>1. 1 .. m \in SUBSET Nat /\ 1 .. n \in SUBSET Nat
    OBVIOUS
  <2>2. 1 .. m \subseteq 1 .. n /\ 1 .. m # 1 .. n
    BY <1>5
  <2>3. <<1 .. m, 1 .. n>> \in R
    BY <2>1, <2>2 DEF StrictSubsetOrdering
  <2> QED  BY <1>3, <1>4, <2>3
<1>6. \A m \in S : n <= m
  BY <1>5
<1> QED  BY <1>4, <1>6, Zenon


\* Pattern's mask is not below its top: doubling gets there.
LEMMA MaskIsEnough ==
    ASSUME NEW top \in Nat \ {0}
    PROVE  VariationMask(top) \in Nat /\ VariationMask(top) >= top
<1> DEFINE M == Masks(top)
           Closed(S) == 1 \in S /\ (\A x \in S : x < top => 2 * x + 1 \in S)
<1>1. M = {m \in 1 .. 2 * top : \A S \in SUBSET (1 .. 2 * top) : Closed(S) => m \in S}
  BY DEF Masks
<1>2. 1 \in M
  BY <1>1
<1>3. ASSUME NEW x \in M, x < top
      PROVE  2 * x + 1 \in M
  <2>1. 2 * x + 1 \in 1 .. 2 * top
    BY <1>1, <1>3
  <2>2. ASSUME NEW S \in SUBSET (1 .. 2 * top), Closed(S)
        PROVE  2 * x + 1 \in S
    <3>1. x \in S
      BY <1>1, <2>2, Zenon
    <3> QED  BY <1>3, <2>2, <3>1
  <2> HIDE DEF Closed
  <2> QED  BY <1>1, <2>1, <2>2
<1>4. \A m \in M : m \in Nat /\ m # 0
  BY <1>1
<1> HIDE DEF M, Closed
<1>5. \E m \in M : m >= top
  <2> SUFFICES ASSUME \A m \in M : m < top
               PROVE  FALSE
    BY <1>4
  <2> DEFINE L == {top - x : x \in M}
  <2>1. L \in SUBSET Nat /\ L # {}
    BY <1>2, <1>4
  <2>2. PICK n \in L : \A m \in L : n <= m
    BY <2>1, LeastNat
  <2>3. PICK x \in M : n = top - x
    BY <2>2
  <2>4. top - (2 * x + 1) \in L
    BY <1>3, <2>3
  <2>5. n <= top - (2 * x + 1) /\ x \in Nat \ {0}
    BY <1>4, <2>2, <2>4
  <2> HIDE DEF L
  <2> QED  BY <2>3, <2>5
<1>6. VariationMask(top) \in M /\ VariationMask(top) >= top
  BY <1>5 DEF VariationMask, M
<1> QED  BY <1>4, <1>6

LEMMA Modulo ==
    ASSUME NEW n \in Nat \ {0}, NEW v \in 0 .. n - 1
    PROVE  v % n = v /\ (v + n) % n = v
OBVIOUS

\* A sequential pattern tries every value, when it starts within the mask.
LEMMA TriesAll ==
    ASSUME NEW pat, VariationMask(pat.top) \in Nat, NEW from \in 0 .. VariationMask(pat.top),
           NEW v \in 0 .. VariationMask(pat.top)
    PROVE  \E k \in DOMAIN Tried(pat, from) : Tried(pat, from)[k] = v
<1> DEFINE mask == VariationMask(pat.top)
           T == Tried(pat, from)
<1>1. T = [k \in 0 .. mask |-> IF k = 0 THEN from ELSE (from + k) % (mask + 1)]
  BY DEF Tried
<1>2. mask \in Nat /\ from \in 0 .. mask /\ v \in 0 .. mask
  OBVIOUS
<1> SUFFICES \E k \in DOMAIN T : T[k] = v
  OBVIOUS
<1> HIDE DEF mask, T
<1>3. CASE v = from
  <2>1. 0 \in DOMAIN T /\ T[0] = from
    BY <1>1, <1>2
  <2> QED  BY <1>3, <2>1
<1>4. CASE v > from
  <2>1. v - from \in 0 .. mask /\ v - from # 0 /\ from + (v - from) = v
    BY <1>2, <1>4
  <2>2. v % (mask + 1) = v
    BY <1>2, Modulo
  <2> QED  BY <1>1, <2>1, <2>2
<1>5. CASE v < from
  <2> DEFINE k == (v - from) + (mask + 1)
  <2>1. k \in 0 .. mask /\ k # 0 /\ from + k = v + (mask + 1)
    BY <1>2, <1>5
  <2>2. (v + (mask + 1)) % (mask + 1) = v
    BY <1>2, Modulo
  <2> HIDE DEF k
  <2>3. T[k] = v
    BY <1>1, <2>1, <2>2
  <2> QED  BY <1>1, <2>1, <2>3
<1> QED  BY <1>2, <1>3, <1>4, <1>5

\* From one past the mask it tries every value but 0.
LEMMA TriesAllButZero ==
    ASSUME NEW pat, VariationMask(pat.top) \in Nat, NEW v \in 1 .. VariationMask(pat.top)
    PROVE  \E k \in DOMAIN Tried(pat, VariationMask(pat.top) + 1) :
              Tried(pat, VariationMask(pat.top) + 1)[k] = v
<1> DEFINE mask == VariationMask(pat.top)
           T == Tried(pat, mask + 1)
<1>1. T = [k \in 0 .. mask |-> IF k = 0 THEN mask + 1 ELSE ((mask + 1) + k) % (mask + 1)]
  BY DEF Tried
<1>2. mask \in Nat /\ v \in 1 .. mask
  OBVIOUS
<1> HIDE DEF mask, T
<1>3. (v + (mask + 1)) % (mask + 1) = v
  BY <1>2, Modulo
<1>4. T[v] = v /\ v \in DOMAIN T
  BY <1>1, <1>2, <1>3
<1> QED  BY <1>4 DEF T, mask

\* A pattern that accepts nothing is full, or was caught by its first round.
Explained(pat, flow) ==
    \/ Available(pat, flow) = {}
    \/ /\ pat.sequential /\ Available(pat, flow) = {0}
       /\ next[pat] = pat.top + 1 /\ VariationMask(pat.top) = pat.top

LEMMA RefusalExplained ==
    ASSUME NEW pat \in Pattern, NEW flow, next[pat] \in 0 .. pat.top + 1, ~Accepts(pat, flow)
    PROVE  Explained(pat, flow)
<1> DEFINE mask == VariationMask(pat.top)
           A == Available(pat, flow)
           T == Tried(pat, next[pat])
           good == {k \in DOMAIN T : T[k] \in A}
<1>1. pat.top \in Nat \ {0} /\ Choices(pat, flow) = {}
  BY DEF Accepts, Pattern
<1>2. mask \in Nat /\ mask >= pat.top
  BY <1>1, MaskIsEnough
<1>3. A \subseteq 0 .. pat.top
  BY DEF Available
<1>4. CASE ~pat.sequential
  BY <1>1, <1>4 DEF Choices, Explained
<1>5. CASE pat.sequential
  <2>1. {T[k] : k \in {k \in good : \A l \in good : k <= l}} = {}
    BY <1>1, <1>5 DEF Choices
  <2>2. good = {}
    <3>1. DOMAIN T = 0 .. mask
      BY DEF Tried
    <3>2. good \in SUBSET Nat
      BY <1>2, <3>1
    <3> HIDE DEF T, A, mask, good
    <3> SUFFICES ASSUME good # {}
                 PROVE  FALSE
      OBVIOUS
    <3>3. PICK n \in good : \A m \in good : n <= m
      BY <3>2, LeastNat
    <3> QED  BY <2>1, <3>3
  <2>3. \A k \in DOMAIN T : T[k] \notin A
    BY <2>2
  <2>4. CASE next[pat] <= mask
    <3>1. \A v \in A : FALSE
      <4> SUFFICES ASSUME NEW v \in A
                   PROVE  FALSE
        OBVIOUS
      <4>1. v \in 0 .. mask /\ next[pat] \in 0 .. mask
        BY <1>1, <1>2, <1>3, <2>4
      <4>2. \E k \in DOMAIN T : T[k] = v
        BY <1>2, <4>1, TriesAll
      <4> QED  BY <2>3, <4>2
    <3> QED  BY <3>1 DEF Explained
  <2>5. CASE next[pat] > mask
    <3>1. next[pat] = mask + 1 /\ mask = pat.top
      BY <1>1, <1>2, <2>5
    <3>2. \A v \in A : v = 0
      <4> SUFFICES ASSUME NEW v \in A, v # 0
                   PROVE  FALSE
        OBVIOUS
      <4>1. v \in 1 .. mask
        BY <1>1, <1>3, <3>1
      <4>2. \E k \in DOMAIN T : T[k] = v
        BY <1>2, <3>1, <4>1, TriesAllButZero
      <4> QED  BY <2>3, <4>2
    <3>3. A = {} \/ A = {0}
      BY <3>2
    <3> QED  BY <1>5, <3>1, <3>3 DEF Explained
  <2> QED  BY <1>1, <1>2, <2>4, <2>5
<1> QED  BY <1>4, <1>5
----------------------------------------------------------------------------
\* The patterns that are tried for a packet are patterns of the configuration.
LEMMA OrderType ==
    ASSUME TypeInv, NEW i \in Inputs, NEW p \in Packets,
           config.spec[i].kind \in {"pattern", "roundrobin", "hash"}
    PROVE  /\ \A k \in DOMAIN Order(i, p) :
                 /\ k \in Nat
                 /\ Order(i, p)[k] \in Pattern /\ Order(i, p)[k] \in Patterns(config)
                 /\ Ranged => Order(i, p)[k].top # 0
           /\ DOMAIN Order(i, p) # {} => Len(Order(i, p)) \in Nat \ {0}
<1> DEFINE s == config.spec[i]
           n == Len(s.pats)
           o == Order(i, p)
<1>1. s.pats \in Seq(Pattern) /\ (s.kind = "hash" => HashOf[p.src] \in DOMAIN s.pats)
  BY RwAssumption DEF TypeInv, Inputs
<1>2. \A k \in DOMAIN s.pats : /\ s.pats[k] \in Pattern /\ s.pats[k] \in Patterns(config)
                               /\ Ranged => s.pats[k].top # 0
  BY <1>1 DEF Patterns, Ranged, AllVaried, Inputs
<1>3. last_pattern[i] \in Nat
  BY DEF TypeInv
<1>4. s.kind # "hash" => o = [k \in 1 .. n |-> s.pats[((last_pattern[i] + k - 1) % n) + 1]]
  BY DEF Order
<1>5. s.kind = "hash" => o = <<s.pats[HashOf[p.src]]>>
  BY DEF Order
<1> HIDE DEF s, o
<1>6. CASE s.kind = "hash"
  <2>1. o = <<s.pats[HashOf[p.src]]>> /\ HashOf[p.src] \in DOMAIN s.pats
    BY <1>1, <1>5, <1>6
  <2>2. DOMAIN o = {1} /\ o[1] = s.pats[HashOf[p.src]] /\ Len(o) = 1
    BY <2>1
  <2> QED  BY <1>2, <2>1, <2>2 DEF o
<1>7. CASE s.kind # "hash"
  <2>1. n \in Nat /\ DOMAIN s.pats = 1 .. n
    BY <1>1
  <2> HIDE DEF n
  <2>2. o = [k \in 1 .. n |-> s.pats[((last_pattern[i] + k - 1) % n) + 1]]
    BY <1>4, <1>7
  <2>3. ASSUME NEW k \in 1 .. n
        PROVE  ((last_pattern[i] + k - 1) % n) + 1 \in 1 .. n
    BY <1>3, <2>1, <2>3
  <2>4. \A k \in DOMAIN o : k \in Nat /\ o[k] \in Pattern /\ o[k] \in Patterns(config)
                            /\ (Ranged => o[k].top # 0)
    BY <1>2, <2>1, <2>2, <2>3
  <2>5. o \in [1 .. n -> Pattern]
    BY <2>2, <2>4
  <2>6. o \in Seq(Pattern)
    BY <2>1, <2>5
  <2>7. Len(o) \in Nat /\ DOMAIN o = 1 .. Len(o)
    BY <2>6
  <2>8. DOMAIN o # {} => Len(o) # 0
    BY <2>7
  <2> QED  BY <2>4, <2>7, <2>8 DEF o
<1> QED  BY <1>6, <1>7

\* apply_pattern keeps the map, and the pairs when the flow is new.
LEMMA ApplyKeeps ==
    ASSUME TypeInv, MapInv, PairInv, NEW pat \in Patterns(config), pat \in Pattern,
           Ranged => pat.top # 0, NEW in, in \notin DOMAIN map,
           ApplyPattern(pat, in), UNCHANGED config
    PROVE  /\ MapInv' /\ PairInv'
           /\ map' = [f \in DOMAIN map' |-> map'[f]]
           /\ DOMAIN pairs' \subseteq 1 .. MaxPairs
           /\ pairs' = [n \in DOMAIN pairs' |->
                [in |-> pairs'[n].in, out |-> pairs'[n].out, pat |-> pairs'[n].pat,
                 used |-> [forward |-> pairs'[n].used.forward, reverse |-> pairs'[n].used.reverse]]]
           /\ next' \in [Patterns(config) -> Nat]
           /\ \A q \in Patterns(config) : next'[q] <= q.top + 1
<1>1. PICK out : Enter(in, out, pat) /\ (Ranged => Rev(out) \notin DOMAIN map)
  BY DEF ApplyPattern, Choices, Available, Tried
<1>2. MapInv' /\ PairInv'
  BY <1>1, EnterKeepsMap, EnterKeepsPairs
<1>3. /\ next' \in [Patterns(config) -> Nat]
      /\ \A q \in Patterns(config) : next'[q] <= q.top + 1
  <2>1. CASE UNCHANGED next
    BY <2>1 DEF TypeInv
  <2>2. CASE \E val \in Choices(pat, in) : next' = [next EXCEPT ![pat] = val + 1]
    <3>1. \A val \in Choices(pat, in) : val \in 0 .. pat.top
      BY DEF Choices, Available
    <3> QED  BY <2>2, <3>1 DEF TypeInv, Pattern
  <2> QED  BY <2>1, <2>2 DEF ApplyPattern
<1>4. /\ map' = [f \in DOMAIN map' |-> map'[f]]
      /\ pairs' = [n \in DOMAIN pairs' |->
                [in |-> pairs'[n].in, out |-> pairs'[n].out, pat |-> pairs'[n].pat,
                 used |-> [forward |-> pairs'[n].used.forward, reverse |-> pairs'[n].used.reverse]]]
      /\ DOMAIN pairs' = DOMAIN pairs \cup {NewPair} /\ NewPair \in 1 .. MaxPairs
  BY <1>1, Entered
<1> QED  BY <1>2, <1>3, <1>4 DEF TypeInv
----------------------------------------------------------------------------
LEMMA InitKeeps == Init => IInv
<1> SUFFICES ASSUME Init
             PROVE  IInv
  OBVIOUS
<1>1. DOMAIN map = {} /\ DOMAIN pairs = {} /\ refused = {}
  BY DEF Init
<1>2. map = [f \in DOMAIN map |-> map[f]]
  BY DEF Init
<1>3. pairs = [n \in DOMAIN pairs |->
                  [in |-> pairs[n].in, out |-> pairs[n].out, pat |-> pairs[n].pat,
                   used |-> [forward |-> pairs[n].used.forward, reverse |-> pairs[n].used.reverse]]]
  BY <1>1 DEF Init
<1>4. \A pat \in Patterns(config) : pat \in Pattern
  BY RwAssumption DEF Init, Patterns
<1>5. /\ next \in [Patterns(config) -> Nat]
      /\ \A pat \in Patterns(config) : next[pat] <= pat.top + 1
  BY <1>4 DEF Init, Pattern
<1>6. TypeInv
  BY <1>1, <1>2, <1>3, <1>5 DEF TypeInv, Init
<1> QED  BY <1>1, <1>6 DEF IInv, MapInv, PairInv, DropsExplained

LEMMA PushFoundKeeps ==
    ASSUME IInv, NEW i \in Inputs, NEW p \in Packets, PushFound(i, p)
    PROVE  IInv'
<1>1. PICK f \in Found(p) : pairs' = [pairs EXCEPT ![map[f].pair].used[map[f].dir] = late]
  BY DEF PushFound
<1> DEFINE m == map[f].pair
<1>2. UNCHANGED <<config, map, next, last_pattern>> /\ refused' = {}
  BY DEF PushFound
<1>3. m \in DOMAIN pairs /\ map[f].dir \in {"forward", "reverse"}
  BY DEF Found, IInv, MapInv
<1>4. pairs = [n \in DOMAIN pairs |->
                  [in |-> pairs[n].in, out |-> pairs[n].out, pat |-> pairs[n].pat,
                   used |-> [forward |-> pairs[n].used.forward, reverse |-> pairs[n].used.reverse]]]
  BY DEF IInv, TypeInv
<1> HIDE DEF m
<1>5. /\ DOMAIN pairs' = DOMAIN pairs
      /\ \A n \in DOMAIN pairs : n # m => pairs'[n] = pairs[n]
      /\ pairs'[m] = [pairs[m] EXCEPT !.used[map[f].dir] = late]
  BY <1>1, <1>3 DEF m
<1>6. pairs[m] = [in |-> pairs[m].in, out |-> pairs[m].out, pat |-> pairs[m].pat,
                  used |-> [forward |-> pairs[m].used.forward, reverse |-> pairs[m].used.reverse]]
  BY <1>3, <1>4, Zenon
<1>7. /\ pairs'[m].in = pairs[m].in /\ pairs'[m].out = pairs[m].out
      /\ pairs'[m] = [in |-> pairs'[m].in, out |-> pairs'[m].out, pat |-> pairs'[m].pat,
                  used |-> [forward |-> pairs'[m].used.forward, reverse |-> pairs'[m].used.reverse]]
  BY <1>3, <1>5, <1>6
<1>8. \A n \in DOMAIN pairs : pairs'[n].in = pairs[n].in /\ pairs'[n].out = pairs[n].out
  BY <1>5, <1>7
<1>9. \A n \in DOMAIN pairs' :
         pairs'[n] = [in |-> pairs'[n].in, out |-> pairs'[n].out, pat |-> pairs'[n].pat,
                  used |-> [forward |-> pairs'[n].used.forward, reverse |-> pairs'[n].used.reverse]]
  <2> SUFFICES ASSUME NEW n \in DOMAIN pairs', n # m
               PROVE  pairs'[n] = [in |-> pairs'[n].in, out |-> pairs'[n].out, pat |-> pairs'[n].pat,
                        used |-> [forward |-> pairs'[n].used.forward, reverse |-> pairs'[n].used.reverse]]
    BY <1>7
  <2>1. pairs[n] = [in |-> pairs[n].in, out |-> pairs[n].out, pat |-> pairs[n].pat,
                  used |-> [forward |-> pairs[n].used.forward, reverse |-> pairs[n].used.reverse]]
    BY <1>4, <1>5, Zenon
  <2> QED  BY <1>5, <2>1
<1>10. pairs' = [n \in DOMAIN pairs' |-> pairs'[n]]
  BY <1>1, <1>4
<1>11. TypeInv'
  <2>1. pairs' = [n \in DOMAIN pairs' |->
                  [in |-> pairs'[n].in, out |-> pairs'[n].out, pat |-> pairs'[n].pat,
                   used |-> [forward |-> pairs'[n].used.forward, reverse |-> pairs'[n].used.reverse]]]
    BY <1>9, <1>10
  <2>2. config' \in Configs /\ DOMAIN pairs' \subseteq 1 .. MaxPairs
    BY <1>2, <1>5 DEF IInv, TypeInv
  <2>3. map' = [g \in DOMAIN map' |-> map'[g]]
    BY <1>2 DEF IInv, TypeInv
  <2>4. /\ last_pattern' \in [Inputs' -> Nat] /\ next' \in [Patterns(config') -> Nat]
        /\ \A pat \in Patterns(config') : next'[pat] <= pat.top + 1
    BY <1>2 DEF IInv, TypeInv, Patterns, Inputs
  <2> QED  BY <2>1, <2>2, <2>3, <2>4 DEF TypeInv, Patterns
<1>12. MapInv' /\ PairInv'
  BY <1>2, <1>5, <1>8 DEF IInv, MapInv, PairInv, Rev, Ranged, AllVaried, NoneKept, Inputs
<1> QED  BY <1>2, <1>11, <1>12 DEF IInv, DropsExplained

\* An action that leaves the map and the pairs alone
LEMMA IdleKeeps ==
    ASSUME IInv, UNCHANGED <<config, map, pairs, next, last_pattern>>, DropsExplained'
    PROVE  IInv'
<1>1. TypeInv'
  BY DEF IInv, TypeInv, Inputs, Patterns
<1>2. MapInv' /\ PairInv'
  BY DEF IInv, MapInv, PairInv, Rev, Ranged, AllVaried, NoneKept, Inputs
<1> QED  BY <1>1, <1>2 DEF IInv

LEMMA PushKeepKeeps ==
    ASSUME IInv, NEW i \in Inputs, NEW p \in Packets, PushKeep(i, p)
    PROVE  IInv'
<1>1. /\ Enter(Key(p), Key(p), "none") /\ config.spec[i].kind = "keep"
      /\ UNCHANGED <<config, next, last_pattern>> /\ refused' = {}
  BY DEF PushKeep
<1>2. ~Ranged
  BY <1>1 DEF Ranged, NoneKept
<1>3. MapInv' /\ PairInv'
  BY <1>1, <1>2, EnterKeepsMap, EnterKeepsPairs DEF IInv
<1>4. /\ map' = [f \in DOMAIN map' |-> map'[f]]
      /\ pairs' = [n \in DOMAIN pairs' |->
                [in |-> pairs'[n].in, out |-> pairs'[n].out, pat |-> pairs'[n].pat,
                 used |-> [forward |-> pairs'[n].used.forward, reverse |-> pairs'[n].used.reverse]]]
      /\ DOMAIN pairs' = DOMAIN pairs \cup {NewPair} /\ NewPair \in 1 .. MaxPairs
  BY <1>1, Entered DEF IInv
<1>5. TypeInv'
  BY <1>1, <1>4 DEF IInv, TypeInv, Patterns, Inputs
<1> QED  BY <1>1, <1>3, <1>5 DEF IInv, DropsExplained

LEMMA PushPatternKeeps ==
    ASSUME IInv, NEW i \in Inputs, NEW p \in Packets, PushPattern(i, p)
    PROVE  IInv'
<1> DEFINE order == Order(i, p)
<1>1. /\ Found(p) = {} /\ config.spec[i].kind \in {"pattern", "roundrobin", "hash"}
      /\ refused' = {} /\ UNCHANGED <<config, late>>
  BY DEF PushPattern
<1>2. PICK k \in DOMAIN order :
         /\ ApplyPattern(order[k], Key(p))
         /\ last_pattern' = IF config.spec[i].kind = "roundrobin"
                              THEN [last_pattern EXCEPT ![i] = (@ + k) % Len(order)]
                              ELSE last_pattern
  BY DEF PushPattern
<1>3. /\ order[k] \in Pattern /\ order[k] \in Patterns(config) /\ (Ranged => order[k].top # 0)
      /\ k \in Nat /\ Len(order) \in Nat \ {0}
  BY <1>1, OrderType DEF IInv
<1> HIDE DEF order
<1>4. Key(p) \notin DOMAIN map
  BY <1>1 DEF Found
<1>5. /\ MapInv' /\ PairInv'
      /\ map' = [f \in DOMAIN map' |-> map'[f]]
      /\ DOMAIN pairs' \subseteq 1 .. MaxPairs
      /\ pairs' = [n \in DOMAIN pairs' |->
                [in |-> pairs'[n].in, out |-> pairs'[n].out, pat |-> pairs'[n].pat,
                 used |-> [forward |-> pairs'[n].used.forward, reverse |-> pairs'[n].used.reverse]]]
      /\ next' \in [Patterns(config) -> Nat]
      /\ \A q \in Patterns(config) : next'[q] <= q.top + 1
  BY <1>1, <1>2, <1>3, <1>4, ApplyKeeps DEF IInv
<1>6. last_pattern' \in [Inputs -> Nat]
  BY <1>2, <1>3 DEF IInv, TypeInv
<1>7. TypeInv'
  BY <1>1, <1>5, <1>6 DEF IInv, TypeInv, Patterns, Inputs
<1> QED  BY <1>1, <1>5, <1>7 DEF IInv, DropsExplained

LEMMA PushRefusedKeeps ==
    ASSUME IInv, NEW i \in Inputs, NEW p \in Packets, PushRefused(i, p)
    PROVE  IInv'
<1>1. /\ config.spec[i].kind \in {"pattern", "roundrobin", "hash"}
      /\ UNCHANGED <<config, map, pairs, next, last_pattern, late>>
      /\ refused' = {[pat |-> Order(i, p)[k], flow |-> Key(p)] : k \in DOMAIN Order(i, p)}
      /\ \A k \in DOMAIN Order(i, p) : ~Accepts(Order(i, p)[k], Key(p))
  BY DEF PushRefused
<1>2. ASSUME NEW k \in DOMAIN Order(i, p)
      PROVE  Explained(Order(i, p)[k], Key(p))
  <2>1. Order(i, p)[k] \in Pattern /\ Order(i, p)[k] \in Patterns(config)
    BY <1>1, OrderType DEF IInv
  <2>2. next[Order(i, p)[k]] \in 0 .. Order(i, p)[k].top + 1
    BY <2>1 DEF IInv, TypeInv, Pattern
  <2> QED  BY <1>1, <2>1, <2>2, RefusalExplained
<1>3. \A r \in refused' : Explained(r.pat, r.flow)
  BY <1>1, <1>2
<1>4. DropsExplained'
  BY <1>1, <1>3 DEF DropsExplained, Full, Explained, Available
<1> QED  BY <1>1, <1>4, IdleKeeps

LEMMA RunTimerKeeps ==
    ASSUME IInv, RunTimer
    PROVE  IInv'
<1> DEFINE gone == UNION {{pairs[n].in, Rev(pairs[n].out)} : n \in Idle}
<1>1. /\ pairs' = [n \in DOMAIN pairs \ Idle |-> pairs[n]]
      /\ map' = [f \in DOMAIN map \ gone |-> map[f]]
      /\ refused' = {} /\ UNCHANGED <<config, next, last_pattern, late>>
  BY DEF RunTimer
<1>2. \A n \in Idle : n \in DOMAIN pairs /\ pairs[n].in \in gone /\ Rev(pairs[n].out) \in gone
  BY DEF Idle
<1>3. \A f \in gone : \E n \in Idle : f = pairs[n].in \/ f = Rev(pairs[n].out)
  OBVIOUS
<1> HIDE DEF gone
<1>4. /\ DOMAIN pairs' = DOMAIN pairs \ Idle /\ DOMAIN map' = DOMAIN map \ gone
      /\ \A n \in DOMAIN pairs' : pairs'[n] = pairs[n]
      /\ \A f \in DOMAIN map' : map'[f] = map[f]
  BY <1>1
<1>5. TypeInv'
  <2>1. map' = [f \in DOMAIN map' |-> map'[f]]
    BY <1>1, <1>4
  <2>2. \A n \in DOMAIN pairs :
          pairs[n] = [in |-> pairs[n].in, out |-> pairs[n].out, pat |-> pairs[n].pat,
                  used |-> [forward |-> pairs[n].used.forward, reverse |-> pairs[n].used.reverse]]
    BY Zenon DEF IInv, TypeInv
  <2>3. pairs' = [n \in DOMAIN pairs' |->
                [in |-> pairs'[n].in, out |-> pairs'[n].out, pat |-> pairs'[n].pat,
                 used |-> [forward |-> pairs'[n].used.forward, reverse |-> pairs'[n].used.reverse]]]
    BY <1>1, <1>4, <2>2
  <2>4. DOMAIN pairs' \subseteq 1 .. MaxPairs
    BY <1>4 DEF IInv, TypeInv
  <2>5. /\ config' \in Configs
        /\ last_pattern' \in [Inputs' -> Nat]
        /\ next' \in [Patterns(config') -> Nat]
        /\ \A pat \in Patterns(config') : next'[pat] <= pat.top + 1
    BY <1>1 DEF IInv, TypeInv, Inputs
  <2>6. Patterns(config)' = Patterns(config')
    BY DEF Patterns
  <2> QED  BY <2>1, <2>3, <2>4, <2>5, <2>6, Zenon DEF TypeInv
<1>6. MapInv'
  <2> SUFFICES ASSUME NEW f \in DOMAIN map'
               PROVE  /\ map'[f].pair \in DOMAIN pairs' /\ map'[f].dir \in {"forward", "reverse"}
                      /\ map'[f] = [pair |-> map'[f].pair, dir |-> map'[f].dir]
                      /\ map'[f].dir = "forward" => f = pairs'[map'[f].pair].in
                      /\ map'[f].dir = "reverse" => f = Rev(pairs'[map'[f].pair].out)
    BY DEF MapInv, Rev
  <2>1. /\ map[f].pair \in DOMAIN pairs /\ map[f].dir \in {"forward", "reverse"}
        /\ map[f] = [pair |-> map[f].pair, dir |-> map[f].dir]
        /\ map[f].dir = "forward" => f = pairs[map[f].pair].in
        /\ map[f].dir = "reverse" => f = Rev(pairs[map[f].pair].out)
    BY <1>4 DEF IInv, MapInv
  <2>2. map[f].pair \notin Idle
    BY <1>2, <1>4, <2>1
  <2> QED  BY <1>4, <2>1, <2>2
<1>7. PairInv'
  <2>1. Ranged' = Ranged
    BY <1>1 DEF Ranged, AllVaried, NoneKept, Inputs
  <2> SUFFICES ASSUME Ranged, NEW n \in DOMAIN pairs'
               PROVE  /\ pairs'[n].in \in DOMAIN map' /\ Rev(pairs'[n].out) \in DOMAIN map'
                      /\ map'[Rev(pairs'[n].out)] = [pair |-> n, dir |-> "reverse"]
                      /\ pairs'[n].in # Rev(pairs'[n].out) =>
                            map'[pairs'[n].in] = [pair |-> n, dir |-> "forward"]
    BY <2>1 DEF PairInv, Rev
  <2>2. \A m \in DOMAIN pairs :
           /\ pairs[m].in \in DOMAIN map /\ Rev(pairs[m].out) \in DOMAIN map
           /\ map[Rev(pairs[m].out)] = [pair |-> m, dir |-> "reverse"]
           /\ pairs[m].in # Rev(pairs[m].out) => map[pairs[m].in] = [pair |-> m, dir |-> "forward"]
    BY DEF IInv, PairInv
  <2>3. ASSUME NEW m \in DOMAIN pairs
        PROVE  map[pairs[m].in].pair = m /\ map[Rev(pairs[m].out)].pair = m
    <3>1. /\ map[Rev(pairs[m].out)] = [pair |-> m, dir |-> "reverse"]
          /\ pairs[m].in # Rev(pairs[m].out) => map[pairs[m].in] = [pair |-> m, dir |-> "forward"]
      BY <2>2, Zenon
    <3>2. [pair |-> m, dir |-> "reverse"].pair = m /\ [pair |-> m, dir |-> "forward"].pair = m
      OBVIOUS
    <3> QED  BY <3>1, <3>2, Zenon
  <2>4. pairs[n].in \notin gone /\ Rev(pairs[n].out) \notin gone
    BY <1>2, <1>3, <1>4, <2>3
  <2> QED  BY <1>4, <2>2, <2>4
<1> QED  BY <1>1, <1>5, <1>6, <1>7 DEF IInv, DropsExplained

LEMMA StepKeeps == IInv /\ [Next]_vars => IInv'
<1> SUFFICES ASSUME IInv, [Next]_vars
             PROVE  IInv'
  OBVIOUS
<1>1. CASE UNCHANGED vars
  <2>1. DropsExplained'
    BY <1>1 DEF IInv, vars, DropsExplained, Full, Available
  <2> QED  BY <1>1, <2>1, IdleKeeps DEF vars
<1>2. ASSUME NEW i \in Inputs, NEW p \in Packets, PushFound(i, p)
      PROVE  IInv'
  BY <1>2, PushFoundKeeps
<1>3. ASSUME NEW i \in Inputs, NEW p \in Packets, PushPlain(i, p)
      PROVE  IInv'
  BY <1>3, IdleKeeps DEF PushPlain, DropsExplained
<1>4. ASSUME NEW i \in Inputs, NEW p \in Packets, PushKeep(i, p)
      PROVE  IInv'
  BY <1>4, PushKeepKeeps
<1>5. ASSUME NEW i \in Inputs, NEW p \in Packets, PushPattern(i, p)
      PROVE  IInv'
  BY <1>5, PushPatternKeeps
<1>6. ASSUME NEW i \in Inputs, NEW p \in Packets, PushRefused(i, p)
      PROVE  IInv'
  BY <1>6, PushRefusedKeeps
<1>7. CASE RunTimer
  BY <1>7, RunTimerKeeps
<1>8. CASE ClockTurns
  BY <1>8, IdleKeeps DEF ClockTurns, DropsExplained
<1> QED  BY <1>1, <1>2, <1>3, <1>4, <1>5, <1>6, <1>7, <1>8 DEF Next

LEMMA Invariance == Spec => []IInv
BY InitKeeps, StepKeeps, PTL DEF Spec

\* No flow of _map leads to a pair that the timer freed (iprw.cc:536-550),
\* whatever mappings were overwritten.
THEOREM MapNeverDangles == Spec => []NoDangling
<1>1. IInv => NoDangling
  BY DEF IInv, MapInv, NoDangling
<1> QED  BY <1>1, Invariance, PTL

\* Packets of a flow and the replies to what was made of them find the same pair,
\* and the replies get the flow's addresses back (ipaddrpairrewriter.hh:58-67).
THEOREM RepliesComeBack == Spec => []RepliesReturn
<1>1. IInv => RepliesReturn
  <2> SUFFICES ASSUME IInv, AllVaried, NoneKept, NEW n \in DOMAIN pairs,
                      pairs[n].in # Rev(pairs[n].out)
               PROVE  /\ map[pairs[n].in] = [pair |-> n, dir |-> "forward"]
                      /\ map[Rev(pairs[n].out)] = [pair |-> n, dir |-> "reverse"]
                      /\ \A p \in Packets : Key(p) = pairs[n].in =>
                           Applied(pairs[n], "reverse", Reply(Applied(pairs[n], "forward", p))) = Reply(p)
    BY DEF RepliesReturn
  <2>1. /\ map[pairs[n].in] = [pair |-> n, dir |-> "forward"]
        /\ map[Rev(pairs[n].out)] = [pair |-> n, dir |-> "reverse"]
    BY DEF IInv, PairInv, Ranged
  <2>2. ASSUME NEW p \in Packets, Key(p) = pairs[n].in
        PROVE  Applied(pairs[n], "reverse", Reply(Applied(pairs[n], "forward", p))) = Reply(p)
    <3>1. CASE config.kind = "addr"
      BY <2>2, <3>1 DEF Applied, Reply, Key, Flow
    <3>2. CASE config.kind # "addr"
      BY <2>2, <3>2 DEF Applied, Reply, Key, Flow
    <3> QED  BY <3>1, <3>2
  <2> QED  BY <2>1, <2>2
<1> QED  BY <1>1, Invariance, PTL

\* A packet is refused only when every pattern tried for it has all its addresses
\* in use, or is a sequential one in its first round (ipaddrrewriter.hh:52-54).
THEOREM RefusalsAreExplained == Spec => []DropsExplained
<1>1. IInv => DropsExplained
  BY DEF IInv
<1> QED  BY <1>1, Invariance, PTL
=============================================================================
