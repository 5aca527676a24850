-------------------------- MODULE BfSwitch_proofs --------------------------
(***************************************************************************)
(* The safety of BfSwitch's tables for every number of ports and every     *)
(* hash, whatever the uninitialised memory holds.                          *)
(***************************************************************************)
EXTENDS BfSwitch, TLAPS

\* The bits an operation can touch are bits of the table.
LEMMA BitInTable ==
    ASSUME NEW a \in Addr, NEW p \in Port
    PROVE  BitsOf(a, p) \subseteq Bits(p)
<1> SUFFICES ASSUME NEW i \in Hash PROVE Bit(a, i, p) \in Bits(p)
  BY DEF BitsOf
<1>1. Rand[a][i] \in Nat /\ TableBits[p] \in Nat \ {0}
  BY RandAssumption, SizeAssumption
<1>2. Rand[a][i] % TableBits[p] \in 0 .. TableBits[p] - 1
  BY <1>1
<1>3. QED
  BY <1>2 DEF Bit, Bits

\* Allocated memory of a table is part of it.
LEMMA AllocatedInTable ==
    ASSUME NEW p \in Port
    PROVE  Allocated(p) \subseteq Bits(p)
<1> DEFINE n == TableBits[p]
           q == n \div CharSize
<1>1. n \in Nat \ {0} /\ CharSize \in Nat \ {0}
  BY SizeAssumption
<1> HIDE DEF n
<1>2. CharSize * q <= n /\ q \in Nat
  BY <1>1
<1> HIDE DEF q
<1>3. CharSize * q \in Nat
  BY <1>1, <1>2
<1>4. QED
  BY <1>1, <1>2, <1>3 DEF Allocated, Bits, q, n

----------------------------------------------------------------------------
CountInv == bf_count = 0 \/ (bf_count <= max_port /\ max_port <= MaxBf)
FibInv ==
    \A a \in Addr : \A p \in Port : <<a, p>> \in fib =>
        /\ p < max_port
        /\ BitsOf(a, p) \cap Allocated(p) \subseteq hash_table[p]
BitsInv == \A p \in Port : hash_table[p] \subseteq Inserted(p) \cup Foreign(p)
SentInv == /\ sent.outport \in {-1} \cup Port
           /\ sent.outport >= 0 => sent.dst \in Addr
           /\ pc = "configure" => sent.outport = -1

\* The strengthening: bf_count is zero or no more than max_port, which is then
\* no longer garbage; every insertion has left its bits and its port behind.
IInv == TypeOK /\ CountInv /\ FibInv /\ BitsInv /\ SentInv /\ HitExplained

\* The state the constructor leaves, with any garbage in it.
LEMMA InitInv == Init => IInv
<1> SUFFICES ASSUME Init PROVE IInv
  OBVIOUS
<1>1. TypeOK
  <2>1. \A p \in Port : Unzeroed(p) \subseteq Bits(p)
    BY DEF Unzeroed
  <2>2. QED
    BY <2>1, GarbageAssumption DEF Init, TypeOK
<1>2. CountInv /\ FibInv
  BY DEF Init, CountInv, FibInv
<1>3. BitsInv
  BY DEF Init, BitsInv, Foreign
<1>4. SentInv /\ HitExplained
  BY DEF Init, SentInv, HitExplained, None
<1>5. QED
  BY <1>1, <1>2, <1>3, <1>4 DEF IInv

\* A configuration line, the only insertion.
LEMMA LineInv ==
    ASSUME IInv, NEW a \in Addr, NEW p \in Port, ConfigureLine(a, p)
    PROVE  IInv'
<1>1. /\ pc = "configure" /\ UNCHANGED <<pc, sent>>
      /\ fib' = fib \cup {<<a, p>>}
      /\ hash_table' = [hash_table EXCEPT ![p] = @ \cup BitsOf(a, p)]
      /\ \/ p >= max_port /\ bf_count' = bf_count + 1 /\ max_port' = p + 1
         \/ p < max_port /\ UNCHANGED <<bf_count, max_port>>
  BY DEF ConfigureLine, EtherInsert, IInv, TypeOK, Port
<1>2. /\ bf_count \in Nat /\ max_port \in Int /\ p \in Nat /\ p < MaxBf
      /\ MaxBf \in Nat /\ DOMAIN hash_table = Port
  BY SizeAssumption DEF IInv, TypeOK, Port
<1>3. TypeOK'
  BY <1>1, <1>2, BitInTable DEF IInv, TypeOK
<1>4. CountInv'
  BY <1>1, <1>2 DEF IInv, CountInv
<1>5. FibInv'
  <2> SUFFICES ASSUME NEW b \in Addr, NEW r \in Port, <<b, r>> \in fib'
               PROVE  /\ r < max_port'
                      /\ BitsOf(b, r) \cap Allocated(r) \subseteq hash_table'[r]
    BY DEF FibInv
  <2>1. hash_table[r] \subseteq hash_table'[r]
    BY <1>1, <1>2
  <2>2. CASE <<b, r>> \in fib
    <3>1. r < max_port /\ r \in Int
      BY <2>2 DEF IInv, FibInv, Port
    <3>2. max_port <= max_port'
      BY <1>1, <1>2
    <3>3. max_port' \in Int
      BY <1>3 DEF TypeOK
    <3>4. QED
      BY <1>2, <2>1, <2>2, <3>1, <3>2, <3>3 DEF IInv, FibInv
  <2>3. CASE b = a /\ r = p
    BY <1>1, <1>2, <2>3
  <2>4. QED
    BY <1>1, <2>2, <2>3
<1>6. BitsInv'
  <2> SUFFICES ASSUME NEW r \in Port, NEW x \in hash_table'[r]
               PROVE  x \in Inserted(r)' \cup Foreign(r)
    BY DEF BitsInv, Foreign, Unzeroed, Bits, Allocated
  <2>1. Inserted(r) \subseteq Inserted(r)'
    BY <1>1 DEF Inserted, BitsOf, Bit
  <2>2. CASE x \in hash_table[r]
    BY <2>1, <2>2 DEF IInv, BitsInv
  <2>3. CASE r = p /\ x \in BitsOf(a, p)
    <3>1. <<a, p>> \in {f \in fib' : f[2] = p}
      BY <1>1
    <3>2. QED
      BY <2>3, <3>1 DEF Inserted, BitsOf, Bit
  <2>4. QED
    BY <1>1, <1>2, <2>2, <2>3
<1>7. SentInv' /\ HitExplained'
  BY <1>1 DEF IInv, SentInv, HitExplained
<1>8. QED
  BY <1>3, <1>4, <1>5, <1>6, <1>7 DEF IInv

\* A push reads the tables only; its hit is explained by the bits it read.
LEMMA PushInv ==
    ASSUME IInv, NEW dst \in Addr, Push(0, dst)
    PROVE  IInv'
<1>1. PICK q \in {-1} \cup Port :
        /\ EtherLookup(dst, q)
        /\ sent'.outport = q /\ sent'.dst = dst
        /\ pc = "running" /\ pc' \in {"running", "asserted"}
        /\ UNCHANGED <<hash_table, bf_count, max_port, fib>>
  BY DEF Push
<1>2. TypeOK' /\ CountInv' /\ FibInv' /\ BitsInv'
  BY <1>1 DEF IInv, TypeOK, CountInv, FibInv, BitsInv, Inserted, Foreign
<1>3. SentInv'
  BY <1>1 DEF SentInv
<1>4. HitExplained'
  <2>1. CASE q = -1
    BY <1>1, <2>1 DEF HitExplained
  <2>2. CASE q \in Port
    <3>1. BitsOf(dst, q) \subseteq Inserted(q) \cup Foreign(q)
      BY <1>1, <2>2 DEF EtherLookup, Hits, IInv, BitsInv, Port
    <3>2. Inserted(q)' = Inserted(q)
      BY <1>1 DEF Inserted
    <3>3. QED
      BY <1>1, <3>1, <3>2 DEF HitExplained, Inserted, Foreign
  <2>3. QED
    BY <2>1, <2>2
<1>5. QED
  BY <1>2, <1>3, <1>4 DEF IInv

\* A write past a table changes no allocated bit.
LEMMA HeapInv ==
    ASSUME IInv, NEW p \in Port, HeapWrite(p)
    PROVE  IInv'
<1>1. PICK S \in SUBSET (Bits(p) \ Allocated(p)) :
        hash_table' = [hash_table EXCEPT ![p] = (@ \cap Allocated(p)) \cup S]
  BY DEF HeapWrite
<1>2. UNCHANGED <<pc, bf_count, max_port, fib, sent>> /\ DOMAIN hash_table = Port
  BY DEF HeapWrite, IInv, TypeOK
<1>3. TypeOK'
  BY <1>1, <1>2 DEF IInv, TypeOK
<1>4. CountInv' /\ SentInv' /\ HitExplained'
  <2>1. CountInv' /\ SentInv'
    BY <1>2 DEF IInv, CountInv, SentInv
  <2>2. HitExplained'
    BY <1>2 DEF IInv, HitExplained, Inserted, Foreign
  <2>3. QED
    BY <2>1, <2>2
<1>5. FibInv'
  BY <1>1, <1>2 DEF IInv, FibInv
<1>6. BitsInv'
  <2>1. \A r \in Port : Inserted(r)' = Inserted(r) /\ Foreign(r)' = Foreign(r)
    BY <1>2 DEF Inserted, Foreign
  <2>2. QED
    BY <1>1, <1>2, <2>1 DEF IInv, BitsInv, Foreign
<1>7. QED
  BY <1>3, <1>4, <1>5, <1>6 DEF IInv

\* Every step keeps the invariant.
LEMMA NextInv == IInv /\ [Next]_vars => IInv'
<1> SUFFICES ASSUME IInv, [Next]_vars PROVE IInv'
  OBVIOUS
<1>1. CASE UNCHANGED vars
  BY <1>1 DEF vars, IInv, TypeOK, CountInv, FibInv, BitsInv, SentInv,
              HitExplained, Inserted, Foreign
<1>2. CASE ConfigureError \/ ConfigureEnd
  <2>1. /\ UNCHANGED <<hash_table, bf_count, max_port, fib, sent>>
        /\ pc = "configure" /\ pc' \in {"failed", "running"}
    BY <1>2 DEF ConfigureError, ConfigureEnd
  <2>2. TypeOK' /\ CountInv' /\ FibInv' /\ BitsInv' /\ SentInv'
    BY <2>1 DEF IInv, TypeOK, CountInv, FibInv, BitsInv, SentInv, Inserted,
                Foreign
  <2>3. HitExplained'
    BY <2>1 DEF IInv, SentInv, HitExplained
  <2>4. QED
    BY <2>2, <2>3 DEF IInv
<1>3. QED
  BY <1>1, <1>2, LineInv, PushInv, HeapInv DEF Next

\* The invariant gives the properties the runs check.
LEMMA InvImplies ==
    IInv => /\ BfCountInBounds /\ ExaminedNeverLost
            /\ NoneSkippedWhenCountsAgree
<1> SUFFICES ASSUME IInv
             PROVE  /\ BfCountInBounds /\ ExaminedNeverLost
                    /\ NoneSkippedWhenCountsAgree
  OBVIOUS
<1>1. BfCountInBounds
  BY SizeAssumption DEF IInv, TypeOK, CountInv, BfCountInBounds
<1>2. ExaminedNeverLost
  <2> SUFFICES ASSUME NEW a \in Addr, NEW p \in Port, <<a, p>> \in fib,
                      p < bf_count, BitsOf(a, p) \subseteq Allocated(p),
                      NEW q \in {-1} \cup Port, EtherLookup(a, q)
               PROVE  q \in 0 .. p
    BY DEF ExaminedNeverLost
  <2>1. p \in Hits(a)
    BY DEF Hits, IInv, FibInv, Port, TypeOK
  <2>2. q \in Hits(a) /\ q <= p
    BY <2>1 DEF EtherLookup
  <2>3. QED
    BY <2>2 DEF Hits, Port, IInv, TypeOK
<1>3. NoneSkippedWhenCountsAgree
  <2> SUFFICES ASSUME bf_count = max_port, NEW e \in fib PROVE e[2] < bf_count
    BY DEF NoneSkippedWhenCountsAgree
  <2>1. e = <<e[1], e[2]>> /\ e[1] \in Addr /\ e[2] \in Port
    BY DEF IInv, TypeOK
  <2>2. QED
    BY <2>1 DEF IInv, FibInv
<1>4. QED
  BY <1>1, <1>2, <1>3

----------------------------------------------------------------------------
\* The variables keep their types along every behaviour (see TypeOK).
THEOREM SwitchTypeCorrect == Spec => []TypeOK
<1>1. IInv => TypeOK
  BY DEF IInv
<1>2. QED
  BY <1>1, InitInv, NextInv, PTL DEF Spec

\* etherlookup never reads past count[MAX_BF_COUNT] (see BfCountInBounds).
THEOREM LookupInBounds == Spec => []BfCountInBounds
  BY InitInv, NextInv, InvImplies, PTL DEF Spec

\* An inserted address whose port is examined is found (see ExaminedNeverLost).
THEOREM ExaminedAreFound == Spec => []ExaminedNeverLost
  BY InitInv, NextInv, InvImplies, PTL DEF Spec

\* No port is skipped while bf_count = max_port (NoneSkippedWhenCountsAgree).
THEOREM AgreeingCountsSkipNone == Spec => []NoneSkippedWhenCountsAgree
  BY InitInv, NextInv, InvImplies, PTL DEF Spec

\* A hit has no other cause than insertions and foreign bits (HitExplained).
THEOREM HitsAreExplained == Spec => []HitExplained
<1>1. IInv => HitExplained
  BY DEF IInv
<1>2. QED
  BY <1>1, InitInv, NextInv, PTL DEF Spec
============================================================================
