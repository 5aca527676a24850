------------------------------ MODULE BfSwitch ------------------------------
(***************************************************************************)
(* The BUFFALO switch element: BfSwitch (bfclick/ip/bfswitch.cc) over the  *)
(* class bloom_filter of bfclick/ip/bloomfilter.hh, one bit table per      *)
(* output port.  configure() inserts one address per configuration line;   *)
(* then every packet pushed is looked up and sent on, sent to output 0 or  *)
(* killed.                                                                 *)
(*                                                                         *)
(* The tables are heap memory that initialize() zeroes in part only, and   *)
(* table_size is not a multiple of char_size: the last bits lie past the   *)
(* allocation, where other code may write.  max_port is never initialised. *)
(***************************************************************************)
EXTENDS Integers, FiniteSets

CONSTANTS Addr,       \* Ethernet addresses
          MaxBf,      \* MAX_BF_COUNT: a table for each of 0 .. MaxBf - 1
          NOutputs,   \* outputs the configuration connects, noutputs()
          Hash,       \* 0 .. function_size - 1
          Rand,       \* Rand[a][i] = aseed[i] * addr + bseed[i]
          TableBits,  \* table_size of each port, in bits
          CharSize,   \* char_size, the bits of a byte: 8
          ZeroedBits, \* BF_SIZE/8 bytes of each table are zeroed
          Garbage     \* what the memory of max_port may hold at first

Port == 0 .. MaxBf - 1

ASSUME SizeAssumption ==
    /\ MaxBf \in Nat \ {0} /\ NOutputs \in Nat \ {0} /\ CharSize \in Nat \ {0}
    /\ ZeroedBits \in Nat /\ TableBits \in [Port -> Nat \ {0}]
ASSUME RandAssumption == Rand \in [Addr -> [Hash -> Nat]] /\ Hash # {}
ASSUME GarbageAssumption == Garbage \subseteq Int

VARIABLES pc,         \* "configure", "running", "failed" or "asserted"
          hash_table, \* the bits set in each port's table
          bf_count, max_port,
          fib,        \* the <<address, port>> pairs inserted (ghost)
          sent        \* what the last push did: source, dst, outport, outputs

vars == <<pc, hash_table, bf_count, max_port, fib, sent>>

Bit(a, i, p) == Rand[a][i] % TableBits[p]
BitsOf(a, p) == {Bit(a, i, p) : i \in Hash}

Bits(p)      == 0 .. TableBits[p] - 1
\* new unsigned char[table_size/8]
Allocated(p) == 0 .. CharSize * (TableBits[p] \div CharSize) - 1
\* what a table may hold when initialize() returns
Unzeroed(p)  == Bits(p) \ 0 .. ZeroedBits - 1

None == [source |-> -1, dst |-> -1, outport |-> -1, outputs |-> {}]

Init == /\ pc = "configure"
        /\ hash_table \in [Port -> SUBSET UNION {Bits(p) : p \in Port}]
        /\ \A p \in Port : hash_table[p] \subseteq Unzeroed(p)
        /\ bf_count = 0
        /\ max_port \in Garbage
        /\ fib = {}
        /\ sent = None

\* mutants: the test of etherinsert is off by one; bits are assigned, not ORed
EtherInsert_OffByOne(a, p) ==
    /\ IF p > max_port THEN bf_count' = bf_count + 1 /\ max_port' = p + 1
                       ELSE UNCHANGED <<bf_count, max_port>>
    /\ hash_table' = [hash_table EXCEPT ![p] = @ \cup BitsOf(a, p)]
EtherInsert_Every(a, p) ==
    /\ bf_count' = bf_count + 1
    /\ max_port' = IF p >= max_port THEN p + 1 ELSE max_port
    /\ hash_table' = [hash_table EXCEPT ![p] = @ \cup BitsOf(a, p)]
EtherInsert_Assigns(a, p) ==
    /\ IF p >= max_port THEN bf_count' = bf_count + 1 /\ max_port' = p + 1
                        ELSE UNCHANGED <<bf_count, max_port>>
    /\ hash_table' = [hash_table EXCEPT ![p] = BitsOf(a, p)]

\* bloom_filter::etherinsert
EtherInsert(a, p) ==
    /\ IF p >= max_port THEN bf_count' = bf_count + 1 /\ max_port' = p + 1
                        ELSE UNCHANGED <<bf_count, max_port>>
    /\ hash_table' = [hash_table EXCEPT ![p] = @ \cup BitsOf(a, p)]

\* A line "address port"; on a line with the address alone cp_ether_route
\* leaves port uninitialised, which is some port of this choice too.
ConfigureLine(a, p) ==
    /\ pc = "configure"
    /\ EtherInsert(a, p)
    /\ fib' = fib \cup {<<a, p>>}
    /\ UNCHANGED <<pc, sent>>

\* A line that does not parse: configure returns -1, the lines before stay.
ConfigureError == /\ pc = "configure"
                  /\ pc' = "failed"
                  /\ UNCHANGED <<hash_table, bf_count, max_port, fib, sent>>

ConfigureEnd == /\ pc = "configure"
                /\ pc' = "running"
                /\ UNCHANGED <<hash_table, bf_count, max_port, fib, sent>>

\* mutant: one bit set is enough
Hits_AnyBit(a) == {p \in 0 .. bf_count - 1 : BitsOf(a, p) \cap hash_table[p] # {}}

\* the filters that answer yes, of those etherlookup looks at
Hits(a) == {p \in 0 .. bf_count - 1 : BitsOf(a, p) \subseteq hash_table[p]}

\* bloom_filter::etherlookup returns q: the loop breaks at the first hit
EtherLookup(a, q) ==
    IF Hits(a) = {} THEN q = -1 ELSE q \in Hits(a) /\ \A p \in Hits(a) : q <= p

\* BfSwitch::push; Click asserts that an output used is connected
Push(source, dst) ==
    /\ pc = "running"
    /\ \E q \in {-1} \cup Port :
        /\ EtherLookup(dst, q)
        /\ LET outs == IF q < 0 THEN {0} ELSE IF q = source THEN {} ELSE {q}
           IN  /\ sent' = [source |-> source, dst |-> dst,
                           outport |-> q, outputs |-> outs]
               /\ pc' = IF outs \subseteq 0 .. NOutputs - 1 THEN pc
                                                            ELSE "asserted"
    /\ UNCHANGED <<hash_table, bf_count, max_port, fib>>

\* other code's use of the bytes that follow the allocation of table p
HeapWrite(p) ==
    /\ pc \in {"configure", "running"}
    /\ \E S \in SUBSET (Bits(p) \ Allocated(p)) :
          hash_table' = [hash_table EXCEPT ![p] = (@ \cap Allocated(p)) \cup S]
    /\ UNCHANGED <<pc, bf_count, max_port, fib, sent>>

\* the element has one input, "1/-": every packet comes from source 0
Next == \/ \E a \in Addr, p \in Port : ConfigureLine(a, p)
        \/ ConfigureError
        \/ ConfigureEnd
        \/ \E dst \in Addr : Push(0, dst)
        \/ \E p \in Port : HeapWrite(p)

Spec == Init /\ [][Next]_vars
----------------------------------------------------------------------------
\* Types of the variables; no table has bits beyond table_size.
TypeOK == /\ pc \in {"configure", "running", "failed", "asserted"}
          /\ DOMAIN hash_table = Port
          /\ \A p \in Port : hash_table[p] \subseteq Bits(p)
          /\ bf_count \in Nat /\ max_port \in Int
          /\ fib \subseteq Addr \X Port

\* However the ports come and whatever max_port held, etherlookup's loop over
\* bf_count tables stays within count[MAX_BF_COUNT].
BfCountInBounds == bf_count <= MaxBf

\* An inserted address whose port etherlookup looks at, and whose bits are in
\* allocated memory, is found: at its port or at a lower one.
ExaminedNeverLost ==
    \A a \in Addr : \A p \in Port :
        <<a, p>> \in fib /\ p < bf_count /\ BitsOf(a, p) \subseteq Allocated(p)
        => \A q \in {-1} \cup Port : EtherLookup(a, q) => q \in 0 .. p

\* bf_count and max_port are two counts of the ports in use: while they agree
\* no inserted address is at a port that etherlookup skips.
NoneSkippedWhenCountsAgree ==
    bf_count = max_port => \A e \in fib : e[2] < bf_count

\* the bits that insertions at port p set, and those not the tables' doing
Inserted(p) == UNION {BitsOf(e[1], p) : e \in {f \in fib : f[2] = p}}
Foreign(p)  == Unzeroed(p) \cup (Bits(p) \ Allocated(p))

\* A filter answers yes only because of bits inserted in it or of memory that
\* was never zeroed or lies past the table: the hit of a lookup is explained.
HitExplained ==
    pc = "running" /\ sent.outport >= 0 =>
        BitsOf(sent.dst, sent.outport)
          \subseteq Inserted(sent.outport) \cup Foreign(sent.outport)
============================================================================
