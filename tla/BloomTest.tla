----------------------------- MODULE BloomTest -----------------------------
(***************************************************************************)
(* BloomFilterTest.cc ("bloomtest") on an IP FIB (-d funet): the FIB is    *)
(* read, a Bloom filter is made for each pair of next hop and prefix       *)
(* length, and every address of a packet trace is looked up in the filters *)
(* and, for comparison, in the FIB itself by linear_lookup.                *)
(*                                                                         *)
(* Addresses have W bits, 32 in the code.  A filter hashes the address of  *)
(* a prefix only: insert(const prefix&) seeds with p.addr.                 *)
(***************************************************************************)
EXTENDS Bloom, Sequences, FiniteSetsExt

CONSTANTS W,          \* bits of an address
          NextHop,    \* values of nexthop: tmp + 100, never 0
          MemSize,    \* MEM_SIZE, the cells of all filters together
          MaxLines,   \* bound: lines of the FIB file
          MaxPackets  \* bound: addresses of the packet trace

ASSUME TestAssumption == /\ W \in Nat \ {0} /\ NextHop \subseteq Nat \ {0}
                         /\ MemSize \in Nat
                         /\ Key = 0 .. 2^W - 1

VARIABLES pc,              \* "read", "insert", "test", "done" or "crashed"
          pfxlist,         \* the prefixes in file order
          pmap,            \* prefix -> nexthop, the last one read
          nh_pfxlen_count, \* lines read for each next hop and length
          filter,          \* nh_pfxlen_filter, by next hop and length
          inserted,        \* entries of pfxlist inserted so far
          packet_count, falsepos, falseneg, maxerror, avgerror,
          packets,         \* looked up so far, with or without a hit
          last             \* the counted lookup made last

fib == <<pfxlist, pmap, nh_pfxlen_count>>
stats == <<packet_count, falsepos, falseneg, maxerror, avgerror, packets, last>>
vars == <<pc, fib, filter, inserted, stats>>

Prefix == [len : 0 .. W, addr : Key]
NoLookup == [addr |-> 0, nh |-> 0, hitj |-> 0, error |-> 0, linearnh |-> 0]

\* addr & (0xffffffff << (W - j)): the first j bits
Masked(addr, j) == (addr \div 2^(W - j)) * 2^(W - j)

\* the set nhlist, which keeps a next hop whose prefixes were all read again
nhlist == {nh \in NextHop : \E j \in 0 .. W : nh_pfxlen_count[nh, j] > 0}

Init == /\ pc = "read"
        /\ pfxlist = << >> /\ pmap = << >>
        /\ nh_pfxlen_count = [x \in NextHop \X (0 .. W) |-> 0]
        /\ filter = << >> /\ inserted = 0
        /\ packet_count = 0 /\ falsepos = 0 /\ falseneg = 0
        /\ maxerror = 0 /\ avgerror = 0 /\ packets = 0
        /\ last = NoLookup

\* read_funetfib, one line
ReadLine(p, nh) ==
    /\ pc = "read"
    /\ Len(pfxlist) < MaxLines
    /\ pmap' = [q \in DOMAIN pmap \cup {p} |-> IF q = p THEN nh ELSE pmap[q]]
    /\ pfxlist' = Append(pfxlist, p)
    /\ nh_pfxlen_count' = [nh_pfxlen_count EXCEPT ![nh, p.len] = @ + 1]
    /\ UNCHANGED <<pc, filter, inserted, stats>>

\* total_n: length 0 is not counted, and has no filter
TotalN == MapThenSumSet(LAMBDA x : nh_pfxlen_count[x], nhlist \X (1 .. W))

SizeOf(nh, j) == LET n == nh_pfxlen_count[nh, j]
                 IN  IF n > 0 THEN (MemSize * n) \div TotalN ELSE 1

\* create_bloom_filter_pfxlen_each_out up to its insertion loop; with no line
\* read it divides by nhlist.size() * 32 = 0
CreateFilters ==
    /\ pc = "read"
    /\ IF nhlist = {}
         THEN pc' = "crashed" /\ UNCHANGED filter
         ELSE /\ pc' = "insert"
              /\ filter' = [x \in nhlist \X (1 .. W) |->
                              NewTable(SizeOf(x[1], x[2]), nh_pfxlen_count[x])]
    /\ UNCHANGED <<fib, inserted, stats>>

\* mutant: the filter of the length before
InsertInto_OffByOne(p) ==
    LET j == IF p.len > 1 THEN p.len - 1 ELSE 1
    IN  [filter EXCEPT ![pmap[p], j] = BfInsert(@, p.addr, TableSize(SizeOf(pmap[p], j)))]

InsertInto(p) ==
    [filter EXCEPT ![pmap[p], p.len] =
        BfInsert(@, p.addr, TableSize(SizeOf(pmap[p], p.len)))]

\* One turn of the insertion loop. A prefix of length 0 goes to a filter that
\* was never initialised: nothing happens when its function_size happens to be
\* 0, else its NULL table is written.
InsertNext ==
    LET p == pfxlist[inserted + 1]
    IN  /\ pc = "insert"
        /\ inserted < Len(pfxlist)
        /\ inserted' = inserted + 1
        /\ IF p.len > 0 THEN filter' = InsertInto(p) /\ UNCHANGED pc
                        ELSE UNCHANGED filter /\ pc' \in {"insert", "crashed"}
        /\ UNCHANGED <<fib, stats>>

StartTest == /\ pc = "insert"
             /\ inserted = Len(pfxlist)
             /\ pc' = "test"
             /\ UNCHANGED <<fib, filter, inserted, stats>>

\* the lengths at which next hop nh's filters answer yes for addr
HitLens(nh, addr) ==
    {j \in 1 .. W : Contains(filter[nh, j], Masked(addr, j),
                             TableSize(SizeOf(nh, j)))}
HitHops(addr) == {nh \in nhlist : HitLens(nh, addr) # {}}

\* hitj and nh: the longest hit, and the first next hop that has it
LongestHit(addr) == Max({Max(HitLens(nh, addr)) : nh \in HitHops(addr)})
Best(addr) == Min({nh \in HitHops(addr) : Max(HitLens(nh, addr)) = LongestHit(addr)})

\* linear_lookup(addr, 32): the longest prefix of the FIB, 0 for none
LinearLookup(addr) ==
    LET lens == {j \in 1 .. W : [len |-> j, addr |-> Masked(addr, j)] \in DOMAIN pmap}
    IN  IF lens = {} THEN 0
        ELSE pmap[[len |-> Max(lens), addr |-> Masked(addr, Max(lens))]]

\* mutant: a packet without a route stays counted
Counted_All(addr) == HitHops(addr) # {}

Counted(addr) == HitHops(addr) # {} /\ LinearLookup(addr) # 0

\* One turn of the loop of perform_pfxlen_each_out: an address without a hit or
\* a route is taken out of packet_count again.
Lookup(addr) ==
    LET error == Cardinality(HitHops(addr))
        linearnh == LinearLookup(addr)
    IN  /\ pc = "test"
        /\ addr # 0
        /\ packets < MaxPackets
        /\ packets' = packets + 1
        /\ IF Counted(addr)
             THEN /\ packet_count' = packet_count + 1
                  /\ last' = [addr |-> addr, nh |-> Best(addr),
                              hitj |-> LongestHit(addr), error |-> error,
                              linearnh |-> linearnh]
                  /\ falseneg' = falseneg + (IF Best(addr) # linearnh THEN 1 ELSE 0)
                  /\ falsepos' = falsepos + (IF error > 1 THEN 1 ELSE 0)
                  /\ avgerror' = avgerror + error
                  /\ maxerror' = Max({maxerror, error})
             ELSE UNCHANGED <<packet_count, last, falseneg, falsepos, avgerror,
                              maxerror>>
        /\ UNCHANGED <<pc, fib, filter, inserted>>

\* fetchip returns 0 at the end of the trace, and for the address 0.0.0.0,
\* which it has counted: either ends the loop.
EndOfTrace ==
    /\ pc = "test"
    /\ pc' = "done"
    /\ packet_count' \in {packet_count, packet_count + 1}
    /\ UNCHANGED <<fib, filter, inserted, falsepos, falseneg, maxerror, avgerror,
                   packets, last>>

Next == \/ \E p \in Prefix, nh \in NextHop : ReadLine(p, nh)
        \/ CreateFilters
        \/ InsertNext
        \/ StartTest
        \/ \E addr \in Key : Lookup(addr)
        \/ EndOfTrace

Spec == Init /\ [][Next]_vars
----------------------------------------------------------------------------
\* Types of the variables: the filters are those of the next hops read, and a
\* cell of one holds 0, 1 or 2.
TypeOK ==
    /\ pc \in {"read", "insert", "test", "done", "crashed"}
    /\ \A i \in DOMAIN pfxlist : pfxlist[i] \in Prefix /\ pfxlist[i] \in DOMAIN pmap
    /\ \A p \in DOMAIN pmap : p \in Prefix /\ pmap[p] \in NextHop
    /\ DOMAIN filter \subseteq nhlist \X (1 .. W)
    /\ \A x \in DOMAIN filter : \A c \in DOMAIN filter[x] : filter[x][c] \in 0 .. 2
    /\ inserted \in 0 .. Len(pfxlist)
    /\ {packet_count, falsepos, falseneg, maxerror, avgerror} \subseteq Nat

\* When the filters are built, every route is in the filter of the next hop
\* and length that pmap has for it, also when the file gave its prefix twice
\* with different next hops.
NoRouteMissing ==
    pc = "test" => \A p \in DOMAIN pmap :
        p.len > 0 => Contains(filter[pmap[p], p.len], p.addr,
                              TableSize(SizeOf(pmap[p], p.len)))

\* "lookup error" (BloomFilterTest.cc:323) is never printed: the filters and
\* the FIB disagree on the next hop only when several next hops are hit.
NoLookupError == last.nh # last.linearnh => last.error > 1

\* The match chosen from the filters is never shorter than a route of the FIB.
NeverShorterMatch ==
    last # NoLookup =>
        \A p \in DOMAIN pmap :
            p.len > 0 /\ Masked(last.addr, p.len) = p.addr => last.hitj >= p.len

\* What the totals say of each other while packets are looked up: a wrong next
\* hop is also a multiple hit, a counted packet has a hit, a multiple hit a
\* second one, and no packet has more hits than maxerror.
TotalsConsistent ==
    pc = "test" => /\ falseneg <= falsepos /\ falsepos <= packet_count
                   /\ packet_count + falsepos <= avgerror
                   /\ avgerror <= packet_count * maxerror
                   /\ packet_count <= packets
============================================================================
