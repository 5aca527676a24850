------------------------------ MODULE MacTest ------------------------------
(***************************************************************************)
(* BloomFilterTest.cc on a MAC FIB (-d mac): one Bloom filter per next     *)
(* hop, of a size read from size.txt, and a trace of destination addresses *)
(* each looked up in all filters.                                          *)
(***************************************************************************)
EXTENDS Bloom, Sequences, FiniteSetsExt

CONSTANTS NextHop,    \* values of nexthop: tmp + 100
          Sizes,      \* sizes in size.txt; 0 when the file is too short
          MaxLines,   \* bound: lines of the FIB file
          MaxPackets  \* bound: addresses of the packet trace

MacTestAssumption == NextHop \subseteq Nat /\ Sizes \subseteq Nat

VARIABLES pc,           \* "read", "size", "insert", "test", "done", "crashed"
          maclist,      \* the addresses in file order
          macmap,       \* address -> nexthop, the last one read
          nhcount,      \* lines read for each next hop
          size,         \* size of each next hop's filter
          filter,       \* nh_pfxlen_filter, by next hop
          inserted,     \* entries of maclist inserted so far
          packet_count, falsepos, maxerror, avgerror,
          packets       \* addresses taken from the trace

fib == <<maclist, macmap, nhcount>>
stats == <<packet_count, falsepos, maxerror, avgerror, packets>>
vars == <<pc, fib, size, filter, inserted, stats>>

nhlist == {nh \in NextHop : nhcount[nh] > 0}

Init == /\ pc = "read"
        /\ maclist = << >> /\ macmap = << >>
        /\ nhcount = [nh \in NextHop |-> 0]
        /\ size = << >> /\ filter = << >> /\ inserted = 0
        /\ packet_count = 0 /\ falsepos = 0 /\ maxerror = 0 /\ avgerror = 0
        /\ packets = 0

\* read_macfib, one line
ReadLine(k, nh) ==
    /\ pc = "read"
    /\ Len(maclist) < MaxLines
    /\ maclist' = Append(maclist, k)
    /\ macmap' = [a \in DOMAIN macmap \cup {k} |-> IF a = k THEN nh ELSE macmap[a]]
    /\ nhcount' = [nhcount EXCEPT ![nh] = @ + 1]
    /\ UNCHANGED <<pc, size, filter, inserted, stats>>

\* create_mac_table up to its insertion loop: the sizes are taken from the
\* file in the order of nhlist. Without a next hop, size() * 32 = 0 divides.
CreateFilters ==
    /\ pc = "read"
    /\ IF nhlist = {}
         THEN pc' = "crashed" /\ UNCHANGED <<size, filter>>
         ELSE /\ pc' = "insert"
              /\ size' \in [nhlist -> Sizes]
              /\ filter' = [nh \in nhlist |-> NewTable(size'[nh], nhcount[nh])]
    /\ UNCHANGED <<fib, inserted, stats>>

\* one turn of the insertion loop, under the next hop macmap has now
InsertNext ==
    LET k == maclist[inserted + 1]
        nh == macmap[k]
    IN  /\ pc = "insert"
        /\ inserted < Len(maclist)
        /\ inserted' = inserted + 1
        /\ filter' = [filter EXCEPT ![nh] = BfInsert(@, k, TableSize(size[nh]))]
        /\ UNCHANGED <<pc, fib, size, stats>>

StartTest == /\ pc = "insert"
             /\ inserted = Len(maclist)
             /\ pc' = "test"
             /\ UNCHANGED <<fib, size, filter, inserted, stats>>

HitHops(k) == {nh \in nhlist : Contains(filter[nh], k, TableSize(size[nh]))}

\* a packet is counted by fetchmac and again by the loop
PerPacket == 2

Wrong(error) == error > 1

\* one turn of the loop of perform_mac_lookup
Lookup(k) ==
    LET error == Cardinality(HitHops(k))
    IN  /\ pc = "test"
        /\ packets < MaxPackets
        /\ packets' = packets + 1
        /\ packet_count' = packet_count + PerPacket
        /\ falsepos' = falsepos + (IF Wrong(error) THEN 1 ELSE 0)
        /\ maxerror' = Max({maxerror, error})
        /\ avgerror' = avgerror + error
        /\ UNCHANGED <<pc, fib, size, filter, inserted>>

\* end of the trace: test_samples is packet_count
EndOfTrace == /\ pc = "test"
              /\ pc' = "done"
              /\ UNCHANGED <<fib, size, filter, inserted, stats>>

Next == \/ \E k \in Key, nh \in NextHop : ReadLine(k, nh)
        \/ CreateFilters
        \/ InsertNext
        \/ StartTest
        \/ \E k \in Key : Lookup(k)
        \/ EndOfTrace

Spec == Init /\ [][Next]_vars
----------------------------------------------------------------------------
\* Types of the variables: a cell of a filter holds 0, 1 or 2.
TypeOK ==
    /\ pc \in {"read", "insert", "test", "done", "crashed"}
    /\ \A i \in DOMAIN maclist : maclist[i] \in Key /\ macmap[maclist[i]] \in NextHop
    /\ DOMAIN filter \subseteq nhlist /\ DOMAIN size = DOMAIN filter
    /\ \A nh \in DOMAIN filter : \A c \in DOMAIN filter[nh] : filter[nh][c] \in 0 .. 2
    /\ inserted \in 0 .. Len(maclist)
    /\ {packet_count, falsepos, maxerror, avgerror} \subseteq Nat

\* An address of the FIB is always found, and by the filter of its own next
\* hop, for every size.txt and also when the FIB lists the address twice.
KnownIsHit ==
    pc = "test" => \A k \in DOMAIN macmap : macmap[k] \in HitHops(k)

\* The loop over next hops takes every hit into account: a second next hop
\* is always a false positive for the address, so falsepos misses none.  And
\* every packet was counted twice (BloomFilterTest.cc:190 and 450): the rate
\* printed at the end, falsepos / test_samples, is half of what it should be.
TotalsConsistent ==
    /\ 2 * falsepos <= avgerror
    /\ falsepos = 0 <=> maxerror <= 1
    /\ avgerror <= packets * maxerror
    /\ packet_count = 2 * packets
============================================================================
