----------------------------- MODULE MCFibTools -----------------------------
(* The programs that read a FIB file, one of them at a time, with small     *)
(* files for TLC: bloomtest on an IP FIB and on a MAC FIB, overlap, flat.   *)
(* Programs share the variables that they declare alike.                    *)
EXTENDS BloomTest, TLC

VARIABLES program,
          maclist, macmap, nhcount, size,                    \* MacTest
          lines, alllist, newlist, j, todo, errors, asread,  \* Overlap, asread also Flat
          flatlist, otherlist, filled                        \* Flat

MCKey == 0 .. 3
MCHash == 1 .. 2
\* the last two keys share a seed
MCRand == 0 :> <<0, 1>> @@ 1 :> <<1, 2>> @@ 2 :> <<2, 3>> @@ 3 :> <<2, 3>>
Hops == {101, 102}
Aligned == {[len |-> n, addr |-> a] : n \in 0 .. 3, a \in 0 .. 7}
           \cap UNION {{[len |-> n, addr |-> a * 2^(3 - n)] : a \in 0 .. 2^n - 1} : n \in 0 .. 3}

M == INSTANCE MacTest WITH Key <- 1 .. 3, NextHop <- Hops, Sizes <- {0, 2, 4}, MaxLines <- 3, MaxPackets <- 2
O == INSTANCE Overlap WITH W <- 3, NextHop <- Hops, None <- 0, MaxLines <- 3, fib <- asread
F == INSTANCE Flat WITH W <- 3, F <- 2, Lines <- Aligned, NextHop <- Hops, MaxLines <- 3,
                        pfxlist <- flatlist, fib <- asread

ASSUME ToolAssumptions == M!MacTestAssumption /\ O!OverlapAssumption /\ F!FlatAssumption

macs     == <<maclist, macmap, nhcount, size>>
passes   == <<lines, alllist, newlist, j, todo, errors>>
flat     == <<flatlist, otherlist, filled>>
counts   == <<packet_count, falsepos, maxerror, avgerror, packets>>
shared   == <<filter, inserted, counts>>
prefixes == <<pfxlist, nh_pfxlen_count, falseneg, last>>

MCInit == /\ program \in {"bloomtest", "mactest", "overlap", "flat"}
          /\ Init /\ M!Init /\ O!Init /\ F!Init

Bloom(action)   == program = "bloomtest" /\ action /\ UNCHANGED <<program, macs, passes, asread, flat>>
MacTool(action) == program = "mactest" /\ action /\ UNCHANGED <<program, prefixes, pmap, passes, asread, flat>>
Rewrite(action) == program = "overlap" /\ action /\ UNCHANGED <<program, prefixes, shared, macs, flat>>
Flatten(action) == program = "flat" /\ action /\ UNCHANGED <<program, prefixes, shared, macs, passes>>

IpReadLine(p, nh)      == Bloom(ReadLine(p, nh))
IpCreateFilters        == Bloom(CreateFilters)
IpInsertNext           == Bloom(InsertNext)
IpStartTest            == Bloom(StartTest)
IpLookup(addr)         == Bloom(Lookup(addr))
IpEndOfTrace           == Bloom(EndOfTrace)
MacReadLine(k, nh)     == MacTool(M!ReadLine(k, nh))
MacCreateFilters       == MacTool(M!CreateFilters)
MacInsertNext          == MacTool(M!InsertNext)
MacStartTest           == MacTool(M!StartTest)
MacLookup(k)           == MacTool(M!Lookup(k))
MacEndOfTrace          == MacTool(M!EndOfTrace)
OverlapReadLine(p, nh) == Rewrite(O!ReadLine(p, nh))
OverlapEndOfFile       == Rewrite(O!EndOfFile)
OverlapVisit           == Rewrite(O!Visit)
OverlapEndOfPass       == Rewrite(O!EndOfPass)
OverlapCheck           == Rewrite(O!Check)
FlatReadLine(p, nh)    == Flatten(F!ReadLine(p, nh))
FlatEndOfFile          == Flatten(F!EndOfFile)
FlatFill               == Flatten(F!Fill)
FlatFinish             == Flatten(F!Finish)

MCNext ==
    \/ \E p \in Prefix, nh \in NextHop : IpReadLine(p, nh)
    \/ IpCreateFilters
    \/ IpInsertNext
    \/ IpStartTest
    \/ \E addr \in Key : IpLookup(addr)
    \/ IpEndOfTrace
    \/ \E k \in 1 .. 3, nh \in Hops : MacReadLine(k, nh)
    \/ MacCreateFilters
    \/ MacInsertNext
    \/ MacStartTest
    \/ \E k \in 1 .. 3 : MacLookup(k)
    \/ MacEndOfTrace
    \/ \E p \in O!Prefix, nh \in Hops : OverlapReadLine(p, nh)
    \/ OverlapEndOfFile
    \/ OverlapVisit
    \/ OverlapEndOfPass
    \/ OverlapCheck
    \/ \E p \in Aligned, nh \in Hops : FlatReadLine(p, nh)
    \/ FlatEndOfFile
    \/ FlatFill
    \/ FlatFinish

MCSpec == MCInit /\ [][MCNext]_<<program, vars, macs, passes, asread, flat>>

\* The filters that are tested hold every route under the next hop that the FIB gives it last, for an IP
\* FIB and for a MAC FIB with any size.txt (BloomFilterTest.cc:64-106 and 115-134), and a match chosen
\* from them is never shorter than a route (BloomFilterTest.cc:273-293).
NoneMissing == IF program = "mactest" THEN M!TypeOK /\ M!KnownIsHit
               ELSE program = "bloomtest" => TypeOK /\ NoRouteMissing /\ NeverShorterMatch

\* The totals printed agree with each other, and a wrong next hop comes with several hits, so "lookup
\* error" (BloomFilterTest.cc:323) is never printed.
TotalsAgree == IF program = "mactest" THEN M!TotalsConsistent
               ELSE program = "bloomtest" => TotalsConsistent /\ NoLookupError

\* overlap.cc routes each address as the FIB does after every split, splits no more than is needed, and
\* leaves no overlap but with a default route; flat.cc keeps every address that the FIB routes, at its
\* longest prefix when the file is in an order that its single pass relies on.
FibsRewritten ==
    /\ program = "overlap" =>
          O!TypeOK /\ O!LookupPreserved /\ O!ShorterAreLeaves /\ O!SplitsAreNeeded /\ O!OnlyDefaultOverlaps
    /\ program = "flat" => F!FlatExact
=============================================================================
