-------------------------------- MODULE Flat --------------------------------
(***************************************************************************)
(* flat.cc and ip2mac.cc: a FIB is rewritten as a table of the prefixes of *)
(* one length, F bits (24 in the code), for tables that look addresses up  *)
(* exactly.  A shorter prefix is expanded and a longer one is cut; what    *)
(* has a next hop already is left alone, so the order of the file decides. *)
(*                                                                         *)
(* Addresses have W bits, 32 in the code.                                  *)
(***************************************************************************)
EXTENDS Integers, Sequences, FiniteSetsExt

CONSTANTS W, F,
          Lines,    \* the prefixes of FIB files, without bits beyond their length
          NextHop,
          MaxLines  \* bound: lines of the FIB file

FlatAssumption == /\ W \in Nat /\ F \in 1 .. W /\ MaxLines \in Nat
                  /\ \A p \in Lines : p.len \in 0 .. W /\ p.addr % 2^(W - p.len) = 0

VARIABLES pc,        \* "read", "fill" or "done"
          pmap,      \* prefix -> next hop, of the file and then of the table too
          pfxlist,   \* the table's prefixes, of F bits
          otherlist, \* the file's prefixes of other lengths, in its order
          filled,    \* entries of otherlist already expanded or cut
          fib        \* (history) the file's prefixes and their next hops

vars == <<pc, pmap, pfxlist, otherlist, filled, fib>>

\* the prefix of length len that addr is in
Cut(addr, len) == [len |-> len, addr |-> (addr \div 2^(W - len)) * 2^(W - len)]

Init == /\ pc = "read"
        /\ pmap = << >> /\ pfxlist = {} /\ otherlist = << >> /\ filled = 0 /\ fib = << >>

ReadLine(p, nh) ==
    /\ pc = "read" /\ Cardinality(pfxlist) + Len(otherlist) < MaxLines
    /\ pmap' = [q \in DOMAIN pmap \cup {p} |-> IF q = p THEN nh ELSE pmap[q]]
    /\ fib' = pmap'
    /\ IF p.len = F THEN pfxlist' = pfxlist \cup {p} /\ UNCHANGED otherlist
                    ELSE otherlist' = Append(otherlist, p) /\ UNCHANGED pfxlist
    /\ UNCHANGED <<pc, filled>>

EndOfFile == pc = "read" /\ pc' = "fill" /\ UNCHANGED <<pmap, pfxlist, otherlist, filled, fib>>

\* the prefixes of F bits that p becomes
Parts(p) == IF p.len < F THEN {[len |-> F, addr |-> p.addr + i * 2^(W - F)] : i \in 0 .. 2^(F - p.len) - 1}
            ELSE {Cut(p.addr, F)}

\* mutant: a prefix that has a next hop is given another
New_All(p) == Parts(p)
New(p) == Parts(p) \ DOMAIN pmap

\* one turn of the loop over otherlist
Fill == LET p == otherlist[filled + 1]
        IN  /\ pc = "fill" /\ filled < Len(otherlist)
            /\ pfxlist' = pfxlist \cup New(p)
            /\ pmap' = [q \in DOMAIN pmap \cup New(p) |-> IF q \in New(p) THEN pmap[p] ELSE pmap[q]]
            /\ filled' = filled + 1
            /\ UNCHANGED <<pc, otherlist, fib>>

Finish == /\ pc = "fill" /\ filled = Len(otherlist) /\ pc' = "done"
          /\ UNCHANGED <<pmap, pfxlist, otherlist, filled, fib>>

Next == \/ \E p \in Lines, nh \in NextHop : ReadLine(p, nh)
        \/ EndOfFile
        \/ Fill
        \/ Finish

Spec == Init /\ [][Next]_vars
----------------------------------------------------------------------------
\* The lengths of the file's prefixes that hold addr.
Matching(addr) == {len \in 0 .. W : Cut(addr, len) \in DOMAIN fib}

\* A file that gives no prefix of more than F bits, and every prefix before the
\* first mention of a shorter one that contains it, as a sorted FIB does backwards.
LongestFirst ==
    /\ \A i \in DOMAIN otherlist : otherlist[i].len < F
    /\ \A i \in DOMAIN otherlist : \A k \in 1 .. i :
         otherlist[k].len < otherlist[i].len /\ Cut(otherlist[i].addr, otherlist[k].len) = otherlist[k]
            => \E h \in 1 .. k : otherlist[h] = otherlist[i]

\* The finished table holds every address that a prefix of up to F bits holds,
\* and routes it by the longest one when the file is in that order, also if it
\* gives a prefix twice (flat.cc:71-103).
FlatExact ==
    pc = "done" =>
      \A a \in 0 .. 2^W - 1 :
        /\ \A len \in Matching(a) : Cut(a, F) \in pfxlist
        /\ Cut(a, F) \in pfxlist /\ LongestFirst => pmap[Cut(a, F)] = fib[Cut(a, Max(Matching(a)))]
=============================================================================
