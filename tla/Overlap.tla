------------------------------ MODULE Overlap ------------------------------
(***************************************************************************)
(* overlap.cc: a FIB is rewritten so that no prefix contains another, for  *)
(* tables that do no longest-prefix matching.  Length by length, a prefix  *)
(* that contains another one is replaced by its two halves.                *)
(*                                                                         *)
(* Addresses have W bits, 32 in the code.                                  *)
(***************************************************************************)
EXTENDS Integers, Sequences, FiniteSetsExt

CONSTANTS W,          \* bits of an address
          NextHop,    \* next hops
          None,       \* the answer for an address without a route
          MaxLines    \* bound: lines of the FIB file

OverlapAssumption == W \in Nat \ {0, 1} /\ None \notin NextHop

Addr == 0 .. 2^W - 1
Prefix == [len : 0 .. W, addr : Addr]

VARIABLES pc,      \* "read", "split", "check", "done"
          lines,   \* lines read
          pmap,    \* prefix -> nexthop; keeps the prefixes that were split
          alllist, \* the prefixes before the pass for length j
          newlist, \* and as the pass changes them
          j,       \* the length of the pass
          todo,    \* prefixes of alllist of length j not yet visited
          errors,  \* pairs that the check at the end prints
          fib      \* history: the FIB as read

vars == <<pc, lines, pmap, alllist, newlist, j, todo, errors, fib>>

\* addr & (0xffffffff << (W - len))
Masked(addr, len) == (addr \div 2^(W - len)) * 2^(W - len)

\* prefix::contains for a length of at least 1. A prefix whose own address has
\* bits beyond its length contains nothing, not even itself.
Within(p, q) == p.len < q.len /\ Masked(q.addr, p.len) = p.addr

\* prefix::contains for length 0 shifts by W, undefined: compilers leave the
\* mask all ones (x86 shifts modulo 32) or clear it.
ContainsIf(shiftClears, p, q) ==
    IF p.len > 0 THEN Within(p, q)
    ELSE q.len > 0 /\ p.addr = (IF shiftClears THEN 0 ELSE q.addr)

Init == /\ pc = "read" /\ lines = 0
        /\ pmap = << >> /\ alllist = {} /\ newlist = {}
        /\ j = 1 /\ todo = {} /\ errors = {} /\ fib = << >>

\* one line of the FIB file; a prefix given twice keeps the last next hop
ReadLine(p, nh) ==
    /\ pc = "read"
    /\ lines < MaxLines
    /\ lines' = lines + 1
    /\ pmap' = [q \in DOMAIN pmap \cup {p} |-> IF q = p THEN nh ELSE pmap[q]]
    /\ alllist' = alllist \cup {p}
    /\ fib' = pmap'
    /\ UNCHANGED <<pc, newlist, j, todo, errors>>

OfLength(S, len) == {p \in S : p.len = len}

\* the passes are for the lengths 1 .. W - 1
EndOfFile ==
    /\ pc = "read"
    /\ newlist' = alllist
    /\ pc' = "split"
    /\ todo' = OfLength(alllist, 1)
    /\ UNCHANGED <<lines, pmap, alllist, j, errors, fib>>

Halves(p) == {[len |-> p.len + 1, addr |-> Masked(p.addr, p.len + 1)],
              [len |-> p.len + 1,
               addr |-> Masked(p.addr + 2^(W - p.len - 1), p.len + 1)]}

\* mutant: a half that has a route of its own is overwritten
Added_All(p) == Halves(p)

Added(p) == {h \in Halves(p) : h \notin newlist}

Splits(p) == \E q \in newlist : Within(p, q)

Replaced(p) == (newlist \ {p}) \cup Added(p)

\* one turn of the loop over alllist, in the order of addresses
Visit ==
    /\ pc = "split"
    /\ todo # {}
    /\ LET p == CHOOSE q \in todo : \A r \in todo : q.addr <= r.addr
       IN  /\ todo' = todo \ {p}
           /\ IF Splits(p)
                THEN /\ newlist' = Replaced(p)
                     /\ pmap' = [q \in DOMAIN pmap \cup Added(p) |->
                                   IF q \in Added(p) THEN pmap[p] ELSE pmap[q]]
                ELSE UNCHANGED <<newlist, pmap>>
    /\ UNCHANGED <<pc, lines, alllist, j, errors, fib>>

LastPass == W - 1

EndOfPass ==
    /\ pc = "split"
    /\ todo = {}
    /\ alllist' = newlist
    /\ j' = j + 1
    /\ todo' = OfLength(newlist, j + 1)
    /\ pc' = IF j >= LastPass THEN "check" ELSE "split"
    /\ UNCHANGED <<lines, pmap, newlist, errors, fib>>

\* the double loop that prints "error" for a prefix within a shorter one
Check ==
    /\ pc = "check"
    /\ pc' = "done"
    /\ \E shiftClears \in BOOLEAN :
         errors' = {x \in alllist \X alllist : ContainsIf(shiftClears, x[2], x[1])}
    /\ UNCHANGED <<lines, pmap, alllist, newlist, j, todo, fib>>

Next == \/ \E p \in Prefix, nh \in NextHop : ReadLine(p, nh)
        \/ EndOfFile
        \/ Visit
        \/ EndOfPass
        \/ Check

Spec == Init /\ [][Next]_vars
----------------------------------------------------------------------------
\* The next hop of the longest prefix of S that holds addr.
LookupIn(S, nexthop, addr) ==
    LET lens == {len \in 0 .. W : [len |-> len, addr |-> Masked(addr, len)] \in S}
    IN  IF lens = {} THEN None
        ELSE nexthop[[len |-> Max(lens), addr |-> Masked(addr, Max(lens))]]

\* Types of the variables: every prefix of the lists has a next hop.
TypeOK ==
    /\ pc \in {"read", "split", "check", "done"}
    /\ lines \in 0 .. MaxLines /\ j \in 1 .. W
    /\ DOMAIN pmap \subseteq Prefix
    /\ \A p \in DOMAIN pmap : pmap[p] \in NextHop
    /\ alllist \cup newlist \subseteq DOMAIN pmap
    /\ todo \subseteq OfLength(alllist, j)

\* At every step of every pass the rewritten table routes each address as the
\* FIB does.
LookupPreserved ==
    pc # "read" => \A a \in Addr :
        LookupIn(newlist, pmap, a) = LookupIn(DOMAIN fib, fib, a)

\* What the passes done so far have reached: a prefix shorter than j, and one
\* of length j already visited, contains no other, but for a default route,
\* for which there is no pass.
ShorterAreLeaves ==
    pc # "read" => \A p, q \in newlist :
        0 < p.len /\ (p.len < j \/ (p.len = j /\ p \notin todo /\ pc = "split"))
            => ~Within(p, q)

\* A prefix is split only as far as it is needed: one that was made by
\* splitting is next to a route of the FIB, or holds one.
SplitsAreNeeded ==
    pc = "done" => \A p \in alllist \ DOMAIN fib :
        \E q \in DOMAIN fib : /\ q.len >= p.len
                              /\ Masked(q.addr, p.len - 1) = Masked(p.addr, p.len - 1)

\* The check at the end has nothing to print but for a default route.
OnlyDefaultOverlaps == \A x \in errors : x[2].len = 0
============================================================================
