--------------------------- MODULE LinearIPLookup ---------------------------
(***************************************************************************)
(* The element LinearIPLookup (lineariplookup.cc): a vector of routes with *)
(* holes.  Each route has a pointer "extra" to the next route within it,   *)
(* where a lookup that met it first goes on.  push keeps the entries of    *)
(* the last two addresses.                                                 *)
(*                                                                         *)
(* A hole is a killed route: it keeps its pointer and has the prefix of    *)
(* the single address 0, so that it must not be met before a real route    *)
(* for that address.  Slots are numbered from 1, 0 stands for -1.          *)
(***************************************************************************)
EXTENDS IPPrefix, Sequences, FiniteSetsExt

CONSTANTS Named,     \* the prefixes that commands name
          Asked,     \* the addresses of RouteTable, see there
          Dead,      \* the port of a killed route, -0x80000000
          MaxSlots   \* bound: slots of the vector

LinearAssumption == /\ Named \subseteq AllPrefixes /\ Asked \subseteq Addr
                    /\ Dead \notin Via \cup {Any, None} /\ MaxSlots \in Nat

VARIABLES t,          \* _t
          zero_route, \* slot of the route for address 0 alone
          cache       \* _last_addr/_last_entry and _last_addr2/_last_entry2

vars == <<t, zero_route, cache>>

Inf == MaxSlots + 1         \* 0x7FFFFFFF
NoCache == <<[addr |-> 0, entry |-> 0], [addr |-> 0, entry |-> 0]>>
Zero == [addr |-> 0, len |-> W]
Pfx(r) == [addr |-> r.addr, len |-> r.len]

Real(r) == r.via # Dead
Killed(r) == [r EXCEPT !.addr = 0, !.len = W, !.via = Dead]
Slots(s) == 1 .. Len(s)
RealSlots(s) == {i \in Slots(s) : Real(s[i])}

Init == t = << >> /\ zero_route = 0 /\ cache = NoCache

\* the first hole, or a new slot
FreeSlot(s) == LET holes == Slots(s) \ RealSlots(s)
               IN  IF holes = {} THEN Len(s) + 1 ELSE Min(holes)

\* mutant: the routes before the new one are left as they are
Placed_NoPatch(s, p, via, found) ==
    LET within == {i \in RealSlots(s) : i > found /\ Within(s[i], p)}
        new == [addr |-> p.addr, len |-> p.len, via |-> via,
                extra |-> IF within = {} THEN Inf ELSE Min(within)]
    IN  [i \in Slots(s) \cup {found} |-> IF i = found THEN new ELSE s[i]]

\* a new route in slot found, and the pointers patched up
Placed(s, p, via, found) ==
    LET within == {i \in RealSlots(s) : i > found /\ Within(s[i], p)}
        new == [addr |-> p.addr, len |-> p.len, via |-> via,
                extra |-> IF within = {} THEN Inf ELSE Min(within)]
    IN  [i \in Slots(s) \cup {found} |->
           IF i = found THEN new
           ELSE IF i < found /\ Within(p, s[i]) /\ s[i].extra > found
                  THEN [s[i] EXCEPT !.extra = found] ELSE s[i]]

SlotOf(p) == {i \in RealSlots(t) : Pfx(t[i]) = p}

\* add_route: a route there already is kept, or changed in place
AddRoute(p, via, set) ==
    \/ /\ SlotOf(p) # {}
       /\ t' = IF set THEN [t EXCEPT ![Min(SlotOf(p))].via = via] ELSE t
       /\ UNCHANGED <<zero_route, cache>>
    \/ LET found == FreeSlot(t)
       IN  /\ SlotOf(p) = {}
           /\ found <= MaxSlots
           /\ t' = Placed(t, p, via, found)
           /\ zero_route' = IF p = Zero THEN found ELSE zero_route
           /\ cache' = NoCache

\* slot i of s has become a hole: the route for address 0 is added anew when
\* it is in a later slot
AfterKill(s, i) ==
    IF i = zero_route THEN [t |-> s, zero |-> 0]
    ELSE IF i > zero_route THEN [t |-> s, zero |-> zero_route]
    ELSE LET without == [s EXCEPT ![zero_route] = Killed(@)]
             found == FreeSlot(without)
         IN  [t |-> Placed(without, Zero, s[zero_route].via, found), zero |-> found]

CacheAfterRemove == NoCache

\* remove_route: IPRoute::match does not ask whether the route is real
Matching(p, via) == {i \in Slots(t) : Pfx(t[i]) = p /\ via \in {Any, t[i].via}}

RemoveRoute(p, via) ==
    IF Matching(p, via) = {}
      THEN UNCHANGED vars
      ELSE LET i == Min(Matching(p, via))
               after == AfterKill([t EXCEPT ![i] = Killed(@)], i)
           IN  /\ t' = after.t
               /\ zero_route' = after.zero
               /\ cache' = CacheAfterRemove

\* mutant: the search ends at the pointer's route
LookupEntry_First(addr) ==
    LET hits == {i \in Slots(t) : Holds(t[i], addr)}
    IN  IF hits = {} THEN 0 ELSE Min(hits)

\* lookup_entry: the first route that holds addr, then every one from its
\* pointer on; of two equally long ones the later
LookupEntry(addr) ==
    LET hits == {i \in Slots(t) : Holds(t[i], addr)}
        first == Min(hits)
        met == {first} \cup {i \in hits : i >= t[first].extra}
    IN  IF hits = {} THEN 0
        ELSE Max({i \in met : \A k \in met : t[k].len <= t[i].len})

\* the entry push takes for addr: from a cache, or looked up
Served(addr) == IF addr # 0 /\ addr = cache[1].addr THEN cache[1].entry
                ELSE IF addr # 0 /\ addr = cache[2].addr THEN cache[2].entry
                ELSE LookupEntry(addr)

\* a push that looks up and finds: both caches change; others change nothing
Push(addr) ==
    /\ addr = 0 \/ addr \notin {cache[1].addr, cache[2].addr}
    /\ LookupEntry(addr) # 0
    /\ cache' = <<[addr |-> addr, entry |-> LookupEntry(addr)], cache[1]>>
    /\ UNCHANGED <<t, zero_route>>

Next == \/ \E p \in Named, via \in Via, set \in BOOLEAN : AddRoute(p, via, set)
        \/ \E p \in Named, via \in Via \cup {Any} : RemoveRoute(p, via)
        \/ \E addr \in Addr : Push(addr)

Spec == Init /\ [][Next]_vars
----------------------------------------------------------------------------
\* Types of the variables; a slot beyond MaxSlots is never used.
TypeOK ==
    /\ Len(t) <= MaxSlots
    /\ \A i \in Slots(t) : /\ Pfx(t[i]) \in Named \cup {Zero}
                           /\ t[i].via \in Via \cup {Dead}
                           /\ t[i].extra \in i + 1 .. Inf
    /\ zero_route \in 0 .. Len(t)
    /\ \A c \in {1, 2} : cache[c].addr \in Addr /\ cache[c].entry \in 0 .. Len(t)

\* check() finds the pointers right and no prefix twice, whatever holes were
\* made and filled (lineariplookup.cc:53-79).
PointersOK ==
    /\ \A i, j \in RealSlots(t) : i < j /\ j < t[i].extra => ~Within(t[j], t[i])
    /\ \A i, j \in RealSlots(t) : Pfx(t[i]) = Pfx(t[j]) => i = j

\* check() finds the caches right: commands that leave them alone move no
\* entry (lineariplookup.cc:81-91).
CachesOK ==
    \A c \in {1, 2} : cache[c].addr # 0 => LookupEntry(cache[c].addr) = cache[c].entry

\* "need to handle zero routes" (lineariplookup.cc:156): zero_route is the slot
\* of the route for address 0 alone, which is before all holes.
ZeroBeforeHoles ==
    /\ SlotOf(Zero) = IF zero_route = 0 THEN {} ELSE {zero_route}
    /\ \A i \in Slots(t) : i < zero_route => Real(t[i])

Table == [p \in {Pfx(t[i]) : i \in RealSlots(t)} |-> t[Min(SlotOf(p))].via]
ViaOf(entry) == IF entry = 0 THEN None ELSE t[entry].via
============================================================================
