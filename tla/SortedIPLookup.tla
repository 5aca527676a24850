--------------------------- MODULE SortedIPLookup ---------------------------
(***************************************************************************)
(* The element SortedIPLookup (sortediplookup.cc): a LinearIPLookup that   *)
(* sorts its vector after every change, so that no route is before one     *)
(* within it, there are no holes and the first route found is the one.     *)
(***************************************************************************)
EXTENDS LinearIPLookup

Ext == INSTANCE SequencesExt

\* sort_table.  Order(s)[k]: permute with k of its entries processed.  dep of a
\* slot is the number of routes in Inside(s, i) not processed; first and the
\* queue of slots whose dep reached 0 give the next one to process.
Inside(s, i) == {j \in RealSlots(s) \ {i} : Within(s[j], s[i])}
Order(s) ==
    LET order[k \in 0 .. Cardinality(RealSlots(s))] ==
          IF k = 0 THEN << >>
          ELSE LET before == order[k - 1]
                   first == Min({i \in RealSlots(s) \ Range(before) :
                                    Inside(s, i) \subseteq Range(before)})
                   queue == IF Len(before) >= k THEN before ELSE Append(before, first)
                   done == {queue[j] : j \in 1 .. k}
                   freed == {i \in RealSlots(s) \ Range(queue) :
                                /\ queue[k] \in Inside(s, i)
                                /\ Inside(s, i) \subseteq done}
               IN  queue \o Ext!SetToSortSeq(freed, <)
    IN  order

Sorted(s) ==
    LET permute == Order(s)[Cardinality(RealSlots(s))]
    IN  [k \in 1 .. Len(permute) |-> [s[permute[k]] EXCEPT !.extra = Inf]]

\* add_route: LinearIPLookup's, and the table sorted when it was changed
SortedAddRoute(p, via, set) ==
    \/ /\ SlotOf(p) # {}
       /\ IF set THEN /\ t' = Sorted([t EXCEPT ![Min(SlotOf(p))].via = via])
                      /\ zero_route' = 0
                 ELSE UNCHANGED <<t, zero_route>>
       /\ UNCHANGED cache
    \/ /\ SlotOf(p) = {}
       /\ FreeSlot(t) <= MaxSlots
       /\ t' = Sorted(Placed(t, p, via, FreeSlot(t)))
       /\ zero_route' = 0
       /\ cache' = NoCache

\* remove_route: the same
SortedRemoveRoute(p, via) ==
    IF Matching(p, via) = {}
      THEN UNCHANGED vars
      ELSE LET i == Min(Matching(p, via))
           IN  /\ t' = Sorted(AfterKill([t EXCEPT ![i] = Killed(@)], i).t)
               /\ zero_route' = 0
               /\ cache' = CacheAfterRemove

\* lookup_entry, and push as in LinearIPLookup
SortedEntry(addr) == LET hits == {i \in Slots(t) : Holds(t[i], addr)}
                     IN  IF hits = {} THEN 0 ELSE Min(hits)

SortedServed(addr) == IF addr # 0 /\ addr = cache[1].addr THEN cache[1].entry
                      ELSE IF addr # 0 /\ addr = cache[2].addr THEN cache[2].entry
                      ELSE SortedEntry(addr)

SortedPush(addr) ==
    /\ addr = 0 \/ addr \notin {cache[1].addr, cache[2].addr}
    /\ SortedEntry(addr) # 0
    /\ cache' = <<[addr |-> addr, entry |-> SortedEntry(addr)], cache[1]>>
    /\ UNCHANGED <<t, zero_route>>

SortedNext ==
    \/ \E p \in Named, via \in Via, set \in BOOLEAN : SortedAddRoute(p, via, set)
    \/ \E p \in Named, via \in Via \cup {Any} : SortedRemoveRoute(p, via)
    \/ \E addr \in Addr : SortedPush(addr)

SortedSpec == Init /\ [][SortedNext]_vars
----------------------------------------------------------------------------
\* check() finds every route before those it is within and no pointer into the
\* table (sortediplookup.cc:49-54); there are no holes and no zero route.
SortedOK == /\ \A i \in Slots(t) : Real(t[i]) /\ t[i].extra > Len(t)
            /\ \A i, j \in Slots(t) : i < j => ~Within(t[j], t[i])
            /\ zero_route = 0

\* A route that is changed in place leaves the caches alone and sorts the table
\* again (lineariplookup.cc:108-111, sortediplookup.cc:122): no entry moves.
SortedCachesOK ==
    \A c \in {1, 2} : cache[c].addr # 0 => SortedEntry(cache[c].addr) = cache[c].entry
============================================================================
