--------------------------- MODULE RangeIPLookup ---------------------------
(***************************************************************************)
(* The element RangeIPLookup (rangeiplookup.cc): the tables of a           *)
(* DirectIPLookup, distilled after every change into a vector of ranges of *)
(* addresses with one virtual port, and for every value of the first Kick  *)
(* bits (KICKSTART_BITS, 12) the part of the vector that lookups search.   *)
(***************************************************************************)
EXTENDS DirectIPLookup

CONSTANT Kick  \* bits that index range_base; also the width of a vport in range_t

ASSUME RangeAssumption == Kick \in 1 .. PBits

VARIABLES ranges,  \* [base, len, t]: _range_base, from 1, _range_len and _range_t
          active,  \* _active
          flushed  \* (history) flushed, and not expanded since

rvars == <<ranges, active, flushed>>

Blocks == 0 .. 2^Kick - 1
BlockSize == 2^(W - Kick)

\* expand: a range begins where a block does or the vport changes.  A vport too
\* wide for its bits loses the upper ones; len is one less than the ranges.
Narrow(ix) == ((ix - 1) % 2^Kick) + 1
RangesOf(b, ix) ==
    LET at(k) == ix[b * BlockSize + k]
        begins == Ext!SetToSortSeq({k \in 0 .. BlockSize - 1 : k = 0 \/ at(k) # at(k - 1)}, <)
    IN  [n \in DOMAIN begins |-> [vport |-> Narrow(at(begins[n])), low |-> begins[n]]]
Expanded(ix) ==
    LET upto[b \in 0 .. 2^Kick] ==
          IF b = 0 THEN << >> ELSE upto[b - 1] \o RangesOf(b - 1, ix)
    IN  [t |-> upto[2^Kick],
         base |-> [b \in Blocks |-> Len(upto[b]) + 1],
         len |-> [b \in Blocks |-> Len(RangesOf(b, ix)) - 1]]
VportOf == [addr \in Addr |-> LookupVport(addr)]

\* the constructor's tables are not read before initialize expands the routes
RangeInit == /\ DirectInit
             /\ ranges = [t |-> << >>, base |-> << >>, len |-> << >>]
             /\ active = FALSE /\ flushed = FALSE

Initialize == /\ ~active /\ active' = TRUE
              /\ ranges' = Expanded(VportOf)
              /\ UNCHANGED <<dvars, flushed>>

\* mutant: the ranges are not made anew
Distill_Stale == UNCHANGED rvars

\* what add_route and remove_route do after a command of the tables returned 0
Distill == /\ ranges' = IF active THEN Expanded(VportOf)' ELSE ranges
           /\ flushed' = (flushed /\ ~active)
           /\ UNCHANGED active

RangeSetDefault(via, set) == SetDefault(via, set) /\ Distill
RangeRemoveDefault(via) == RemoveDefault(via) /\ Distill
RangeAddRoute(p, via, set) ==
    /\ DirectAddRoute(p, via, set)
    /\ IF Stopped(IF set THEN "set" ELSE "add", p) THEN UNCHANGED rvars ELSE Distill
RangeAddNoMemory(p, via, set) == AddNoMemory(p, via, set) /\ UNCHANGED rvars
RangeRemoveRoute(p, via) ==
    /\ DirectRemoveRoute(p, via)
    /\ IF Stopped("remove", p) THEN UNCHANGED rvars ELSE Distill

\* flush_handler: sizeof a pointer, 8 bytes, clears two entries of each table
RangeFlush ==
    /\ active /\ Flush
    /\ ranges' = [t |-> [n \in DOMAIN ranges.t |-> IF n <= 2 THEN [vport |-> 1, low |-> 0] ELSE ranges.t[n]],
                  base |-> [b \in Blocks |-> IF b < 2 THEN 1 ELSE ranges.base[b]],
                  len |-> [b \in Blocks |-> IF b < 2 THEN 0 ELSE ranges.len[b]]]
    /\ flushed' = TRUE /\ UNCHANGED active

RangeNext ==
    \/ Initialize
    \/ \E via \in Via, set \in BOOLEAN : RangeSetDefault(via, set)
    \/ \E p \in Prefixes, via \in Via, set \in BOOLEAN : RangeAddRoute(p, via, set)
    \/ \E p \in Prefixes, via \in Via, set \in BOOLEAN : RangeAddNoMemory(p, via, set)
    \/ \E via \in Via \cup {Any} : RangeRemoveDefault(via)
    \/ \E p \in Prefixes, via \in Via \cup {Any} : RangeRemoveRoute(p, via)
    \/ RangeFlush

RangeSpec == RangeInit /\ [][RangeNext]_<<dvars, rvars>>

\* lookup_route: binary search in the ranges of the address's block
RangeVport(addr) ==
    LET b == addr \div BlockSize
        low == addr % BlockSize
        t == ranges.t
        search[n \in 1 .. Len(t), m \in 1 .. Len(t)] ==
          LET middle == (n + m) \div 2
          IN  IF m <= n THEN n
              ELSE IF low < t[middle].low THEN search[n, middle]
              ELSE IF low < t[middle + 1].low THEN middle
              ELSE search[middle + 1, m]
    IN  t[search[ranges.base[b], ranges.base[b] + ranges.len[b]]].vport
----------------------------------------------------------------------------
\* Lookups by range and by the tables agree (rangeiplookup.cc:67-73), as long as
\* the vports fit their bits and no flush has left the old ranges behind.
RangesAgree == active /\ ~flushed /\ Len(vport) <= 2^Kick =>
                  \A a \in Addr : RangeVport(a) = LookupVport(a)
============================================================================
