---------------------------- MODULE IPRateMonitor ---------------------------
(***************************************************************************)
(* IPRateMonitor (ipratemon.{cc,hh}): a tree with one table (Stats) for a  *)
(* subnet and one Counter for each address byte seen in it.  A counter     *)
(* whose rate passes the threshold opens a table for the next byte; fold() *)
(* deletes tables whose counters have become quiet.                        *)
(*                                                                         *)
(* A counter is named by the bytes that lead to it, a table by those of    *)
(* its parent counter, the base table by <<>>.  What the moving averages   *)
(* are at a given time is left open: a packet may or may not take its      *)
(* counter over the threshold, and any tables may be quiet.                *)
(***************************************************************************)
EXTENDS Integers, Sequences, FiniteSets, SequencesExt

CONSTANTS MAX_COUNTERS, \* byte values
          Depth,        \* bytes of an address
          CounterSize, StatsSize,
          MEMMAX_MIN,   \* least memory limit but 0, which is none
          MemMaxes,     \* bound: the limits given
          Passes,       \* bound: passes of forced_fold until its threshold is over every rate
          Whens,        \* bound: seconds an anno_level rule is given for
          MaxUnaccounted, \* bound: counters lost to resets
          MaxTime       \* bound: seconds

ASSUME RateMonAssumption ==
    /\ MAX_COUNTERS \in Nat \ {0} /\ Depth \in Nat \ {0}
    /\ CounterSize \in Nat \ {0} /\ StatsSize \in Nat \ {0}
    /\ MEMMAX_MIN \in Nat /\ MEMMAX_MIN >= StatsSize + MAX_COUNTERS * CounterSize
    /\ MemMaxes \subseteq Nat /\ \A m \in MemMaxes : m = 0 \/ m >= MEMMAX_MIN
    /\ Passes \in Nat \ {0} /\ Whens \subseteq Int

Bytes == 0 .. MAX_COUNTERS - 1
Addr == [1 .. Depth -> Bytes]
Prefix(addr, n) == SubSeq(addr, 1, n)

VARIABLES thresh0,     \* _thresh is 0
          memmax,      \* _memmax
          counters,    \* Counters: name -> anno_this
          tables,      \* the open tables (Stats)
          older,       \* their age list, from _first to _last: which comes before which
          alloced_mem, \* _alloced_mem
          now,         \* the epoch, in seconds
          fold_due,    \* a second has passed since prev_fold_time
          folding,     \* 0, or the pass of forced_fold, which has the lock
          unaccounted, \* (history) counters deleted without a word to _alloced_mem
          promised     \* (history) name -> end of the anno_level rule given for it, while no
                       \* table above it has been deleted and nothing reset

tree == <<counters, tables, older, alloced_mem>>
vars == <<thresh0, memmax, counters, tables, older, alloced_mem, now, fold_due, folding, unaccounted,
          promised>>

\* configure and initialize
Init ==
    /\ thresh0 \in BOOLEAN /\ memmax \in MemMaxes
    /\ counters = [c \in {} |-> 0] /\ tables = {<<>>} /\ older = {} /\ alloced_mem = StatsSize
    /\ now = 1 /\ fold_due = FALSE /\ folding = 0 /\ unaccounted = 0
    /\ promised = [c \in {} |-> 0]
----------------------------------------------------------------------------
\* The state of the tree as a value
Tree(cs, ts, o, m) == [counters |-> cs, tables |-> ts, older |-> o, mem |-> m]
This == Tree(counters, tables, older, alloced_mem)
Becomes(t) ==
    counters' = t.counters /\ tables' = t.tables /\ older' = t.older /\ alloced_mem' = t.mem

\* The promises that the deletion of the tables S leaves
Remaining(S) == {c \in DOMAIN promised : \A s \in S : ~IsStrictPrefix(s, c)}
Promise(names) == promised' = [c \in names |-> promised[c]]

\* what ~Stats of the tables S takes with it: their counters and the tables below
CountersBelow(t, S) == {c \in DOMAIN t.counters : \E s \in S : IsStrictPrefix(s, c)}
TablesFrom(t, S) == {r \in t.tables : \E s \in S : IsPrefix(s, r)}
MemWithout(t, S) == t.mem - Cardinality(CountersBelow(t, S)) * CounterSize
                          - Cardinality(TablesFrom(t, S)) * StatsSize
\* mutant: a table below another is deleted but stays in the age list
Deleted_StaysInList(t, S) ==
    Tree([c \in DOMAIN t.counters \ CountersBelow(t, S) |-> t.counters[c]],
         t.tables \ S, t.older \cap ((t.tables \ S) \X (t.tables \ S)), MemWithout(t, S))

\* ~Stats of the tables S, in any order; one that went with another is not met any more
Deleted(t, S) ==
    LET left == t.tables \ TablesFrom(t, S)
    IN  Tree([c \in DOMAIN t.counters \ CountersBelow(t, S) |-> t.counters[c]],
             left, t.older \cap (left \X left), MemWithout(t, S))

\* r is met before s on the way through the age list from either end
Before(t, forward, r, s) == IF forward THEN <<r, s>> \in t.older ELSE <<s, r>> \in t.older
UpTo(t, quiet, forward, s) == {r \in quiet : r = s \/ Before(t, forward, r, s)}
\* mutant: a pass deletes one table
Folded_One(t, quiet, forward, limit) ==
    Deleted(t, {s \in quiet : \A r \in quiet : ~Before(t, forward, r, s)})

\* fold: the quiet tables are deleted until there is room
Folded(t, quiet, forward, limit) ==
    Deleted(t, {s \in quiet : \A r \in quiet :
                   Before(t, forward, r, s) => MemWithout(t, UpTo(t, quiet, forward, r)) >= limit})

\* the limit of fold: 9/10 of what is in use when there is none
FoldLimit(t) == IF memmax # 0 THEN memmax ELSE (t.mem * 9) \div 10

\* no average is below a threshold of 0
QuietSets(t) == IF thresh0 THEN {{}} ELSE SUBSET (t.tables \ {<<>>})
----------------------------------------------------------------------------
\* mutant: what is to be allocated does not count
Room_Before(t, n) == memmax = 0 \/ t.mem <= memmax

\* make_counter's limit
Room(t, n) == memmax = 0 \/ t.mem + n <= memmax

\* the counter of the deepest open table on the way to addr
Deepest(addr) == Prefix(addr, CHOOSE n \in 1 .. Depth :
                     /\ Prefix(addr, n) \notin tables
                     /\ \A k \in 1 .. n - 1 : Prefix(addr, k) \in tables)
WithCounter(t, c) ==
    Tree([d \in DOMAIN t.counters \cup {c} |-> IF d \in DOMAIN t.counters THEN t.counters[d] ELSE 0],
         t.tables, t.older, t.mem + (IF c \in DOMAIN t.counters THEN 0 ELSE CounterSize))

\* mutant: the rule of anno_level is not looked at
ZoomsIn_NoRule(t, c) == Len(c) < Depth /\ Room(t, CounterSize + StatsSize)

\* update: zoom in; the new table is the youngest
ZoomsIn(t, c) == /\ t.counters[c] < now
                 /\ Len(c) < Depth
                 /\ Room(t, CounterSize + StatsSize)
Opened(t, c) == Tree(t.counters, t.tables \cup {c}, t.older \cup (t.tables \X {c}), t.mem + StatsSize)
ZoomedIn(t, c, addr) == WithCounter(Opened(t, c), Prefix(addr, Len(c) + 1))
----------------------------------------------------------------------------
\* A packet whose counter is missing and may not be made: update returns
PacketNoRoom(addr) ==
    /\ folding = 0
    /\ Deepest(addr) \notin DOMAIN counters /\ ~Room(This, CounterSize)
    /\ UNCHANGED vars

\* update, for a packet that takes its counter over the threshold or does not
Packet(addr, hot) ==
    /\ folding = 0 /\ (thresh0 => hot)
    /\ Deepest(addr) \in DOMAIN counters \/ Room(This, CounterSize)
    /\ LET c == Deepest(addr)
           t == WithCounter(This, c)
           u == IF hot /\ ZoomsIn(t, c) THEN ZoomedIn(t, c, addr) ELSE t
       IN  IF ~fold_due THEN Becomes(u)
           ELSE \E quiet \in QuietSets(u), forward \in BOOLEAN :
                   Becomes(Folded(u, quiet, forward, FoldLimit(u)))
    /\ fold_due' = FALSE
    /\ Promise(Remaining(tables \ tables'))
    /\ UNCHANGED <<thresh0, memmax, now, folding, unaccounted>>

\* anno_level_write_handler and llrpc, which refuse a time below 1; a level that is not open yet
\* is ignored
SetAnnoLevel(addr, level, when) ==
    LET c == Prefix(addr, level + 1) IN
    /\ folding = 0 /\ when >= 1
    /\ c \in DOMAIN counters
    /\ LET t == Deleted(This, {c})
       IN  Becomes(Tree([t.counters EXCEPT ![c] = now + when], t.tables, t.older, t.mem))
    /\ promised' = [d \in Remaining(tables \ tables') \cup {c} |->
                       IF d = c THEN now + when ELSE promised[d]]
    /\ UNCHANGED <<thresh0, memmax, now, fold_due, folding, unaccounted>>

\* reset_write_handler: the base table's counters go, and their memory is not
\* given back
Reset ==
    /\ folding = 0 /\ DOMAIN counters # {} /\ unaccounted < MaxUnaccounted
    /\ LET top == {c \in DOMAIN counters : Len(c) = 1} IN
       /\ Becomes(Tree([c \in {} |-> 0], {<<>>}, {}, StatsSize + Cardinality(top) * CounterSize
                       + unaccounted * CounterSize))
       /\ unaccounted' = unaccounted + Cardinality(top)
    /\ Promise({})
    /\ UNCHANGED <<thresh0, memmax, now, fold_due, folding>>

\* memmax_write_handler
SetMemmax(m) ==
    /\ folding = 0
    /\ memmax' = m
    /\ folding' = IF m # 0 /\ alloced_mem > m THEN 1 ELSE 0
    /\ UNCHANGED <<thresh0, counters, tables, older, alloced_mem, now, fold_due, unaccounted, promised>>

\* one pass of forced_fold; its threshold rises, and the averages fall while
\* the lock keeps the packets out
ForcedFold ==
    /\ folding # 0
    /\ \E quiet \in QuietSets(This), forward \in BOOLEAN :
          /\ folding = Passes /\ ~thresh0 => quiet = tables \ {<<>>}
          /\ LET t == Folded(This, quiet, forward, memmax)
             IN  /\ Becomes(t)
                 /\ folding' = IF t.mem <= memmax THEN 0
                               ELSE IF folding < Passes THEN folding + 1 ELSE folding
    /\ Promise(Remaining(tables \ tables'))
    /\ UNCHANGED <<thresh0, memmax, now, fold_due, unaccounted>>

Tick ==
    /\ folding = 0 /\ now < MaxTime /\ now' = now + 1 /\ fold_due' = TRUE
    /\ UNCHANGED <<thresh0, memmax, counters, tables, older, alloced_mem, folding, unaccounted, promised>>

Next ==
    \/ \E addr \in Addr : PacketNoRoom(addr)
    \/ \E addr \in Addr, hot \in BOOLEAN : Packet(addr, hot)
    \/ \E addr \in Addr, level \in 0 .. Depth - 1, when \in Whens : SetAnnoLevel(addr, level, when)
    \/ Reset
    \/ \E m \in MemMaxes : SetMemmax(m)
    \/ ForcedFold
    \/ Tick

Spec == Init /\ [][Next]_vars
----------------------------------------------------------------------------
\* the age list orders the open tables, the base table first, a table before those below it
ListOK(t) ==
    /\ t.older \subseteq t.tables \X t.tables
    /\ \A r \in t.tables : <<r, r>> \notin t.older
    /\ \A r, s \in t.tables : r = s \/ <<r, s>> \in t.older \/ <<s, r>> \in t.older
    /\ \A r, s, u \in t.tables : <<r, s>> \in t.older /\ <<s, u>> \in t.older => <<r, u>> \in t.older
    /\ <<>> \in t.tables
    /\ \A r \in t.tables \ {<<>>} :
          <<<<>>, r>> \in t.older /\ <<Front(r), r>> \in t.older /\ r \in DOMAIN t.counters

\* the memory in use is what the tables, the counters and the lost counters take
Accounted(t, lost) == t.mem = StatsSize * Cardinality(t.tables)
                              + CounterSize * (Cardinality(DOMAIN t.counters) + lost)

\* a sound tree, lost counters of which were freed without accounting
Sound(t, lost) == /\ ListOK(t)
                  /\ \A c \in DOMAIN t.counters : Front(c) \in t.tables
                  /\ Accounted(t, lost)

\* The age list holds every open table once, the base table first and a table
\* before those below it; every counter lies in an open table
\* (ipratemon.hh:281-315); and _alloced_mem is what they take, but for the
\* counters that a reset freed without accounting (ipratemon.cc:354-372).
TreeOK == Sound(This, unaccounted)

\* Outside of the memmax handler the memory in use is within the limit
\* (ipratemon.hh:36-37), whatever packets come and whatever was quiet.
MemBounded == memmax # 0 /\ folding = 0 => alloced_mem <= memmax

\* "IPRateMonitor will stop expanding when 18.26.4 is reached for the next 100 seconds"
\* (ipratemon.hh:53-59): until its time has come a rule holds whatever is counted, folded or limited
\* - its counter is there with it, and no table on the way below it is open.  The one exception: the
\* rule is kept in the counter, so it is lost when a fold or a rule deletes a table above, and by a
\* reset; only then may the address be expanded within the time.
AnnoHonoured ==
    \A c \in DOMAIN promised : promised[c] >= now =>
       /\ c \in DOMAIN counters /\ counters[c] = promised[c]
       /\ \A r \in tables : ~IsPrefix(c, r)

\* forced_fold ends and gives the lock back (ipratemon.cc:148-156): once its
\* threshold is over every rate a pass makes room, as long as no reset hid
\* memory from it and the threshold is not 0.
ForcedFoldEnds ==
    [][folding = Passes /\ unaccounted = 0 /\ ~thresh0 => folding' = 0]_vars
=============================================================================
