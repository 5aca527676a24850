# A TLA+ verification of BUFFALO

BUFFALO forwards packets on flat (MAC) or longest-prefix (IP) addresses with
one Bloom filter per next hop instead of a forwarding table. The repository
holds the simulation programs (its root directory) and the switch prototype, a
`ip/` directory of elements for the Click modular router (`src/bfclick/ip`),
most of which are upstream Click code. This directory models both, checks the
models with TLC and proves the central results with TLAPS.

## 1. Inventory

### The simulation programs

| part | state | operations | interacts with | correct means |
|---|---|---|---|---|
| `BloomFilter.h`, `CountingBloomFilter.h` | `hash_table`, one byte per cell; `table_size`; NULL table for zero elements | `init`, `insert`, `remove`, `contains` | `srand`/`rand` seeded by the key | no false negative after insertions; counters exact until a byte wraps |
| `cbf.cc` | ten plain and ten counting filters | load, `route_update`, `update_bf` | both filter classes | the filter of a key's next hop finds it after any updates; a rebuild restores the plain filters |
| `BloomFilterTest.cc`, IP | `pmap`, `pfxlist`, `nhlist`, a filter per next hop and length, statistics | read a FIB, create filters, look up a trace | `prefix.h`, `bloom_filter` | filters never miss a route; a wrong answer shows as a multiple hit; the totals agree |
| `BloomFilterTest.cc`, MAC | `macmap`, `maclist`, a filter per next hop, statistics | the same on MAC addresses | `etheraddress.h`, `size.txt` | the same |
| `overlap.cc` | `pmap`, `alllist`, `newlist` | read, split length by length, check | `prefix.h` | same routing, no overlap |
| `flat.cc` = `ip2mac.cc` | `pmap`, `pfxlist`, `otherlist` | read, fill with /24 prefixes | `prefix.h` | every covered /24 written once, with the right next hop |
| `lsfib.cc`, `util.c` | topology, distances, random false positives | shortest paths, path walk | none | shortest distances; walks that end |
| `click.cc`, `packet.cc` | none | generate a configuration, a trace | files | format |
| `old.cc`, `BloomFilter.h.bit`, `.DK` | | | not built | |

### The Click elements (`src/bfclick/ip`)

| part | state | operations | hard behaviour |
|---|---|---|---|
| `BfSwitch` over `bloomfilter.hh` | ten bit tables, `bf_count`, `max_port` | configure (`etherinsert`), push (`etherlookup`) | uninitialised memory, two disagreeing counts of ports |
| `MyHashSwitch` | `_table` | configure, push | lookup inserts |
| `IPRouteTable` | abstract | add/set/remove handlers, `ctrl` transaction with rollback, push | a step of a transaction fails |
| `LinearIPLookup`, `SortedIPLookup` | vector of routes with "next more specific" links, two cached lookups | add, remove, lookup, push | holes, links and caches after changes |
| `RadixIPLookup` | radix tree of slots, vector of routes with a free list | the same | slots replaced in the lists of nodes, keys that a shorter prefix wins back |
| `DirectIPLookup` | 2^24 table, secondary tables, virtual ports | the same | restoring the shorter prefix on removal, reference counts, every table at its limit |
| `RangeIPLookup` | Direct table and sorted ranges | the same, flush | stale ranges |
| rewriters (`iprw*`, `ipaddr*rewriter`, `*mapper`) | maps of mapping pairs, patterns, timers | push, expiry | expiry against traffic, exhausted patterns |
| `IPFragmenter`, `IPReassembler` | none; fragment queues | push, reap | order, loss, duplicates, overlap, memory limit, time |
| `rfc2507c`, `rfc2507d` | contexts at both ends | compress, decompress | lost packets, re-used contexts |
| `IPRateMonitor` | tree of rates, age list, memory in use | update, fold, handlers | deleting from a list being walked, memory limit |
| `IPFilter`, `IPClassifier` | decision program | parse, compile, match | precedence, masks, comparisons as masked tests |
| header elements (`CheckIPHeader`, `DecIPTTL`, ...) | none but an id | push | incremental checksums, options rewritten in place, combined elements |
| `IPPrint`, `RIPSend`, name databases | | | none |

Nothing here runs concurrently in one process: elements and programs are
single threaded. What is hard are sequences of legal calls, unreliable networks
between two elements, timers, stale or uninitialised state, table limits, and
the edges of machine arithmetic. `PROJECT.json` lists each hazard at its line
with the properties that cover it.

## 2. Plan

1. `Bloom`, `CbfUpdate` with the abstract `FibCover`, and their proofs. *Done.*
2. `BfSwitch`, the prototype's forwarding path, and its proofs. *Done.*
3. `BloomTest`, `MacTest`, `Overlap`, `Flat`. *Done.*
4. `RouteTable`, the abstract longest-prefix table of `iproutetable.hh`, with
   `RouteCtrl` and its proofs, and the five implementations: `LinearIPLookup`,
   `SortedIPLookup`, `RadixIPLookup`, `DirectIPLookup`, `RangeIPLookup`. *Done.*
5. `IPRw`; `IPReassembler` behind a network of `IPFragmenter`s; `Rfc2507`, both
   ends; `IPRateMonitor`. *Done.*
6. `IPFilter`; `IPOptions` and `IPHeader`. *Done.*
7. Proofs about the traffic elements (`IPRateMonitor`, `IPRw`, `Rfc2507`,
   `IPReassembler`), about the plain filters of `CbfUpdate`, and that
   `LinearIPLookup` implements `RouteTable`. *Done.*
8. `DirectExact` and `DirectAccounting` of `DirectIPLookup`, which `RangeIPLookup`
   inherits. *Done.*
9. What is left to prove: `KnownIsHit` of `MacTest` and `LookupPreserved` of
   `Overlap`, within reach; `NoRouteMissing` of `BloomTest`, where the sizes of
   filters are quotients by a sum that the library defines by recursion;
   `RangesAgree`, `RadixExact` and the order of `SortedIPLookup`, which recursive
   definitions or a sorting operator of the library decide. `IPFilter`, `IPHeader`
   and `IPOptions` use `RECURSIVE` operators and stay with TLC.

## 3. The modules

Mutated definitions (`X_Something` above `X`) sit next to the definition they
vary; they are marked `mutant`, are used by no specification, and show that a
plausible slip in the code would break the property they are listed with.

### Filters

**Bloom** is both filter classes as operators on a table. The i-th `rand()`
after seeding with key k is the constant `Rand[k][i]`, so the model covers every
generator, and two keys with the same row are two addresses with the same seed
(only the last four bytes of a MAC address are used). A cell index is
`rand*size/RAND_MAX` rounded down. The value `rand() = RAND_MAX`, which indexes
one past the table, is assumed away by `RandAssumption`: a write past a heap
block has no outcome one could model.

**FibCover** is what any filter-based table promises: the filter of an address's
own next hop says yes. False positives are allowed, false negatives are not.

**CbfUpdate** is `cbf.cc`. `Load`, one turn of `main`'s inner loop;
`RouteUpdate`, the whole of `route_update` in its order (remove then insert, in
both filters); `UpdateBf`, the whole rebuild. `route` is a history variable, the
routes established by the calls. The benchmark's calls of `route_update` are
commented out in `main`; the model makes them for any key present and any next
hop, the use that the commented-out lines show. A next hop with no keys has NULL
tables and `update_bf` then crashes (`UpdateBfNull`).

**BfSwitch** is the element and the class `bloom_filter` of `bloomfilter.hh`. A
table is the set of its bits that are 1. `Init` lets every bit that `initialize`
does not zero be anything, and `max_port` any value of `Garbage`; `HeapWrite` is
other code writing the bytes that follow a table, into which its last bits fall.
`ConfigureLine` is a whole line (parse and `etherinsert`); `Push` the whole push.
A port on an output the configuration does not connect fails Click's assertion.

### Programs that read a FIB

**BloomTest** and **MacTest** are `BloomFilterTest.cc` on its two kinds of FIB:
`ReadLine`, `CreateFilters`, `InsertNext`, `Lookup` and `EndOfTrace` are one turn
of the program's loops each. **Overlap** is `overlap.cc`, with a turn of its
inner loop as an action, and **Flat** is `flat.cc`, with a prefix expanded or cut
as an action; `fib` is a history variable, the FIB as it was read.
**MCFibTools** runs the four, one at a time.

### Route lookups

**IPPrefix** has the prefixes, routes and `IPRoute::contains` of
`iproutetable.hh`; a gateway and a port are one value of `Via`. **RouteTable** is
what its documentation promises of `add_route`, `remove_route` and lookups.

**LinearIPLookup** implements it with `_t`, a vector whose removed routes stay as
holes and whose `extra` fields lead a lookup to the next route within the one it
met. `Push` is a push that fills the caches; one that reads them changes nothing,
and `Served` is what either answers. `AddRoute` and `RemoveRoute` are the whole
functions, the re-addition of the route for address 0 included. `PointersOK` and
`CachesOK` are what the element's own `check()` complains about.

**SortedIPLookup** extends it: the same changes, followed by `Sorted`, the whole
of `sort_table`. The loop with `dep`, `first` and the queue is the recursive
function `Order`, one turn of the queue per step.

**RadixIPLookup** is the vector of slots, their free list, and a child table per
level: a node that has no keys is one that does not exist. `Change` is
`Radix::change` for a whole prefix. `AddRoute` takes its slot before it looks for
the route it replaces, and puts the old slot on the free list, as the code does.

**DirectIPLookup** is class `Table`: `AddRoute` and `RemoveRoute` in the order of
the code, with the virtual ports' lists and references, a walk over the entries
that skips what secondary tables hold, and each return for want of room.
`faults` is a history of three events that the code does not provide for (see
section 4). **RangeIPLookup** extends it with the ranges that `expand` distils
from it and the binary search of lookups. **MCLookups** applies commands to one of
the four elements; the refinement of `RouteTable` is checked for both vectors, and
for the tree and the tables their answers are compared with the routes that
accepted commands ask for.

**RouteCtrl** is `iproutetable.cc` over a table as promised: `configure`, the
single-command handlers, and `ctrl` with an action for a line of each kind and for
each route undone. `past` is a history variable, the stack of tables that a
request went through. `MaxLines` bounds the commands of a request; which lines
follow is chosen step by step.

### Traffic

**IPRw** has `IPAddrRewriter` and `IPAddrPairRewriter` on their base class. `map`
leads from a flow to one mapping of a pair; an action per kind of input
specification is the whole push of a packet without a mapping, and `PushFound`
that of any other. `Tried` is the walk of a sequential pattern over its range;
a random one can take any free value (its step is odd, the mask is one less than
a power of two). The timer compares the jiffies of a mapping's last use with a
constant (section 4), so that all that counts is whether a mapping was last used
before the clock reached it: `late`, which `ClockTurns` changes at any time.
A reverse mapping's time is uninitialised, a choice in `Enter`. `Masks` are the
values that the mask of a sequential pattern can take for the top of its range;
`NewPair` is any number that no pair has.

**IPFragmenter** is what `fragment` makes of a packet, in blocks of eight bytes,
**IPReassembler** the element behind a network of such fragmenters. `net` only
grows: a packet in it may be delivered any number of times, in any order, never,
shortened (`RefuseBad`) or cut up again. A queue's chunks are the sequence that
the links in the packet's gaps spell, its data says block by block which
datagram the bytes are of. `Keep` is the whole of `simple_action`: reaping, the
overfull passes, finding or making the queue, patching, and emission. `Kept` is
the walk along a bucket that unlinks queues, `Deltas` the passes of
`reap_overfull`. Datagrams differ in id and content: one id in use twice at a time
is what the field is there to avoid. What is pushed has a history `seen`, the blocks
it was put together from; that the ip_len, MF and checksum of a packet given up are
those of one of its fragments is left out.

**Rfc2507** has the compressor, the link and the decompressor in one step: the
link keeps order and may lose any packet. `B` is the number of values of a byte.
`why` is a history of what may make the contexts of a CID differ: something lost,
or a change that the compressed format has no words for (`Unsaid`).

**IPRateMonitor** names counters and tables by the bytes that lead to them. The
averages are left open: any packet may or may not take its counter over the
threshold, and any tables may be quiet when memory is short. The age list is the
order `older` of the open tables. `Folded` is the walk along it that deletes whole
subtrees, as what it has deleted at the end: the quiet tables up to the first with
which there is room, and all that lies below them. `ForcedFold` is a
pass of the loop in `forced_fold`, whose last pass finds every table quiet: its
threshold rises, and no packet is counted while it holds the lock. `promised` is a
history: the end of each rule given to `anno_level`, dropped when a table above is
deleted (by a fold or by a rule for a level above) or the monitor is reset, since the
rule is then gone with its counter.

**IPFilter** compiles expressions word by word. `Word` and `Argument` make up the
configuration; `Compile` is `configure`: a recursive descent over the words with
the state that the parser carries from one directive to the next, `set_mask`,
`check`, and comparisons as sets of masked tests. `wide` is what the processor makes
of a shift by 32 (`ipfilter.cc:244`), 0 or all ones. The property compares it with
`Meanings`, the grammar of the documentation written as one.

**IPOptions** is the options of a header, byte for byte; **IPHeader** the elements
that check and change a header, as operators from a packet to a packet and an
output, and a specification in which a packet meets any of them in any order.
`InputChain` and `OutputChain` compose the operators as the documentation of the
combined elements does; `FrontSums` are sums of the bytes before a header, which
`IPOutputCombo` takes for the header's (`ComboFixed`). **MCIPElements** runs either a
filter or a packet.

## 4. The runs

| run | question | bounds |
|---|---|---|
| `cbf_update` | counters exact, no false negatives, what the plain filters lose, rebuilding, refinement of `FibCover` | 4 keys, 2 next hops, 2 hash functions, 6 counters; two keys share a seed, one hits a cell twice, three overlap; one filter as large as its counters and one smaller |
| `cbf_narrow` | wrapping counters, a next hop without tables | 2-bit counters, 4 keys that meet in one cell, 3 next hops |
| `bfswitch` | what a lookup guarantees, whatever the memory held | 3 ports, 2 addresses that share a bit, bytes of 2 bits, the first byte zeroed, `max_port` below, at and above the ports |
| `fibtools` | filters against the FIB, totals, the FIBs written | FIBs of 3 lines, 2 next hops; bloomtest with 2-bit addresses, 7 cells and 2 packets, MACs with sizes 0, 2, 4, `overlap` and `flat` with 3-bit addresses |
| `lookups` | the five tables against the routes that commands ask for, and their own structures | 3-bit addresses, 4 prefixes for each element, 2 gateways, 3 or 4 slots, 2 virtual ports, 1 secondary table of 2 entries |
| `routectrl` | rollback | 2 prefixes, 2 next hops, 4 commands: one prefix named up to four times, or two interleaved |
| `routectrl_blank` | does `ctrl` return? (expected to fail) | the same, with blank lines |
| `iprw` | dangling mappings, replies, exhausted patterns | 4 packets (one of them a reply to itself), 3 pairs, address rewriters with patterns over the 2 addresses of a /30 prefix, ranges of 3, 2 and 1, alone, in turns and hashed, with `keep`, `pass`, `drop` behind them, and a pair rewriter with the first |
| `reassembly` | what is emitted, what is given up, accounting | 3 datagrams (one DF, one with an option that is copied, one with one that is not), MTUs 40 and 32, 2 buckets, memory 12, clock steps 2 and 5 up to 15 |
| `rfc2507` | when headers come out as they went in | bytes of 4 values, 3 flows on 2 contexts, 9 headers with differences of 0, 1, one byte and a sign change |
| `ratemon` | tree, age list, memory, annotations, the end of a forced fold | counters for 2 bytes, 3 levels, 3 tables, memory limits 0, 5, 9, clock up to 3, rules for one second and for none (refused), at most two at a time |
| `ipelements` | filters against their text, checksums, options, combined elements | filters of up to 6 words over 3-bit fields, single directives with either outcome of the wide shift; packets with 16 values for a byte, every IP id, option strings of 4 to 12 bytes, two elements in a row and four for a few packets |

The bounds are the smallest with which every case of the code occurs. For the
filters: cells hit by no key, one, and several. For the tables: a chain of three
prefixes down to address 0 and a sibling of the last, so that a removal must find
the route between; a prefix longer than a primary entry; every table at its
limit. For the rewriter: a pair too few, and a range with 2^k values beside one
that has not. For the reassembler: fragments of fragments, three gaps, a queue
too many for the memory and one too old. For `rfc2507`: one context fewer than
flows. For filters: every relation with every mask and value of three bits for
one directive, and every arrangement of `!`, `and`, `or`, `?:` and parentheses
within six words for several. The properties relate one or two keys, routes,
flows or queues at a time, so a violation needs no more of them.

Bounds that are not constants: `NoFault` stops exploring the tables once a
route has lost its reference or a table was pruned wrongly (a shared port is
explored further); `FewSlots`, `FewTables` and `FewRules` limit a vector, a tree and
its rules (two, of which one is in force); `Bounded` keeps the texts of filters to
those that can still become an expression, and a second filter to two words; `MCWay` is the number of
elements on a packet's way. `VIEW` in `lookups` hides what free slots of the tree
hold, which only their pointer's reader sees; in `rfc2507` it hides the last packet,
which only step properties read, and the numbers in a context that is
out of step. `SYMMETRY` permutes gateways, and the slots of filters: neither is
compared with anything but itself, and the runs that use it check safety only.
Deadlock is checked where a step is always possible (`cbf_update`, `iprw`,
`rfc2507`, `ratemon`, `lookups`); the other systems end: a program exits, a handler
returns, a packet leaves.

`MCFibTools`, `MCLookups` and `MCIPElements` run several components one at a
time: their question is the same, and the first variable says which runs.

**Fairness.** `CtrlEnds` is the one liveness property, under weak fairness of the
steps of `ctrl_handler`: the driver thread of Click runs a handler to its end.
Nothing else may assume fairness: elements answer each packet in one call, timers
fire when the driver is idle, and networks may lose everything. That a loop inside
one call ends is stated as a step property: `ForcedFoldEnds` says that the last
pass of `forced_fold` ends it, given a clock that lets rates decay.

### Disagreements met

`routectrl_blank` is a run that is expected to fail, and a finding: `ctrl` never
returns from a request with a blank line (`iproutetable.cc:243`: the position is
not advanced), where `lineariplookup.hh:73-75` promises success or no change.

The others are parts of the models, and properties state what still holds.

Programs and the switch:
- an address known to a filter may be at a port that is never examined, since
  `bf_count` counts insertions that raised `max_port` (`bfswitch.cc:114`), and one
  known to none goes to output 0, where line 108 says broadcast (`Push`);
- `BloomFilterTest.cc:190,450` count a packet twice, which halves the MAC rates;
  two overlapping routes with different next hops count as a false positive;
- a default route fails the final check of `overlap.cc`, with a shift by 32;
- `flat.cc:79` takes the first prefix of the file that covers a /24, not the
  longest: `FibsRewritten` holds for files with longer prefixes first.

Route tables:
- of two routes for a prefix `configure` keeps the first, while its warning
  (`iproutetable.cc:118`) says that later versions replace it;
- holes of `LinearIPLookup` have the prefix 0.0.0.0/32 and answer address 0; the
  refinement leaves that address out. `SortedIPLookup` has no holes at rest;
- `radixiplookup.hh:44-45` says that `add` should fail for a route that exists and
  does not; the note is out of date: `add_route` keeps the old route and fails
  (`radixiplookup.cc:157-159`), as the model does;
- `RadixIPLookup`: a route for 0/0 that replaces another puts its own slot on the
  free list (`radixiplookup.cc:137-170`); the run leaves 0/0 out;
- `DirectIPLookup`: the virtual port of the default route is shared without a
  reference, a replaced route without memory for its successor loses its own, and
  a removal from a secondary table with two prefixes of one length prunes wrongly
  (`faults`);
- `RangeIPLookup`: `flush_table` clears as many bytes as a pointer has and leaves the
  other ranges (`rangeiplookup.cc:213-215`): until the next change of a route packets
  follow routes that are gone (`RangesAgree` holds otherwise).

Traffic:
- `IPRw`: a sequential pattern over 2^k values skips the first until the second
  round (`iprw.cc:345-361` against `ipaddrrewriter.hh:52-54`); `clean_map` gets a
  constant interval (`ipaddrrewriter.cc:132`) and compares times of last use with
  it; a reverse mapping's time is never set; a flow that is its
  own reply loses its forward mapping;
- `IPReassembler`: fragments are to be dropped when dormant for 30 seconds
  (`ipreassembler.hh:23-25`, "no activity for 30 seconds" in `ipreassembler.cc:384`),
  but nothing refreshes a queue's timestamp: an active queue is reaped 30 seconds
  after the first fragment that began it, and one begun by another fragment has
  timestamp 0 and goes at the next reaping (`ipreassembler.cc:203,391`). No property
  states a time; `PartialAsReceived` says what becomes of the fragments;
  `reap_overfull` never frees what arrived in the current second;
- `IPFragmenter`: the loop of `optcopy` does not advance past an option it copies
  (`ipfragmenter.cc:62-74`): for a datagram that begins with any option but an
  end-of-list it never ends, after the first fragment has been pushed;
- `rfc2507`: an unchanged IP id is decoded as one more, an URG with an unchanged
  pointer is lost, ECE and CWR are not conveyed, and `_map` never shrinks
  (`Unsaid`);
- `IPRateMonitor`: `reset` frees the counters of the base without accounting for
  them (`ipratemon.cc:354-372`), and a fold compares scaled averages with an
  unscaled threshold; without decay `forced_fold` spins;
- `IPRateMonitor`: `anno_level` is to stop expansion at a level for the time given
  (`ipratemon.hh:53-57`). A fold, a rule for a level above and `reset` delete the
  counter and the rule with it, and the counter that the next packet makes has
  none and may expand within that time; a rule for a level that is not open is
  ignored without an error. `AnnoHonoured` is about the promises that are left.

Packet elements:
- `IPFilter`: `tcp ! src port 1` negates all of it, `src or dst port < X` asks both,
  and an equality whose value has bits outside the mask can be met (`Fits` leaves
  those to the code);
- `IPFilter` rewrites a comparison whose value has bits outside the mask with
  `0xFFFFFFFF >> ffs_msb(missing_bits)` (`ipfilter.cc:238-246`). When bit 0 is the
  only one missing, as in `ttl & 6 > 3`, this is a shift by 32, which is undefined:
  0 is what the comment means; where it gives all ones, as on x86, the value becomes
  the whole mask and no test is added. `FilteredAsWritten` leaves that case out
  (`LacksBit0`) and holds there for the shift that gives 0;
- `StoreIPAddress` for a named field takes `network_header() - _offset` with an
  unsigned `_offset` of -12 or -16 (`storeipaddress.cc:71`): with 64-bit pointers
  that is 4 GB before the header, outside the packet. The model takes 32-bit
  pointers, where it wraps to the field; `ChecksumKept` says nothing of a 64-bit build;
- `IPOutputCombo` takes the checksum over `p->data()` and not over the header
  (`ipoutputcombo.cc:181`): in a packet with bytes before its header it is not the
  one that the chain of `ipoutputcombo.hh:15-29` leaves (`Astray`, where
  `ComboIsChain` sets the checksum aside and `Output` takes it for lost);
- `IPEncap` refuses DSCP 63 (`ipencap.cc:86`); `IPGWOptions` with a shared packet
  checksums the old header and sends the old packet as the error; a timestamp
  overflow is counted beyond an option that is too short; `StoreIPAddress` with a
  zero annotation writes it for a field's name and refuses it for an offset, where
  its documentation says unchanged; `IPOutputCombo` does not repair a wrong checksum
  of a packet with options that its chain would, and serves a shared one as it should
  where the chain's `IPGWOptions` does not. `ComboIsChain` leaves those two out, and
  includes shared packets without options and packets with bytes before the header.

## 5. The proofs

`CbfUpdate_proofs`, for any finite set of keys, any next hops, table sizes,
numbers of hash functions and generator:

- `TypeCorrect`: `TypeOK` is inductive by itself. It needs that `Cell` is within
  the table and that `%` stays within a byte.
- `CountersAreExact` (assuming `NoWrap`, fewer hits than a byte counts): each
  counter is the cardinality of the set of (key, hash function) pairs now at its
  next hop that fall on it. The invariant is `CounterExact` with `TypeOK`; the
  step is the arithmetic of moving one key's pairs out of one set and into
  another, in lemmas on cardinalities. `NoWrap` is necessary, `cbf_narrow` shows.
- `NeverLosesAKey` follows: a key's own pairs make its counters positive.
- `ImplementsCover` (also assuming that each next hop has a table): every step
  maps to `Assign` or a stutter of `FibCover`.
- `WrongOnlyByWrapping` needs no `NoWrap`: what is exact stays so in each step
  after which its hits fit a byte, the step of `CountersAreExact` cell by cell.
- `PlainExactWhileLoading`, `LossesAreCollisions` and `RebuildsAreExact` (the last
  assuming `NoWrap`: a rebuild copies counters) are about the plain filters. The
  first is inductive while the table is loaded. The second is proved of each step
  alone: a move clears the cells of one key. The third follows from exact counters.

`BfSwitch_proofs`, for any ports, addresses, hash functions, sizes and any
initial memory: `SwitchTypeCorrect`, `LookupInBounds`, `ExaminedAreFound`,
`AgreeingCountsSkipNone`, `HitsAreExplained`. None is inductive alone; the
invariant `IInv` is `TypeOK` with `CountInv` (`bf_count` is 0 or at most
`max_port`, which is then at most `MaxBf`), `FibInv` (each inserted port is below
`max_port` and its bits in allocated memory are still set), `BitsInv` (each bit
that is set was inserted or is foreign), `SentInv` and `HitExplained`.

`RouteCtrl_proofs`, for any prefixes, next hops and number of commands:
`CtrlTypeCorrect`, `RollbackIsNeverRefused`, `CtrlIsAllOrNothing`. The lemma
`UndoneAfter` says that a command that takes effect is undone by the route it
saved; the invariant, that each saved route leads from one table of the stack
`past` to the one below (`StackInv`), which pushing and popping keep. The table at
the end of a rollback is then the first of the stack, the one `ctrl` found.

`IPRateMonitor_proofs`, for any number of byte values and levels, any sizes,
limits and passes: `TreeSound`, `MemoryWithinLimit`, `AnnoRulesHonoured`,
`ForcedFoldReturns`. The invariant is the soundness of the whole tree (`Good`: a
table is open at each proper prefix of a counter, the age list orders the open
tables, the memory in use is theirs and the lost counters') with `MemBounded` and
`Honoured` (a counter with a rule in force has no table); none of them holds on
without the others, since how far a fold goes depends on the memory and what it
deletes on the tree. Every operation is made of a counter added, a table opened and
tables deleted, with a lemma for each. A second invariant on top of it, `Promises`,
is that each promise is still in the counter it was given for: a deletion takes only
counters below the tables it names, whose promises `Remaining` gives up, and no other
(`DeletedPromises`). The arithmetic assumed is `MEMMAX_MIN`'s: the least limit has
room for a tree of one table.

`IPRw_proofs`, for any packets, any arrangement of inputs and patterns, any number
of pairs: `MapNeverDangles`, `RepliesComeBack`, `RefusalsAreExplained`. The invariant
says of each entry of `map` that its flow is the one its mapping is of (`MapInv`), and,
where every mapping is made from a range, that both flows of a pair lead to it
(`PairInv`). A new pair is in nobody's way because `Tried` looked its reply up;
`RepliesReturn` is not inductive without the entries of the other direction.

`Rfc2507_proofs`, for any size of a byte, any number of contexts, flows and headers:
`ExactWhileInSync`, `FlowsAreKeptApart`. The lemmas say that decoding undoes encoding
field by field, for differences of 0, one byte, three bytes and a change of sign; the
invariant, that both contexts of a CID agree unless `why` has a reason (`InSync`).
Both properties are of steps; they follow from what `Step` does to a context in sync.

`IPReassembler_proofs`, for any datagrams that differ in id and content, any MTUs,
buckets, memory and clock: `EmittedWhole`, `PartialIsSound`, `NothingWhole`,
`StoreIsSound`. The invariant says of every packet of the network that it is a piece
of a datagram, and of every queue that it is what came of one datagram: chunks apart
and in order that cover exactly the blocks seen, the bytes of those blocks and rubbish
elsewhere, not complete, in its bucket, its memory counted (`Known`, `StoreOK`). The
emission of a whole datagram needs all of it, and that what is given up is not whole
is the converse, that a queue with every block is done. What patching does to a sequence of
chunks, what the walk along a bucket keeps and how memory adds up are lemmas.

`Lookups_proofs`, for any width of addresses, any prefixes, next hops and number of
slots: `VectorIsSound` and `LinearImplementsTable`. The first is that the assertions
of the element's `check()` hold after any commands; its invariant `IInv` adds that a
hole has the prefix 0.0.0.0/32, without which a removal could match one while a
route for address 0 is there. The second is the refinement of `RouteTable`: what
`Adds` and `Removes` do to the routes is what the command asks for or nothing, and
what push takes for an address, from a cache or looked up, leads where the longest
prefix does (`LookupIsBest`). It assumes that address 0 is not looked up: the
holes answer it (section 4). The lemmas on prefixes rest on
`Powers`, 2^(a+b) = 2^a * 2^b, proved by counting subsets, since there is no
induction: a counterexample would have a least one (`LeastNat`).

In the same module, for any width of addresses and of the primary index, any prefixes
and gateways and any limits of the three tables: `DirectIsSound` (`DirectExact` and
`DirectAccounting`) and, since every step of `RangeIPLookup` is one of the tables or
leaves them alone, `RangeKeepsTables`. The invariant `DirectInv` says more than the
properties: each entry has not only the port but the length of the longest prefix of
its addresses (`TablesLead`), because additions and removals decide by the lengths in
the entries what to overwrite and how far to skip; a primary entry has a secondary table
exactly where a longer prefix wins somewhere in it; secondary tables are
free or belong to one entry (`TablesFit`); the lists of ports are apart and the
references are the cardinalities of the routes at each port (`PortsFit`, `Counted`);
ports lead where commands asked (`RoutesAsked`). Each part holds up to the fault that
breaks it, so that after a port lost a reference the tables are still known to be
right, and the reverse. The main lemma is about the walk over the entries: a skip passes
over entries of a longer prefix only, because that prefix is a route and lies
within the block that is skipped (`AddTables`, `RemoveTables`).

Only model-checked: what `fibtools` and `ipelements` check, and in `lookups` the
sorted vector, the tree and the ranges. Out of the prover's reach are liveness
(`CtrlEnds`), `ENABLED`, induction over data, and what recursive definitions compute
for all inputs: the order of `sort_table`, the levels of the radix tree, the binary
search of ranges, the parser of `IPFilter` and the walks over options.

## 6. Not modelled

- Formatting, timing output, the rounding of floating-point sizes and averages,
  the drop counters and statistics handlers of the elements.
- `-d routeview` and `-d internet2` of bloomtest, `-m flat`, and its `HASH_BIT` 0
  branch; `test_prefix_nexthop`, which nothing calls.
- Writes out of bounds that some inputs cause, which have no outcome to model: ports
  outside 0..9, `rand() = RAND_MAX`, more than `RANGES_MAX` ranges, the virtual
  ports beyond an entry's 12 bits, `lsfib.cc:99`.
- `lsfib`, the generators, `old.cc` and the older filters: single passes over a file
  without a state that a property could relate, or not built.
- `MyHashSwitch`, whose lookup always ends at output 0; the three lookups that
  report a rename, hold a class of another repository or pass `ioctl` calls on.
- `BfSwitch`: the timeout handlers, whose variable nothing reads, and `broadcast`,
  which nothing calls.
- The rewriters' `parse_napt` and `parse_ports`, `take_state_map` on
  reconfiguration, `clean_map_free_tracked` (no caller), the clear handler, and the
  checksum updates of `apply`. `IPHeader` has the same arithmetic in its own elements.
- `IPFilter`: types other than port, ttl and proto (they differ in the field that is
  masked), the name databases, the optimisation of the compiled program and
  `length_checked_push`, `IPClassifier`'s numbering of outputs.
- Header elements: `CheckIPHeader2` (`CheckIPHeader` without the checksum),
  `MarkIPHeader`, `SetIPAddress`, `SetRandIPAddress`, `StripIPHeader`,
  `TruncateIPPayload`, `UnstripIPHeader`, and the swap of TCP sequence numbers in
  `IPMirror`.
- `IPPrint`, which formats, and `RIPSend`, which sends one constant packet.
