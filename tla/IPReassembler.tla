--------------------------- MODULE IPReassembler ----------------------------
(***************************************************************************)
(* IPReassembler (ipreassembler.cc) behind a network of IPFragmenters.     *)
(*                                                                         *)
(* Packets in the network may be fragmented again, on paths of different   *)
(* MTU, and delivered any number of times, in any order, or never: `net'   *)
(* only grows.  Memory and offsets are in blocks of eight bytes, time in   *)
(* units of five seconds.                                                  *)
(***************************************************************************)
EXTENDS IPFragmenter, FiniteSetsExt

CONSTANTS Datagrams,    \* the packets sent
          Mtus,         \* <<MTU, HONOR_DF>> of the fragmenters on the paths
          FreshIds,     \* what click_random() gives an id whose DF is ignored
          NMAP,         \* number of buckets
          HIMEM,        \* _mem_high_thresh
          Start,        \* the time of the first packet, far from 0
          Steps,        \* bound: how far time moves at once
          MaxTime       \* bound: the latest time

\* Datagrams are told apart by their id (which stands for all that same_segment
\* compares) and by what they carry; a path takes a header and a block
Garbage == "garbage"
Datagram == [id : Nat, body : {d.body : d \in Datagrams}, off : {0}, len : Nat \ {0},
             mf : {FALSE}, df : BOOLEAN, hl : IP_HEADER .. 60, opt : OptKinds]
ASSUME ReassemblerAssumption ==
    /\ Datagrams \subseteq Datagram /\ IsFiniteSet(Datagrams)
    /\ \A d, e \in Datagrams : d.id = e.id \/ d.body = e.body => d = e
    /\ \A d \in Datagrams : d.body # Garbage
    /\ Mtus \subseteq [mtu : Nat, honor_df : BOOLEAN] /\ FreshIds \subseteq Nat
    /\ NMAP \in Nat \ {0} /\ HIMEM \in Nat /\ Start \in Nat
    /\ Steps \subseteq Nat \ {0} /\ MaxTime \in Nat

REAP_TIMEOUT == 6     \* 30 seconds
REAP_INTERVAL == 2    \* 10 seconds
Deltas == <<2, 1, 0>> \* 10, 5 and 0 seconds
IPH_MEM_USED == 5     \* 40 bytes

VARIABLES net,        \* packets in the network
          map,        \* _map: bucket -> queues, the newest first
          reap_time,  \* _reap_time
          mem_used,   \* _mem_used
          now,        \* the time
          out,        \* packets pushed by the last step, with their port
          looping     \* a fragmenter's optcopy does not return

vars == <<net, map, reap_time, mem_used, now, out, looping>>

\* A queue is one packet: header, timestamp annotation, chunks (kept in the
\* annotation and in the gaps) and data.  seen is a history: the blocks
\* that came.
Queue(id, hl, mf, ts, chunks, data, seen) ==
    [id |-> id, hl |-> hl, mf |-> mf, ts |-> ts, chunks |-> chunks,
     data |-> data, seen |-> seen]
Length(q) == Len(q.data)  \* transport_length()
Size(q) == IPH_MEM_USED + Length(q)

Buckets == 0 .. NMAP - 1
bucketno(p) == p.id % NMAP
Queues(m) == UNION {{m[b][i] : i \in DOMAIN m[b]} : b \in Buckets}
\* a walk along a bucket that unlinks the queues of some ids
Kept(bucket, ids) ==
    LET kept[i \in 0 .. Len(bucket)] ==
            IF i = 0 THEN <<>>
            ELSE IF bucket[i].id \in ids THEN kept[i - 1] ELSE Append(kept[i - 1], bucket[i])
    IN  kept[Len(bucket)]
Without(m, ids) == [b \in Buckets |-> Kept(m[b], ids)]

\* PACKET_CHUNK and next_chunk as a sequence of [off, lastoff]
Chunk(lo, hi) == [off |-> lo, lastoff |-> hi]
Blocks(p) == p.off + 1 .. p.off + p.len
IsFrag(p) == p.mf \/ p.off # 0

Init ==
    /\ net = Datagrams
    /\ map = [b \in Buckets |-> <<>>]
    /\ reap_time = 0 /\ mem_used = 0 /\ now = Start
    /\ out = {} /\ looping = FALSE
----------------------------------------------------------------------------
\* reap: the timestamp is older than the timeout.  Nothing refreshes it: a queue
\* begun by a first fragment has its thirty seconds from then, whatever its
\* activity, and one begun by another fragment goes at once
Reaped(m) == {q \in Queues(m) : q.ts < now - REAP_TIMEOUT}
\* reap_overfull: three passes of falling age over the buckets, each thrown
\* queue followed by a look at the memory used
Pass(q) == CHOOSE d \in DOMAIN Deltas : /\ q.ts < now - Deltas[d]
                                        /\ \A e \in 1 .. d - 1 : q.ts >= now - Deltas[e]
Place(m, q) == CHOOSE i \in DOMAIN m[bucketno(q)] : m[bucketno(q)][i] = q
Sooner(m, q, r) ==
    \/ Pass(q) < Pass(r)
    \/ Pass(q) = Pass(r) /\ bucketno(q) < bucketno(r)
    \/ Pass(q) = Pass(r) /\ bucketno(q) = bucketno(r) /\ Place(m, q) < Place(m, r)
LowThresh == (HIMEM \div 4) * 3
Overfull(m, used) ==
    LET old == {q \in Queues(m) : q.ts < now - Deltas[Len(Deltas)]}
    IN  {q \in old : used - MapThenSumSet(Size, {r \in old : Sooner(m, r, q)}) > LowThresh}
----------------------------------------------------------------------------
\* mutant: p always closes the gap to the next chunk
Patched_NoGap(chunks, lo, hi) ==
    LET chunk == CHOOSE i \in DOMAIN chunks : /\ chunks[i].lastoff >= lo
                                              /\ \A j \in 1 .. i - 1 : chunks[j].lastoff < lo
        last == CHOOSE i \in chunk .. Len(chunks) : /\ chunks[i].lastoff >= hi
                                                    /\ \A j \in chunk .. i - 1 : chunks[j].lastoff < hi
        from == IF lo < chunks[chunk].off THEN lo ELSE chunks[chunk].off
    IN  SubSeq(chunks, 1, chunk - 1) \o <<Chunk(from, chunks[last].lastoff)>>
          \o SubSeq(chunks, last + 1, Len(chunks))

\* simple_action's chunk patching
Patched(chunks, lo, hi) ==
    LET chunk == CHOOSE i \in DOMAIN chunks : /\ chunks[i].lastoff >= lo
                                              /\ \A j \in 1 .. i - 1 : chunks[j].lastoff < lo
        last == CHOOSE i \in chunk .. Len(chunks) : /\ chunks[i].lastoff >= hi
                                                    /\ \A j \in chunk .. i - 1 : chunks[j].lastoff < hi
        from == IF lo < chunks[chunk].off THEN lo ELSE chunks[chunk].off
        joined == IF hi < chunks[last].off THEN <<Chunk(from, hi), chunks[last]>>
                                           ELSE <<Chunk(from, chunks[last].lastoff)>>
    IN  SubSeq(chunks, 1, chunk - 1) \o joined \o SubSeq(chunks, last + 1, Len(chunks))
\* mutant: the packet's data go to the beginning of the queue's
NewQueue_AtStart(p) ==
    Queue(p.id, IF p.off = 0 THEN p.hl ELSE IP_HEADER, p.mf, IF p.off = 0 THEN now ELSE 0,
          <<Chunk(p.off, p.off + p.len)>>,
          [k \in 1 .. p.off + p.len |-> IF k <= p.len THEN p.body ELSE Garbage],
          Blocks(p))

\* make_queue; only a first fragment's annotations are copied, and with them the time
NewQueue(p) ==
    Queue(p.id, IF p.off = 0 THEN p.hl ELSE IP_HEADER, p.mf, IF p.off = 0 THEN now ELSE 0,
          <<Chunk(p.off, p.off + p.len)>>,
          [k \in 1 .. p.off + p.len |-> IF k \in Blocks(p) THEN p.body ELSE Garbage],
          Blocks(p))

\* the rest of simple_action, for a queue that p belongs to
Completed(q, p) == p.off + p.len > Length(q) /\ ~q.mf
Grows(q, p) == p.off + p.len > Length(q) /\ q.mf
\* mutant: the header's MF is the one of the fragment that came last
Merged_LastMf(q, p) ==
    LET hi == p.off + p.len
        len == IF hi > Length(q) THEN hi ELSE Length(q)
        chunks == IF Grows(q, p) THEN Append(q.chunks, Chunk(hi, hi)) ELSE q.chunks
    IN  Queue(q.id, IF p.off = 0 THEN p.hl ELSE q.hl, p.mf, q.ts,
              Patched(chunks, p.off, hi),
              [k \in 1 .. len |-> IF k \in Blocks(p) THEN p.body
                                  ELSE IF k <= Length(q) THEN q.data[k] ELSE Garbage],
              q.seen \cup Blocks(p))

Merged(q, p) ==
    LET hi == p.off + p.len
        len == IF hi > Length(q) THEN hi ELSE Length(q)
        chunks == IF Grows(q, p) THEN Append(q.chunks, Chunk(hi, hi)) ELSE q.chunks
    IN  Queue(q.id, IF p.off = 0 THEN p.hl ELSE q.hl, q.mf /\ p.mf, q.ts,
              Patched(chunks, p.off, hi),
              [k \in 1 .. len |-> IF k \in Blocks(p) THEN p.body
                                  ELSE IF k <= Length(q) THEN q.data[k] ELSE Garbage],
              q.seen \cup Blocks(p))
Done(q) == ~q.mf /\ q.chunks[1] = Chunk(0, Length(q))
----------------------------------------------------------------------------
\* seen is the history: the blocks that the packet was put together from
Emission(q) == [port |-> 0, hl |-> q.hl, data |-> q.data, seen |-> q.seen]
Thrown(q) == [port |-> 1, hl |-> q.hl, data |-> q.data, seen |-> q.seen]
Whole(p) == [port |-> 0, hl |-> p.hl, data |-> [k \in 1 .. p.len |-> p.body],
             seen |-> 1 .. p.len]

\* What simple_action has left when it looks for the queue: the buckets, the
\* memory used and what went to output 1
Store(m, used, gone) == [map |-> m, used |-> used, gone |-> gone]
Throw(st, qs) ==
    Store(Without(st.map, {q.id : q \in qs}), st.used - MapThenSumSet(Size, qs),
          st.gone \cup {Thrown(q) : q \in qs})
AfterReap ==
    LET st == Store(map, mem_used, {})
    IN  IF now >= reap_time THEN Throw(st, Reaped(map)) ELSE st
AfterOverfull ==
    LET st == AfterReap
    IN  IF st.used > HIMEM THEN Throw(st, Overfull(st.map, st.used)) ELSE st
Leaves(st) == map' = st.map /\ mem_used' = st.used /\ out' = st.gone

\* A packet finds a place in its queue, completes it, or is refused by it
Joined(st, q, p) ==
    LET r == Merged(q, p)
        used == st.used + Length(r) - Length(q)
    IN  IF Completed(q, p) THEN st
        ELSE IF Done(r)
        THEN Store(Without(st.map, {p.id}), used - Size(r), st.gone \cup {Emission(r)})
        ELSE Store([st.map EXCEPT ![bucketno(p)] = [i \in DOMAIN @ |-> IF @[i] = q THEN r ELSE @[i]]],
                   used, st.gone)

Begun(st, p) ==
    LET q == NewQueue(p)
    IN  Store([st.map EXCEPT ![bucketno(p)] = <<q>> \o @], st.used + Size(q), st.gone)
----------------------------------------------------------------------------
\* A packet that is no fragment passes through
PassWhole(p) ==
    /\ ~looping /\ ~IsFrag(p)
    /\ out' = {Whole(p)}
    /\ UNCHANGED <<net, map, reap_time, mem_used, now, looping>>

Arrives(p) ==
    /\ ~looping /\ IsFrag(p)
    /\ reap_time' = IF now >= reap_time THEN now + REAP_INTERVAL ELSE reap_time
    /\ UNCHANGED <<net, now, looping>>

\* simple_action of a fragment whose last bytes were lost on the way, or that
\* has another bad length: only the reaping took place
RefuseBad(p) == Arrives(p) /\ Leaves(AfterReap)

Keep(p) ==
    /\ Arrives(p)
    /\ LET st == AfterOverfull
       IN  IF \E q \in Queues(st.map) : q.id = p.id
           THEN Leaves(Joined(st, CHOOSE q \in Queues(st.map) : q.id = p.id, p))
           ELSE Leaves(Begun(st, p))

\* the allocation for a new queue or for its extension fails; with the
\* extension the whole queue is lost
KeepNoMemory(p) ==
    /\ Arrives(p)
    /\ LET st == AfterOverfull
           qs == {q \in Queues(st.map) : q.id = p.id}
       IN  /\ \A q \in qs : Grows(q, p)
           /\ Leaves(Store(Without(st.map, {p.id}), st.used - MapThenSumSet(Size, qs), st.gone))

\* IPFragmenter::push of a packet that is too large for the path
Fragment(p, path) ==
    /\ ~looping /\ ~Fits(p, path.mtu) /\ ~Dropped(p, path.mtu, path.honor_df)
    /\ \E id \in (IF p.df THEN FreshIds ELSE {p.id}) :
          /\ p.df => \A r \in net : r.id # id
          /\ net' = net \cup Fragments(p, path.mtu, id)
    /\ looping' = ~OptcopyEnds(p)
    /\ out' = {}
    /\ UNCHANGED <<map, reap_time, mem_used, now>>

Tick ==
    /\ ~looping /\ out' = {}
    /\ \E d \in Steps : now + d <= MaxTime /\ now' = now + d
    /\ UNCHANGED <<net, map, reap_time, mem_used, looping>>

Next ==
    \/ \E p \in net : PassWhole(p)
    \/ \E p \in net : RefuseBad(p)
    \/ \E p \in net : Keep(p)
    \/ \E p \in net : KeepNoMemory(p)
    \/ \E p \in net, path \in Mtus : Fragment(p, path)
    \/ Tick

Spec == Init /\ [][Next]_vars
----------------------------------------------------------------------------
\* What check() verifies (ipreassembler.cc:95-137) and reports as an error:
\* queues are in their bucket, one for each segment, their chunks are in order
\* and apart, the last ends the packet, and _mem_used is their memory.
CheckWouldPass ==
    /\ mem_used = MapThenSumSet(Size, Queues(map))
    /\ \A b \in Buckets : \A i, j \in DOMAIN map[b] : map[b][i].id = map[b][j].id => i = j
    /\ \A b \in Buckets : \A q \in {map[b][i] : i \in DOMAIN map[b]} :
          /\ bucketno(q) = b
          /\ q.chunks[Len(q.chunks)].lastoff = Length(q)
          /\ \A i \in DOMAIN q.chunks : q.chunks[i].off < q.chunks[i].lastoff
          /\ \A i \in 1 .. Len(q.chunks) - 1 : q.chunks[i].lastoff < q.chunks[i + 1].off

\* The chunks, which are patched in place between the data, say exactly which
\* blocks came, whatever the order, the overlaps and the duplicates
\* (ipreassembler.cc:303-320), and those blocks hold the datagram's bytes.
ChunksReceived ==
    \A q \in Queues(map) :
       /\ UNION {c.off + 1 .. c.lastoff : c \in {q.chunks[i] : i \in DOMAIN q.chunks}} = q.seen
       /\ \A k \in DOMAIN q.data : q.data[k] = Garbage <=> k \notin q.seen

\* Both of these.
CheckPasses == CheckWouldPass /\ ChunksReceived

\* What leaves by output 0 is a datagram as it was sent: complete, in order, and
\* with the first fragment's header, however often it was cut up on the way
\* (ipreassembler.hh:19-22).
EmittedAsSent ==
    \A o \in out : o.port = 0 =>
       \E d \in Datagrams : o.data = [k \in 1 .. d.len |-> d.body] /\ o.hl = d.hl

\* A queue that holds every block of its datagram is not kept waiting
\* (ipreassembler.cc:344-348) - its MF bit was cleared by the last fragment.
WholeIsEmitted ==
    \A q \in Queues(map) : \A d \in Datagrams :
       q.seen = 1 .. d.len => q.data[1] # d.body

\* What is given up, for its age or for its memory, leaves by output 1 as all that
\* came of one incomplete datagram, every fragment at its proper offset
\* (ipreassembler.hh:25-27): nothing else between, no more than came behind, and
\* never with the whole datagram there.  Its header is the first fragment's if
\* that came.
PartialAsReceived ==
    \A o \in out : o.port = 1 =>
       \E d \in Datagrams :
          /\ o.seen \subseteq 1 .. d.len /\ o.seen # 1 .. d.len
          /\ Len(o.data) \in o.seen
          /\ \A k \in 1 .. Len(o.data) : o.data[k] = IF k \in o.seen THEN d.body ELSE Garbage
          /\ o.hl = IF 1 \in o.seen THEN d.hl ELSE IP_HEADER
=============================================================================
