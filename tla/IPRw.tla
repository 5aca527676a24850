-------------------------------- MODULE IPRw --------------------------------
(***************************************************************************)
(* The NAT elements IPAddrRewriter and IPAddrPairRewriter on their base    *)
(* class IPRw (iprw.cc), with patterns (IPRw::Pattern) and the mappers     *)
(* RoundRobinIPMapper and SourceIPHashMapper that choose between them.     *)
(*                                                                         *)
(* Mappings are made in pairs, a forward and a reverse one; _map leads     *)
(* from a flow to one of them.  Mappings are freed by a timer alone, which *)
(* compares the jiffies of their last use with a constant: what counts is  *)
(* only whether they are, as a signed number, at least that constant.      *)
(***************************************************************************)
EXTENDS Integers, Sequences, FiniteSets

CONSTANTS Packets,  \* [src, dst] of the packets; the address 0 is none
          Configs,  \* configurations: [kind, spec], kind addr or pair
          HashOf,   \* SourceIPHashMapper: source -> place in its patterns
          MaxPairs  \* bound: pairs of mappings

\* IPRw::Pattern, without the bits of _variation_mask
Pattern == [saddr : Nat, sport : Nat, daddr : Nat, dport : Nat, top : Nat, sequential : BOOLEAN]

ASSUME RwAssumption ==
    /\ MaxPairs \in Nat
    /\ \A c \in Configs : \A i \in DOMAIN c.spec :
          /\ c.spec[i].pats \in Seq(Pattern)
          /\ c.spec[i].kind = "hash" => \A p \in Packets : HashOf[p.src] \in DOMAIN c.spec[i].pats

VARIABLES config,       \* the element's class and arguments
          map,          \* _map: flow -> [pair, dir]
          pairs,        \* pair -> [in, out, pat, used]
          next,         \* pattern -> _next_variation
          last_pattern, \* RoundRobinIPMapper::_last_pattern of an input, from 0
          late,         \* click_jiffies() at least the timer's constant
          refused       \* (history) what create_mapping refused for the last packet

vars == <<config, map, pairs, next, last_pattern, late, refused>>

\* IPFlowID; IPFlowID::reverse
Flow(s, d) == [s |-> s, sp |-> 0, d |-> d, dp |-> 0]
Rev(f) == [s |-> f.d, sp |-> f.dp, d |-> f.s, dp |-> f.sp]

Inputs == DOMAIN config.spec
Patterns(c) == UNION {{c.spec[i].pats[k] : k \in DOMAIN c.spec[i].pats} : i \in DOMAIN c.spec}

\* Pattern::parse_nat, of the addresses of an ADDR/LEN of W bits: the first and
\* the last are left out but of the two longest prefixes
NatPrefix(addr, len, W) ==
    LET size == 2^(W - len)
        first == (addr \div size) * size
    IN  CASE size = 1 -> [saddr |-> addr, top |-> 0]
          [] size = 2 -> [saddr |-> first, top |-> 1]
          [] OTHER    -> [saddr |-> first + 1, top |-> size - 3]

\* _variation_mask: doubled, with a one bit more, from 1 on until it is not below
\* _variation_top
Masks(top) == {m \in 1 .. 2 * top : \A S \in SUBSET (1 .. 2 * top) :
                  1 \in S /\ (\A x \in S : x < top => 2 * x + 1 \in S) => m \in S}
VariationMask(top) == CHOOSE m \in Masks(top) : m >= top
----------------------------------------------------------------------------
\* Pattern::create_mapping, for flow in
Substituted(pat, in) == [s |-> IF pat.saddr # 0 THEN pat.saddr ELSE in.s,
                         sp |-> IF pat.sport # 0 THEN pat.sport ELSE in.sp,
                         d |-> IF pat.daddr # 0 THEN pat.daddr ELSE in.d,
                         dp |-> IF pat.dport # 0 THEN pat.dport ELSE in.dp]
Variation(pat, in, val) == [Substituted(pat, in) EXCEPT !.s = pat.saddr + val]
\* mutant: the new flow is looked up itself, and not its reply
Available_Forward(pat, in) == {val \in 0 .. pat.top : Variation(pat, in, val) \notin DOMAIN map}
Available(pat, in) == {val \in 0 .. pat.top : Rev(Variation(pat, in, val)) \notin DOMAIN map}

\* mutant: one value less
Tried_Short(pat, from) ==
    LET mask == VariationMask(pat.top)
    IN  [k \in 0 .. mask - 1 |-> IF k = 0 THEN from ELSE (from + k) % (mask + 1)]

\* the values a sequential pattern tries, from the next on
Tried(pat, from) ==
    LET mask == VariationMask(pat.top)
    IN  [k \in 0 .. mask |-> IF k = 0 THEN from ELSE (from + k) % (mask + 1)]

\* the variations it may choose; a random start and an odd step meet them all
Choices(pat, in) ==
    IF ~pat.sequential THEN Available(pat, in)
    ELSE LET tried == Tried(pat, next[pat])
             good == {k \in DOMAIN tried : tried[k] \in Available(pat, in)}
         IN  {tried[k] : k \in {k \in good : \A l \in good : k <= l}}
Accepts(pat, in) == pat.top = 0 \/ Choices(pat, in) # {}

\* apply_pattern: both mappings enter the map, the reverse one last.  The time
\* of the reverse one's last use is not initialised.
NewPair == CHOOSE n \in 1 .. MaxPairs : n \notin DOMAIN pairs
Enter(in, out, pat) ==
    /\ Cardinality(DOMAIN pairs) < MaxPairs
    /\ \E garbage \in BOOLEAN :
         pairs' = [n \in DOMAIN pairs \cup {NewPair} |->
                     IF n = NewPair THEN [in |-> in, out |-> out, pat |-> pat,
                                          used |-> [forward |-> late, reverse |-> garbage]]
                     ELSE pairs[n]]
    /\ map' = [f \in DOMAIN map \cup {in, Rev(out)} |->
                 IF f = Rev(out) THEN [pair |-> NewPair, dir |-> "reverse"]
                 ELSE IF f = in THEN [pair |-> NewPair, dir |-> "forward"] ELSE map[f]]

ApplyPattern(pat, in) ==
    \/ /\ pat.top = 0
       /\ Enter(in, Substituted(pat, in), pat)
       /\ UNCHANGED next
    \/ /\ pat.top # 0
       /\ \E val \in Choices(pat, in) : /\ Enter(in, Variation(pat, in, val), pat)
                                        /\ next' = [next EXCEPT ![pat] = val + 1]
----------------------------------------------------------------------------
\* push.  IPAddrRewriter looks a packet up by its source and then by its
\* destination, IPAddrPairRewriter by both.
Key(p) == IF config.kind = "addr" THEN Flow(p.src, 0) ELSE Flow(p.src, p.dst)
Found(p) == IF Key(p) \in DOMAIN map THEN {Key(p)}
            ELSE IF config.kind = "addr" THEN {Flow(0, p.dst)} \cap DOMAIN map ELSE {}

\* apply: the addresses a mapping gives to a packet
Applied(pair, dir, p) ==
    IF dir = "forward"
      THEN [src |-> pair.out.s, dst |-> IF config.kind = "addr" THEN p.dst ELSE pair.out.d]
      ELSE [src |-> IF config.kind = "addr" THEN p.src ELSE pair.in.d, dst |-> pair.in.s]

PushFound(i, p) ==
    \E f \in Found(p) :
       /\ pairs' = [pairs EXCEPT ![map[f].pair].used[map[f].dir] = late]
       /\ refused' = {}
       /\ UNCHANGED <<config, map, next, last_pattern, late>>

\* INPUT_SPEC_NOCHANGE and INPUT_SPEC_DROP make no mapping
PushPlain(i, p) ==
    /\ Found(p) = {} /\ config.spec[i].kind \in {"pass", "drop"}
    /\ refused' = {}
    /\ UNCHANGED <<config, map, pairs, next, last_pattern, late>>

PushKeep(i, p) ==
    /\ Found(p) = {} /\ config.spec[i].kind = "keep"
    /\ Enter(Key(p), Key(p), "none")
    /\ refused' = {}
    /\ UNCHANGED <<config, next, last_pattern, late>>

\* INPUT_SPEC_PATTERN and both mappers: the patterns that are tried for the
\* packet, in order; the first that accepts it makes the mapping
Order(i, p) ==
    LET s == config.spec[i]
        n == Len(s.pats)
    IN  IF s.kind = "hash" THEN <<s.pats[HashOf[p.src]]>>
        ELSE [k \in 1 .. n |-> s.pats[((last_pattern[i] + k - 1) % n) + 1]]
PushPattern(i, p) ==
    LET order == Order(i, p)
        accepting == {k \in DOMAIN order : Accepts(order[k], Key(p))}
    IN  /\ Found(p) = {} /\ config.spec[i].kind \in {"pattern", "roundrobin", "hash"}
        /\ \E k \in accepting :
             /\ \A l \in accepting : k <= l
             /\ ApplyPattern(order[k], Key(p))
             /\ last_pattern' = IF config.spec[i].kind = "roundrobin"
                                  THEN [last_pattern EXCEPT ![i] = (@ + k) % Len(order)]
                                  ELSE last_pattern
        /\ refused' = {}
        /\ UNCHANGED <<config, late>>

PushRefused(i, p) ==
    /\ Found(p) = {} /\ config.spec[i].kind \in {"pattern", "roundrobin", "hash"}
    /\ \A k \in DOMAIN Order(i, p) : ~Accepts(Order(i, p)[k], Key(p))
    /\ refused' = {[pat |-> Order(i, p)[k], flow |-> Key(p)] : k \in DOMAIN Order(i, p)}
    /\ UNCHANGED <<config, map, pairs, next, last_pattern, late>>
----------------------------------------------------------------------------
\* run_timer, clean_map: the pairs whose forward mapping is in the map and
\* whose mappings were both last used before the constant are freed, and
\* whatever the map has under their two flows is erased
Idle == {n \in DOMAIN pairs : /\ \E f \in DOMAIN map : map[f] = [pair |-> n, dir |-> "forward"]
                              /\ ~pairs[n].used.forward /\ ~pairs[n].used.reverse}
\* mutant: the flow of the reverse mapping stays in the map
RunTimer_ForwardOnly ==
    /\ pairs' = [n \in DOMAIN pairs \ Idle |-> pairs[n]]
    /\ map' = [f \in DOMAIN map \ {pairs[n].in : n \in Idle} |-> map[f]]
    /\ refused' = {}
    /\ UNCHANGED <<config, next, last_pattern, late>>

RunTimer ==
    /\ pairs' = [n \in DOMAIN pairs \ Idle |-> pairs[n]]
    /\ map' = [f \in DOMAIN map \ UNION {{pairs[n].in, Rev(pairs[n].out)} : n \in Idle} |-> map[f]]
    /\ refused' = {}
    /\ UNCHANGED <<config, next, last_pattern, late>>

\* the signed difference of the 32-bit jiffies and the constant changes its sign
ClockTurns == /\ late' = ~late /\ refused' = {}
              /\ UNCHANGED <<config, map, pairs, next, last_pattern>>
----------------------------------------------------------------------------
Init == /\ config \in Configs
        /\ map = << >> /\ pairs = << >> /\ refused = {}
        /\ next = [pat \in Patterns(config) |-> 0]
        /\ last_pattern = [i \in Inputs |-> 0]
        /\ late \in BOOLEAN

Next == \/ \E i \in Inputs, p \in Packets : PushFound(i, p)
        \/ \E i \in Inputs, p \in Packets : PushPlain(i, p)
        \/ \E i \in Inputs, p \in Packets : PushKeep(i, p)
        \/ \E i \in Inputs, p \in Packets : PushPattern(i, p)
        \/ \E i \in Inputs, p \in Packets : PushRefused(i, p)
        \/ RunTimer
        \/ ClockTurns

Spec == Init /\ [][Next]_vars
----------------------------------------------------------------------------
\* No flow leads to a pair that was freed, and at most one flow to each mapping
\* of a pair (iprw.cc:536-550).
NoDangling ==
    /\ \A f \in DOMAIN map : map[f].pair \in DOMAIN pairs
    /\ \A f, g \in DOMAIN map : map[f] = map[g] => f = g

\* Ranges keep flows apart: when every mapping is made from a range of addresses,
\* a pair is found by its own flow and by the replies to it, which get the
\* addresses of the flow back (ipaddrpairrewriter.hh:58-67), and the timer can
\* free it.  A flow that is the reply to itself is left out: its forward
\* mapping is lost at once.
AllVaried == \A i \in Inputs : \A k \in DOMAIN config.spec[i].pats : config.spec[i].pats[k].top # 0
NoneKept == \A i \in Inputs : config.spec[i].kind # "keep"
Reply(p) == [src |-> p.dst, dst |-> p.src]
RepliesReturn ==
    AllVaried /\ NoneKept =>
      \A n \in DOMAIN pairs :
        LET pair == pairs[n] IN
        pair.in # Rev(pair.out) =>
          /\ map[pair.in] = [pair |-> n, dir |-> "forward"]
          /\ map[Rev(pair.out)] = [pair |-> n, dir |-> "reverse"]
          /\ \A p \in Packets : Key(p) = pair.in =>
               Applied(pair, "reverse", Reply(Applied(pair, "forward", p))) = Reply(p)

\* A packet is dropped for want of an address only when every pattern tried for
\* it has all its addresses in use (ipaddrrewriter.hh:52-54), or is sequential
\* and handed out the last of 2^k addresses before the first became free.
Full(r) == Available(r.pat, r.flow) = {}
DropsExplained ==
    \A r \in refused : \/ Full(r)
                       \/ /\ r.pat.sequential /\ Available(r.pat, r.flow) = {0}
                          /\ next[r.pat] = r.pat.top + 1 /\ VariationMask(r.pat.top) = r.pat.top
============================================================================
