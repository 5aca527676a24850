------------------------------ MODULE IPFilter ------------------------------
(***************************************************************************)
(* IPFilter and IPClassifier (ipfilter.{cc,hh}, ipclassifier.{cc,hh}): a   *)
(* list of slots with patterns, "src port > 1023 and not dst port 22", is  *)
(* compiled into tests of masked words; a packet goes to the slot of the   *)
(* first pattern it matches.                                               *)
(*                                                                         *)
(* A pattern is a sequence of words; a word is its kind and, for a number, *)
(* its value.  The expression tree that the code builds with the functions *)
(* of Classifier (external) is represented by the set of packets it        *)
(* accepts.  Of the types of check(), the ones with a source and a         *)
(* destination are represented by "port", those of a header field by       *)
(* "ttl", and protocol names by "tcp" and "udp".  After its first error a  *)
(* pattern is refused; what the code says about later ones is left out.    *)
(***************************************************************************)
EXTENDS Integers, Sequences, FiniteSets, Bitwise

CONSTANTS Full,      \* largest value of a field, 2^w - 1
          TCP, UDP,  \* their protocol numbers
          Packets,   \* records: proto, first (not a later fragment), src, dst, ttl
          Words, MaxWords, Slots, \* bounds: what an argument is made of
          MaxFilters, MaxBefore   \* bounds: arguments, and words of one that is not the last

Unknown  == -1       \* UNKNOWN
TcpOrUdp == -2       \* IP_PROTO_TCP_OR_UDP
Drop     == "drop"   \* the slot noutputs()

VARIABLES words,     \* the words of the argument that is read
          filters,   \* the arguments that were parsed
          slots,     \* the compiled program: the slot for each packet
          wide       \* what the processor makes of 0xFFFFFFFF >> 32, undefined in C++
vars == <<words, filters, slots, wide>>

NoProgram == [p \in {} |-> Drop]
Init == words = <<>> /\ filters = <<>> /\ slots = NoProgram /\ wide \in {0, Full}
----------------------------------------------------------------------------
\* Bits of a word: the highest one of x (ffs_msb), and the bits below bit n
Top(x)    == CHOOSE i \in 0 .. x : x \div 2 ^ i = 1
Below(n)  == 2 ^ n - 1
Minus(x, y) == x - (x & y)     \* x & ~y

Blank == [type |-> "none", data |-> "none", op |-> "=", neg |-> FALSE,
          srcdst |-> "none", transp |-> Unknown, u |-> 0, mask |-> 0]

Always(prim, b) == [prim EXCEPT !.u = 0, !.mask = 0, !.op = "=", !.neg = ~b]

\* value < X == !(value > X - 1)
NoLess(prim) == IF prim.op = "<" THEN [prim EXCEPT !.u = prim.u - 1, !.neg = ~prim.neg, !.op = ">"]
                                 ELSE prim

\* mutant: the bits of the value outside the mask are dropped
InMask_Cut(u, mask) == u & mask

\* 'tcp[0] & 5 > 2' is the same as 'tcp[0] & 5 > 1': all ones are shifted right until they are
\* below the highest missing bit, which for bit 0 is by their whole length
InMask(u, mask) ==
    LET missing == Minus(u, mask)
        add     == IF missing = 1 THEN wide ELSE Below(Top(missing))
    IN  IF missing = 0 THEN u ELSE (u | add) & mask

\* The value and the mask, or Refused
Refused == [type |-> "refused"]
SetMask(prim, provided) ==
    LET mask == IF provided # 0 THEN provided ELSE Full
        n    == NoLess(prim)
    IN  CASE mask > Full -> Refused
          [] mask <= Full /\ prim.op = "<" /\ prim.u = 0    -> Always(prim, prim.neg)
          [] mask <= Full /\ prim.op = "<" /\ prim.u > mask -> Always(prim, ~prim.neg)
          [] mask <= Full /\ prim.op = ">" /\ prim.u >= mask -> Always(prim, prim.neg)
          [] mask <= Full /\ prim.op = "=" -> IF prim.u > Full THEN Refused
                                              ELSE [prim EXCEPT !.mask = mask]
          [] OTHER -> [n EXCEPT !.u = InMask(n.u, mask), !.mask = mask]

\* The type of a directive without one
Typed(prim, prev) ==
    CASE prim.type # "none" -> prim
      [] prim.type = "none" /\ prim.data = "number" /\ prev.type = "port" ->
            [prim EXCEPT !.type = "port",
                         !.srcdst = IF prim.srcdst = "none" THEN prev.srcdst ELSE prim.srcdst,
                         !.transp = IF prim.transp = Unknown THEN prev.transp ELSE prim.transp]
      [] prim.type = "none" /\ prim.data = "number" /\ prev.type # "port" ->
            IF prev.type = "none" THEN Refused ELSE [prim EXCEPT !.type = prev.type]
      [] prim.type = "none" /\ prim.data = "none" ->
            IF prim.transp = Unknown THEN Refused ELSE [prim EXCEPT !.type = "proto"]

\* check() for each type
CheckedProto(prim, provided) ==
    LET u == IF prim.data = "number" THEN prim.u ELSE prim.transp
        q == SetMask([prim EXCEPT !.u = u, !.transp = Unknown], provided)
    IN  IF (prim.data = "number" /\ prim.transp \notin {Unknown, u}) \/ q.type = "refused"
        THEN Refused
        ELSE IF q.op = "=" /\ q.mask = Full /\ ~q.neg THEN [q EXCEPT !.transp = q.u] ELSE q

CheckedPort(prim, provided) ==
    IF prim.data = "none" THEN Refused
    ELSE SetMask([prim EXCEPT !.transp = IF prim.transp = Unknown THEN TcpOrUdp ELSE prim.transp,
                              !.srcdst = IF prim.srcdst = "none" THEN "or" ELSE prim.srcdst], provided)

Check(prim, prev, provided) ==
    LET t == Typed(prim, prev)
    IN  CASE t.type = "proto" -> CheckedProto(t, provided)
          [] t.type = "port"  -> CheckedPort(t, provided)
          [] t.type = "ttl"   -> IF t.data = "none" THEN Refused ELSE SetMask(t, provided)
          [] OTHER -> Refused
----------------------------------------------------------------------------
\* The tests of a primitive, as the packets that pass them
Masked(field, mask, u) == {p \in Packets : p[field] & mask = u}

\* The bits to test first for input & mask > u
UpperMask(mask, u) ==
    LET high == u > mask \div 2
        diff == IF high THEN Minus(mask, u + 1) ELSE u
    IN  IF diff = 0 THEN mask ELSE Minus(mask, Below(Top(diff) + 1))

RECURSIVE Greater(_, _, _)
Greater(field, mask, u) ==
    LET high  == u > mask \div 2
        upper == UpperMask(mask, u)
        test  == IF high THEN Masked(field, upper, upper) ELSE Packets \ Masked(field, upper, 0)
        lower == Minus(mask, upper)
        more  == Greater(field, lower, u & lower)
    IN  IF (u & lower) >= lower THEN test
        ELSE IF high THEN test \cap more ELSE test \cup more

\* A value that fills the mask adds no test; what an empty subtree is to Classifier is not known
\* here, and is taken to restrict nothing
Comparison(field, prim) ==
    LET u == prim.u & prim.mask
    IN  CASE prim.op = "=" -> Masked(field, prim.mask, u)
          [] prim.op = ">" /\ u >= prim.mask -> Packets
          [] OTHER -> Greater(field, prim.mask, u)

ProtoIs(transp) ==
    {p \in Packets : p.proto \in IF transp = TcpOrUdp THEN {TCP, UDP} ELSE {transp}}

Negated(b, d) == IF b THEN Packets \ d ELSE d

PortTest(prim) ==
    LET src == Comparison("src", prim)
        dst == Comparison("dst", prim)
    IN  Negated(prim.neg, CASE prim.srcdst = "src" -> src [] prim.srcdst = "dst" -> dst
                        [] prim.srcdst = "and" -> src \cap dst [] OTHER -> src \cup dst)

\* add_exprs
Accepted(prim) ==
    (IF prim.transp = Unknown THEN Packets ELSE ProtoIs(prim.transp)) \cap
    CASE prim.type = "port"  -> PortTest(prim) \cap {p \in Packets : p.first}
      [] prim.type = "proto" -> Negated(prim.neg, Comparison("proto", prim))
      [] prim.type = "ttl"   -> Negated(prim.neg, Comparison("ttl", prim))
----------------------------------------------------------------------------
\* The parser.  Each function returns the next position, the packets accepted, the last primitive
\* (prev_prim) and whether there was no error.
Kind(ws, i)  == IF i <= Len(ws) THEN ws[i].k ELSE "end"
NotLast(ws, i) == IF i < Len(ws) THEN ws[i].k ELSE ""
Parsed(pos, d, prev) == [pos |-> pos, d |-> d, prev |-> prev, ok |-> TRUE]
Error == [pos |-> 0, d |-> {}, prev |-> Blank, ok |-> FALSE]

Relops == {"=", "!=", ">", "<", ">=", "<="}
Related(prim, r) ==
    [prim EXCEPT !.op = CASE r \in {"=", "!="} -> "=" [] r \in {">", "<="} -> ">" [] OTHER -> "<",
                 !.neg = r \in {"!=", ">=", "<="}]

\* Qualifiers: the position behind them, the primitive, an odd number of negations, no error
Qualified(pos, prim, odd, ok) == [pos |-> pos, prim |-> prim, odd |-> odd, ok |-> ok]
BothDirs(ws, i) == ws[i].k = "src" /\ Kind(ws, i + 2) = "dst" /\ Kind(ws, i + 1) \in {"and", "or"}

RECURSIVE Quals(_, _)
Quals(ws, q) ==
    LET k == Kind(ws, q.pos)
        transp == IF k = "tcp" THEN TCP ELSE UDP
        dirs == IF BothDirs(ws, q.pos) THEN ws[q.pos + 1].k ELSE k
        Next1(prim, ok) == Quals(ws, Qualified(q.pos + 1, prim, q.odd, q.ok /\ ok))
    IN  CASE k \in {"port", "ttl"} -> Next1([q.prim EXCEPT !.type = k], q.prim.type = "none")
          [] k \in {"tcp", "udp"}  -> Next1([q.prim EXCEPT !.transp = transp],
                                            q.prim.transp \in {Unknown, transp})
          [] k \in {"src", "dst"}  ->
                Quals(ws, Qualified(q.pos + (IF dirs = k THEN 1 ELSE 3),
                                    [q.prim EXCEPT !.srcdst = dirs], q.odd,
                                    q.ok /\ q.prim.srcdst = "none"))
          [] k = "!" -> Quals(ws, Qualified(q.pos + 1, q.prim, ~q.odd, q.ok))
          [] OTHER   -> q

\* quals [& mask] [relop] data: a primitive that began at pos, part by part
Checked(pos, done, odd, c) ==
    IF done = pos \/ c.type = "refused" THEN Error ELSE Parsed(done, Negated(odd, Accepted(c)), c)

Data(ws, pos, at, q, before, provided) ==
    IF Kind(ws, at) = "number"
    THEN Checked(pos, at + 1, q.odd, Check([q.prim EXCEPT !.data = "number", !.u = ws[at].n], before, provided))
    ELSE IF at <= Len(ws) /\ (q.prim.op # "=" \/ q.prim.neg) THEN Error
    ELSE Checked(pos, at, q.odd, Check(q.prim, before, provided))

Relop(ws, pos, at, q, before, provided) ==
    LET rel == NotLast(ws, at) \in Relops
    IN  Data(ws, pos, IF rel THEN at + 1 ELSE at,
             IF rel THEN [q EXCEPT !.prim = Related(@, ws[at].k)] ELSE q, before, provided)

Mask(ws, pos, q, before) ==
    LET masked == NotLast(ws, q.pos) = "&" /\ Kind(ws, q.pos + 1) = "number"
    IN  IF masked /\ ws[q.pos + 1].n = 0 THEN Error
        ELSE Relop(ws, pos, IF masked THEN q.pos + 2 ELSE q.pos, q, before,
                   IF masked THEN ws[q.pos + 1].n ELSE 0)

Primitive(ws, pos, prev, negated) ==
    LET q == Quals(ws, Qualified(pos, Blank, negated, TRUE))
    IN  IF q.ok THEN Mask(ws, pos, q, IF q.pos # pos THEN Blank ELSE prev) ELSE Error

RECURSIVE Factor(_, _, _, _), Term(_, _, _), OrExpr(_, _, _), Expr(_, _, _)

\* What was parsed first with what followed it
Both(f, rest)   == IF rest.ok THEN [rest EXCEPT !.d = f.d \cap rest.d] ELSE Error
Either(t, rest) == IF rest.ok THEN [rest EXCEPT !.d = t.d \cup rest.d] ELSE Error
Choice(c, a, b) == IF b.ok THEN [b EXCEPT !.d = (c.d \cap a.d) \cup (b.d \ c.d)] ELSE Error
Behind(pos, f)  == IF f.ok /\ f.pos = pos THEN Error ELSE f
Enclosed(ws, pos, negated, e) ==
    IF e.ok /\ e.pos # pos /\ Kind(ws, e.pos) = ")"
    THEN Parsed(e.pos + 1, Negated(negated, e.d), e.prev) ELSE Error

Factor(ws, pos, prev, negated) ==
    LET k == Kind(ws, pos)
    IN  CASE k \in {"end", ")", "or", "?", ":"} -> Parsed(pos, {}, prev)
          [] k = "!" -> Behind(pos + 1, Factor(ws, pos + 1, prev, ~negated))
          [] k = "(" -> Enclosed(ws, pos + 1, negated, Expr(ws, pos + 1, prev))
          [] OTHER   -> Primitive(ws, pos, prev, negated)

MoreFactors(ws, pos, f) ==
    LET also == Kind(ws, f.pos) = "and"
        next == IF also THEN f.pos + 1 ELSE f.pos
    IN  CASE ~f.ok \/ f.pos = pos -> Error
          [] f.ok /\ f.pos # pos /\ ~also /\ Kind(ws, next) \in {"end", ")", "or", "?", ":"} -> f
          [] OTHER -> Both(f, Term(ws, next, f.prev))
Term(ws, pos, prev) == MoreFactors(ws, pos, Factor(ws, pos, prev, FALSE))

MoreTerms(ws, t) ==
    IF ~t.ok \/ Kind(ws, t.pos) # "or" THEN t ELSE Either(t, OrExpr(ws, t.pos + 1, t.prev))
OrExpr(ws, pos, prev) == MoreTerms(ws, Term(ws, pos, prev))

Colon(ws, c, a) ==
    IF a.ok /\ Kind(ws, a.pos) = ":" THEN Choice(c, a, Expr(ws, a.pos + 1, a.prev)) ELSE Error
Question(ws, c) ==
    IF ~c.ok \/ Kind(ws, c.pos) # "?" THEN c ELSE Colon(ws, c, Expr(ws, c.pos + 1, c.prev))
Expr(ws, pos, prev) == Question(ws, OrExpr(ws, pos, prev))

\* An argument: no words but its slot, or an expression and nothing after it
Pattern(ws) ==
    LET e == Expr(ws, 1, Blank)
    IN  IF ws = <<>> THEN Parsed(1, Packets, Blank)
        ELSE IF e.ok /\ e.pos > Len(ws) THEN e ELSE Error
----------------------------------------------------------------------------
\* Another argument may follow; after one with an error the configuration is lost
Reading == /\ slots = NoProgram /\ Len(filters) < MaxFilters
           /\ \A i \in DOMAIN filters : filters[i].ok /\ Len(filters[i].text) <= MaxBefore

\* separate_text
Word(w) ==
    /\ Reading /\ Len(words) < MaxWords
    /\ words' = Append(words, w)
    /\ UNCHANGED <<filters, slots, wide>>

\* an argument of configure
Filter(slot, e) == [text |-> words, slot |-> slot, ok |-> e.ok, d |-> e.d]
Argument(slot) ==
    /\ Reading
    /\ filters' = Append(filters, Filter(slot, Pattern(words)))
    /\ words' = <<>>
    /\ UNCHANGED <<slots, wide>>

FirstMatch(fs, p) ==
    LET matching == {i \in DOMAIN fs : p \in fs[i].d}
    IN  IF matching = {} THEN Drop ELSE fs[CHOOSE i \in matching : \A j \in matching : i <= j].slot

\* the end of configure, which fails after any error
Compile ==
    /\ slots = NoProgram /\ words = <<>> /\ filters # <<>>
    /\ \A i \in DOMAIN filters : filters[i].ok
    /\ slots' = [p \in Packets |-> FirstMatch(filters, p)]
    /\ UNCHANGED <<words, filters, wide>>

Next ==
    \/ \E w \in Words : Word(w)
    \/ \E slot \in Slots : Argument(slot)
    \/ Compile

Spec == Init /\ [][Next]_vars
----------------------------------------------------------------------------
(***************************************************************************)
(* What the documentation of IPClassifier and the grammar before           *)
(* parse_expr() say, over the spans of a text.                             *)
(***************************************************************************)
Kinds(ws) == [i \in DOMAIN ws |-> ws[i].k]

\* [SRCORDST] [tcp | udp] port, ttl, and a protocol name by itself
Directives ==
    LET dirs == {[t |-> <<>>, v |-> "or"], [t |-> <<"src">>, v |-> "src"], [t |-> <<"dst">>, v |-> "dst"],
                 [t |-> <<"src", "or", "dst">>, v |-> "or"], [t |-> <<"src", "and", "dst">>, v |-> "and"]}
        protos == {[t |-> <<>>, v |-> {TCP, UDP}], [t |-> <<"tcp">>, v |-> {TCP}], [t |-> <<"udp">>, v |-> {UDP}]}
        port(dir, proto) == [t |-> dir.t \o proto.t \o <<"port">>, of |-> "port", dir |-> dir.v, protos |-> proto.v]
        other(of) == [t |-> <<of>>, of |-> of, dir |-> "none", protos |-> {}]
    IN  {port(x[1], x[2]) : x \in dirs \X protos} \cup {other("ttl"), other("tcp"), other("udp")}

Phrase(ks, i, dir) == i + Len(dir.t) - 1 <= Len(ks) /\ SubSeq(ks, i, i + Len(dir.t) - 1) = dir.t

\* 'src port 80 or 81' is the same as 'src port 80 or src port 81': the directive that ends last before i
Repeated(ks, i) ==
    LET before == {<<k, d>> \in (1 .. i - 1) \X Directives : Phrase(ks, k, d) /\ k + Len(d.t) <= i}
        later(x, y) == \/ x[1] + Len(x[2].t) > y[1] + Len(y[2].t)
                       \/ x[1] + Len(x[2].t) = y[1] + Len(y[2].t) /\ Len(x[2].t) >= Len(y[2].t)
    IN  {x[2] : x \in {x \in before : \A y \in before : later(x, y)}}

Holds(x, r, v) == CASE r = "=" -> x = v [] r = ">" -> x > v [] r = ">=" -> x >= v

\* 'DIRECTIVE & MASK OP VALUE'; '!=', '<' and '<=' exclude what '==', '>=' and '>' match, but for
\* the protocol and later fragments
Directive(d, mask, r, v) ==
    LET yes(x, op) == Holds(x & mask, op, v)
        port(p, op) == CASE d.dir = "src" -> yes(p.src, op)
                         [] d.dir = "dst" -> yes(p.dst, op)
                         [] d.dir = "or"  -> yes(p.src, op) \/ yes(p.dst, op)
                         [] d.dir = "and" -> yes(p.src, op) /\ yes(p.dst, op)
        some(p, op) == CASE d.of = "port" -> port(p, op)
                         [] d.of = "ttl"  -> yes(p.ttl, op)
                         [] OTHER         -> yes(p.proto, op)
        opposite == CASE r = "!=" -> "=" [] r = "<" -> ">=" [] r = "<=" -> ">" [] OTHER -> r
    IN  {p \in Packets : /\ d.of = "port" => p.proto \in d.protos /\ p.first
                         /\ some(p, opposite) = (opposite = r)}

\* The directive is neither always true nor always false, and bit 0 is the only bit of the number
\* compared with (one less for '<' and '>=') that the mask lacks
LacksBit0(mask, r, v) ==
    LET u == IF r \in {"<", ">="} THEN v - 1 ELSE v
    IN  r \notin {"=", "!="} /\ u \in 0 .. mask - 1 /\ Minus(u, mask) = 1

\* A value has its bits in the mask, and the field; a processor that shifts by the length of a word
\* as by 0 (x86) gets wrong what lacks bit 0
Fits(mask, r, v) ==
    /\ mask \in 1 .. Full /\ (r \in {"=", "!="} => v <= Full /\ v & mask = v)
    /\ LacksBit0(mask, r, v) => wide = 0

\* Words i to j of the text, the last a number: [directive] [& mask] [relop] value
WithRelop(ws, at, j, d, mask) ==
    LET rel == Kind(ws, at) \in Relops
        op  == IF rel THEN ws[at].k ELSE "="
    IN  IF j = (IF rel THEN at + 1 ELSE at) /\ Fits(mask, op, ws[j].n)
        THEN {Directive(d, mask, op, ws[j].n)} ELSE {}
WithMask(ws, at, j, d) ==
    LET masked == Kind(ws, at) = "&" /\ Kind(ws, at + 1) = "number"
    IN  WithRelop(ws, IF masked THEN at + 2 ELSE at, j, d, IF masked THEN ws[at + 1].n ELSE Full)
Valued(ws, i, j) ==
    LET given    == {d \in Directives : d.of \in {"port", "ttl"} /\ Phrase(Kinds(ws), i, d)}
        repeated == Repeated(Kinds(ws), i)
    IN  UNION {WithMask(ws, i + Len(d.t), j, d) : d \in given \ repeated}
        \cup UNION {WithMask(ws, i, j, d) : d \in repeated}

\* A protocol name by itself
Named(ws, i) ==
    IF ws[i].k \in {"tcp", "udp"} /\ Kind(ws, i + 1) \in {"and", "or", "?", ":", ")", "(", "end"}
    THEN {ProtoIs(IF ws[i].k = "tcp" THEN TCP ELSE UDP)} ELSE {}

RECURSIVE Factors(_, _, _), Terms(_, _, _), OrExprs(_, _, _), Exprs(_, _, _)
Factors(ws, i, j) ==
    (CASE i > j -> {}
       [] i <= j /\ ws[j].k = "number" -> Valued(ws, i, j)
       [] i <= j /\ ws[i].k = "(" /\ ws[j].k = ")" -> Exprs(ws, i + 1, j - 1)
       [] OTHER -> IF i = j THEN Named(ws, i) ELSE {})
    \cup (IF i < j /\ ws[i].k = "!" THEN {Packets \ d : d \in Factors(ws, i + 1, j)} ELSE {})
Terms(ws, i, j) ==
    Factors(ws, i, j) \cup
    UNION {UNION {{a \cap b : a \in Terms(ws, i, IF ws[k].k = "and" THEN k - 1 ELSE k)} :
                  b \in Factors(ws, k + 1, j)} : k \in i .. j - 1}
OrExprs(ws, i, j) ==
    Terms(ws, i, j) \cup
    UNION {UNION {{a \cup b : a \in OrExprs(ws, i, k - 1)} : b \in Terms(ws, k + 1, j)} :
           k \in {k \in i + 1 .. j - 1 : ws[k].k = "or"}}
Exprs(ws, i, j) ==
    OrExprs(ws, i, j) \cup
    UNION {{(c \cap a) \cup (b \ c) : c \in OrExprs(ws, i, x[1] - 1),
                                      a \in Exprs(ws, x[1] + 1, x[2] - 1), b \in Exprs(ws, x[2] + 1, j)} :
           x \in {x \in (i + 1 .. j - 1) \X (i + 1 .. j - 1) :
                    x[1] < x[2] /\ ws[x[1]].k = "?" /\ ws[x[2]].k = ":"}}

Meanings(ws) == IF ws = <<>> THEN {Packets} ELSE Exprs(ws, 1, Len(ws))

\* The arguments with their meanings
Meant == UNION {{<<i, d>> : d \in Meanings(filters[i].text)} : i \in DOMAIN filters}
Means(meant, i, p) == \E x \in meant : x[1] = i /\ p \in x[2]
AsMeant(meant) ==
    /\ \A x \in meant : filters[x[1]].ok /\ filters[x[1]].d = x[2]
    /\ slots # NoProgram /\ {x[1] : x \in meant} = DOMAIN filters =>
          \A p \in Packets :
              \/ slots[p] = Drop /\ \A i \in DOMAIN filters : ~Means(meant, i, p)
              \/ \E i \in DOMAIN filters : /\ slots[p] = filters[i].slot /\ Means(meant, i, p)
                                           /\ \A j \in 1 .. i - 1 : ~Means(meant, j, p)

\* A text to which the grammar and the documentation give a meaning is accepted, and a packet goes
\* to the slot of the first text that, by its relations, masks, repeated directives, precedences and
\* negations, means it (configure, parse_expr, parse_factor, check, set_mask, add_comparison_exprs).
\* Without a meaning here are the comparisons that shift a word by its whole length (LacksBit0;
\* ipfilter.cc:244) where that is a shift by 0.
FilteredAsWritten == words = <<>> => AsMeant(Meant)
=============================================================================
