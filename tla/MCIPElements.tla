---------------------------- MODULE MCIPElements ----------------------------
(* Elements that look at IP packets, one kind at a time: IPFilter with one  *)
(* directive with any relation, mask and value of three bits, or with an    *)
(* expression of a few directives over two values; or the elements of the   *)
(* header with packets of every checksum, option or malformation.           *)
EXTENDS Sequences, Integers, FiniteSets, TLC

CONSTANTS Slots
VARIABLES element, words, filters, slots, wide, pkt, port, hops, kept, ids

Sym(k)    == [k |-> k, n |-> 0]
Number(n) == [k |-> "number", n |-> n]
MCRelops  == {"=", "!=", ">", "<", ">=", "<="}
MCWords   == {Sym(k) : k \in {"src", "dst", "port", "ttl", "tcp", "or", "and", "!", "(", ")", "?", ":", "&"}
                             \cup MCRelops} \cup {Number(n) : n \in 0 .. 8}

\* Every source port with every time to live, and every combination of the two values
MCPackets == {[proto |-> 1, first |-> TRUE, src |-> x, dst |-> y, ttl |-> 7 - x] : x \in 0 .. 7, y \in {4, 6}}
             \cup [proto : {1, 2, 3}, first : BOOLEAN, src : {1, 2}, dst : {1, 2}, ttl : {3}]

F == INSTANCE IPFilter WITH Full <- 7, TCP <- 1, UDP <- 2, Packets <- MCPackets, Words <- MCWords,
                            MaxWords <- 6, MaxFilters <- 2, MaxBefore <- 2
----------------------------------------------------------------------------
\* Bytes of four bits, halfwords of eight, addresses of sixteen
MCMe    == 4660
MCOther == 22136
MCAddresses == {0, 65535, MCOther, 22143}
MCNow   == <<3, 0, 15, 5>>
MCFrontSums == {4661}

Base == [v |-> 4, hl |-> 5, tos |-> 1, len |-> 40, id |-> 0, frag |-> 0, ttl |-> 3, proto |-> 6,
         src |-> MCOther, dst |-> 9029, opts |-> <<>>, sport |-> 17, dport |-> 34, tlen |-> 20,
         sum |-> 0, tsum |-> 0, plen |-> 40, front |-> 0, nh |-> FALSE, dst_anno |-> 0,
         fix_src |-> FALSE, paint |-> 0, type |-> "host", shared |-> FALSE, problem |-> -1]

RRPieces == {<<7, len, ptr>> \o [i \in 1 .. len - 3 |-> 10] : len \in {3, 7, 8, 11}, ptr \in {3, 4, 5, 8, 12}}
TSPieces == {<<8, len, ptr, flags>> \o SubSeq(<<1, 2, 3, 4, 1, 2, 3, 4>>, 1, len - 4) :
                len \in {4, 8, 12}, ptr \in {4, 5, 9, 13}, flags \in {0, 1, 2, 3, 8, 12, 13}}
Few == {<<7, 7, 4, 10, 10, 10, 10>>, <<7, 7, 8, 1, 0, 7, 8>>, <<7, 7, 6, 10, 10, 10, 10>>, <<7, 3, 4>>,
        <<7, 2>>, <<8, 2>>, <<8, 3, 5>>, <<8, 4, 5, 0>>, <<8, 8, 5, 0, 10, 10, 10, 10>>, <<9, 5, 7, 7, 4>>,
        <<9, 2>>, <<1>>, <<1, 1, 1>>, <<0, 7, 3>>, <<9, 1>>, <<9, 13>>, <<7, 0>>}
Padded(s, with) == s \o [i \in 1 .. (4 - (Len(s) % 4)) % 4 |-> with]
OptionStrings == {s \in {Padded(s, 0) : s \in RRPieces \cup TSPieces}
                        \cup {Padded(a \o b, with) : a \in Few, b \in Few \cup {<<>>}, with \in {0, 1}} :
                  Len(s) \in 4 .. 12}
WithOpts(p, s) == [p EXCEPT !.opts = s, !.hl = 5 + Len(s) \div 4, !.len = 40 + Len(s), !.plen = 40 + Len(s)]

Edges  == {0, 1, 15, 16, 17, 127, 128, 239, 240, 254, 255}
Sums   == {[Base EXCEPT !.id = id, !.tos = 1] : id \in 0 .. 255}
Datagrams == {[Base EXCEPT !.proto = 17, !.dport = port1, !.tlen = 8] : port1 \in {2 * x + 1 : x \in 0 .. 127}}
Paths  == {[Base EXCEPT !.id = id, !.tos = tos, !.ttl = ttl] : id \in {0, 128}, tos \in {0, 6, 15}, ttl \in {1, 2}}
          \cup {[Base EXCEPT !.fix_src = TRUE, !.frag = frag, !.tlen = tlen] : frag \in {0, 3, 32}, tlen \in {8, 20}}
Framed == {[Base EXCEPT !.front = 14, !.fix_src = fix, !.paint = paint, !.type = type, !.plen = plen, !.shared = b] :
              fix \in BOOLEAN, paint \in {0, 1}, type \in {"host", "broadcast", "multicast"},
              plen \in {40, 46}, b \in BOOLEAN}
Optional == {[WithOpts(Base, s) EXCEPT !.shared = TRUE] : s \in OptionStrings}
            \cup {[WithOpts(Base, s) EXCEPT !.fix_src = TRUE] : s \in {s \in OptionStrings : Len(s) = 8}}
Malformed == {[Base EXCEPT !.v = v, !.hl = hl, !.len = len, !.plen = plen, !.front = 14, !.src = src, !.dst = dst] :
                 v \in {4, 6}, hl \in {0, 4, 5}, len \in {19, 20, 40, 41}, plen \in {19, 20, 40},
                 src \in {MCOther, 65535, 0, 22143}, dst \in {MCMe, 9029}}
Wrong  == {[Base EXCEPT !.sum = add, !.id = id] : add \in {1, 255}, id \in {0, 1, 127, 128} \cup 236 .. 255}
MCArrivals == Sums \cup Datagrams \cup Paths \cup Framed \cup Optional \cup Malformed \cup Wrong

\* bound: a longer way for a few packets
MCWay(p) == IF p.opts = <<>> /\ p.id = 0 /\ p.tos \in {0, 6, 15} THEN 4 ELSE 2

E(tos, dscp, ect, ce, anno) == [tos |-> tos, dscp |-> dscp, ect |-> ect, ce |-> ce, anno |-> anno]
MCEncaps == {E(-1, -1, 2, FALSE, TRUE), E(5, -1, 0, FALSE, FALSE), E(-1, 2, 0, TRUE, TRUE),
             E(5, 2, 0, FALSE, TRUE), E(5, -1, 1, FALSE, TRUE), E(16, -1, 0, FALSE, TRUE),
             E(-1, 3, 0, FALSE, TRUE), E(-1, -1, 1, TRUE, TRUE)}
H == INSTANCE IPHeader WITH
    Nibble <- 4, Word <- 4, RR <- 7, TS <- 8, Now <- MCNow, Arrivals <- MCArrivals,
    Addresses <- MCAddresses, Me <- MCMe, Color <- 1, Mtu <- 45, TCP <- 6, UDP <- 17, Encaps <- MCEncaps,
    FrontSums <- MCFrontSums, Interfaces <- {<<MCMe, 4>>, <<22140, 3>>}, LittleEndian <- TRUE, Way <- MCWay
ASSUME HeaderAssumptions == H!OptionsAssumption
----------------------------------------------------------------------------
filter == <<words, filters, slots, wide>>
header == <<pkt, port, hops, kept, ids>>

MCInit == /\ F!Init /\ H!Init
          /\ \/ element = "filter" /\ pkt = H!Sent([Base EXCEPT !.id = 200])
             \/ element = "header" /\ wide = 0

Filter(action) == element = "filter" /\ action /\ UNCHANGED <<element, header>>
Header(action) == element = "header" /\ action /\ UNCHANGED <<element, filter>>

FilterWord(w)        == Filter(F!Word(w))
FilterArgument(slot) == Filter(F!Argument(slot))
FilterCompile        == Filter(F!Compile)
HeaderCheck(c, checksum) == Header(H!Check(c, checksum))
HeaderInput(c)       == Header(H!Input(c))
HeaderDecrement      == Header(H!Decrement)
HeaderMarkCE         == Header(H!MarkCE)
HeaderSetDSCP(dscp)  == Header(H!SetDSCP(dscp))
HeaderFixSource      == Header(H!FixSource)
HeaderSetChecksum    == Header(H!SetChecksum)
HeaderMirror         == Header(H!Mirror)
HeaderStore(given, field, named) == Header(H!Store(given, field, named))
HeaderOptions        == Header(H!Options)
HeaderEncap(e, dst)  == Header(H!Encap(e, dst))
HeaderOutput(other)  == Header(H!Output(other))

MCNext ==
    \/ \E w \in MCWords : FilterWord(w)
    \/ \E slot \in Slots : FilterArgument(slot)
    \/ FilterCompile
    \/ \E c \in H!Configs, checksum \in BOOLEAN : HeaderCheck(c, checksum)
    \/ \E c \in H!Configs : HeaderInput(c)
    \/ HeaderDecrement
    \/ HeaderMarkCE
    \/ \E dscp \in 0 .. 4 : HeaderSetDSCP(dscp)
    \/ HeaderFixSource
    \/ HeaderSetChecksum
    \/ HeaderMirror
    \/ \E given \in {{}} \cup {{a} : a \in MCAddresses}, field \in {"src", "dst"}, named \in BOOLEAN :
          HeaderStore(given, field, named)
    \/ HeaderOptions
    \/ \E e \in MCEncaps, dst \in {0, MCOther} : HeaderEncap(e, dst)
    \/ \E other \in MCFrontSums : HeaderOutput(other)

MCSpec == MCInit /\ [][MCNext]_<<element, filter, header>>
----------------------------------------------------------------------------
Count(ks) == Cardinality({i \in DOMAIN words : words[i].k \in ks})
Follows(a, b) ==
    CASE a = "src"  -> b \in {"port", "or", "and"}
      [] a = "dst"  -> b = "port"
      [] a \in {"port", "ttl"} -> b \in {"number", "&"} \cup MCRelops
      [] a = "tcp"  -> b \in {"or", "and", "?", ":", ")", "src", "port"}
      [] a \in {"&"} \cup MCRelops -> b = "number"
      [] a \in {"number", ")"}   -> b \in {"or", "and", "?", ":", ")", "number"} \cup MCRelops
      [] OTHER -> b \in {"src", "dst", "port", "ttl", "tcp", "number", "!", "("} \cup MCRelops
Viable ==
    /\ \A i \in 2 .. Len(words) : Follows(words[i - 1].k, words[i].k)
    /\ \A i \in 3 .. Len(words) : words[i - 2].k = "src" /\ words[i - 1].k # "port" => words[i].k = "dst"
    /\ words # <<>> => words[1].k \notin {"number", "or", "and", ")", "?", ":", "&"} \cup MCRelops
    /\ Count({")"}) <= Count({"("}) /\ Count({":"}) <= Count({"?"})
    /\ \A k \in {"(", "?", "!", "tcp", "port"} : Count({k}) <= 1

\* bounds: several directives with the values 1 and 2, without a mask, so that nothing is shifted,
\* or a single one with any, masked or negated, and alone where a wide shift is one by 0
Several == /\ Count({"&", "ttl"} \cup (MCRelops \ {">"})) = 0 /\ Count({">"}) <= 1
           /\ \A i \in DOMAIN words : words[i].n \in 0 .. 2 /\ words[i] # Number(0)
Single  == /\ Count({"(", ")", "?", ":", "tcp"}) = 0 /\ Count({"or", "and"}) <= Count({"src"})
           /\ Count({"&", "!"}) <= 1 /\ Count({"number"}) <= 1 + Count({"&"})
           /\ wide = 0 \/ (Count({"!"}) = 0 /\ (filters = <<>> \/ words = <<>>))
Bounded == /\ Viable /\ ((Several /\ wide = 0) \/ Single)
           /\ filters # <<>> => Len(words) <= 2
Symmetric == Permutations(Slots)

\* A text to which the grammar of IPFilter gives a meaning is accepted, and means that.
FilteredAsWritten == element = "filter" => F!FilteredAsWritten

\* No header checksum, nor that of a transport header, is left behind by any elements in a row.
ChecksumKept == element = "header" => H!ChecksumKept

\* The combined elements do what the elements do in a row that they stand for.
ComboIsChain == element = "header" => H!ComboIsChain

\* Options are written in place, and problems reported where they are.
OptionsInPlace == element = "header" => H!OptionsInPlace
=============================================================================
