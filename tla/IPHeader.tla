------------------------------ MODULE IPHeader ------------------------------
(***************************************************************************)
(* The elements that check, change and complete the header of an IP packet *)
(* on its way through a router: CheckIPHeader, IPGWOptions, FixIPSrc,      *)
(* DecIPTTL, MarkIPCE, SetIPDSCP, SetIPChecksum, StoreIPAddress, IPMirror, *)
(* IPEncap, and IPInputCombo and IPOutputCombo, which do what several      *)
(* elements do in a row.  A packet meets any elements, in any order.       *)
(*                                                                         *)
(* A packet is a record: the fields of its header, of which version and    *)
(* header length make one byte and flags and offset one halfword that no   *)
(* element changes; the transport header of a first fragment; plen, its    *)
(* bytes from the IP header on, of which two follow the header, and front, *)
(* its bytes before it; nh, whether the header is marked; its annotations; *)
(* and whether another packet shares its data.  Packet and click_in_cksum  *)
(* and click_update_in_cksum are Click's (external).                       *)
(***************************************************************************)
EXTENDS IPOptions, FiniteSetsExt

CONSTANTS Arrivals,     \* packets
          Addresses,    \* a configured address is one of them
          Me, Color, Mtu,
          TCP, UDP,     \* protocol numbers
          Encaps,       \* arguments of IPEncap: tos and dscp, -1 if not given, ect, ce, anno
          FrontSums,    \* bound: sums of the bytes from a packet's first, that of another header, on
          Interfaces,   \* argument of CheckIPHeader: pairs of an address and its number of host bits
          LittleEndian, \* byte order of the machine
          Way(_)        \* bound: the number of elements on a packet's way

Byte == Nibble * Nibble
Half == Byte * Byte     \* values of a halfword
Fixed == 20             \* sizeof(click_ip)
Link  == 14             \* bytes of an Ethernet header
TcpSize == 20
UdpSize == 8
AllOnes == Half * Half - 1  \* 255.255.255.255

VARIABLES pkt,   \* the packet
          port,  \* "path" while it goes on, or the output it left by
          hops,  \* elements it may still meet
          kept,  \* checksums that no element was asked to leave behind
          ids    \* _id of IPEncap
hvars == <<pkt, port, hops, kept, ids>>
----------------------------------------------------------------------------
\* One's complement sums
Hi(a) == a \div Half
Lo(a) == a % Half
Folded(x) == IF x = 0 THEN 0 ELSE ((x - 1) % (Half - 1)) + 1
Carried(x) == (x % Half) + x \div Half
Not(x) == Half - 1 - (x % Half)

\* A halfword in the byte order of the machine, and back
Native(x) == IF LittleEndian THEN (x % Byte) * Byte + x \div Byte ELSE x

Bytes(a) == <<Hi(a) \div Byte, Hi(a) % Byte, Lo(a) \div Byte, Lo(a) % Byte>>
Address(s) == ((s[1] * Byte + s[2]) * Byte + s[3]) * Byte + s[4]

\* The options, and the two bytes behind the header
AllOptions(p) == p.opts \o <<p.sport \div Byte, p.sport % Byte>>
WithOptions(p, s) ==
    [p EXCEPT !.opts = SubSeq(s, 1, Len(p.opts)),
              !.sport = s[Len(p.opts) + 1] * Byte + s[Len(p.opts) + 2]]

FirstWord(p) == ((p.v * Nibble + p.hl) % Byte) * Byte + p.tos
HeaderSum(p) ==
    FirstWord(p) + p.len + p.id + p.frag + p.ttl * Byte + p.proto
    + Hi(p.src) + Lo(p.src) + Hi(p.dst) + Lo(p.dst)
    + MapThenSumSet(LAMBDA k : p.opts[k] * (IF k % 2 = 1 THEN Byte ELSE 1), DOMAIN p.opts)
TransportSum(p) == Hi(p.src) + Lo(p.src) + Hi(p.dst) + Lo(p.dst) + p.sport + p.dport

InCksum(sum) == Not(Folded(sum))

\* click_update_in_cksum of a checksum in network order; its arguments are halfwords of the machine
Updated(csum, old, new) ==
    Native(Not(Carried(Carried(Not(Native(csum)) + Not(old) + (new % Half)))))

Right(p) == Folded(HeaderSum(p) + p.sum) = Half - 1
First(p) == p.frag % (Half \div 8) = 0    \* IP_FIRSTFRAG
HasTransport(p) == /\ First(p)
                   /\ \/ p.proto = TCP /\ p.tlen >= TcpSize
                      \/ p.proto = UDP /\ p.tlen >= UdpSize
TransportRight(p) == \/ p.proto = UDP /\ p.tsum = 0
                     \/ Folded(TransportSum(p) + p.tsum) = Half - 1

Hlen(p) == 4 * p.hl
----------------------------------------------------------------------------
\* What an element does: the output and the packet
On(p)   == [port |-> "path", p |-> p]
Out(n, p) == [port |-> n, p |-> p]
Gone(p) == [port |-> "gone", p |-> p]

\* mutant: the borrow of the one's complement is forgotten
DecIPTTL_Plain(p) ==
    IF p.ttl <= 1 THEN Out("ttl", p)
    ELSE On([p EXCEPT !.ttl = p.ttl - 1, !.shared = FALSE,
                      !.sum = Not(Carried(Not(p.sum) + Half - Byte))])

DecIPTTL(p) ==
    IF p.ttl <= 1 THEN Out("ttl", p)
    ELSE On([p EXCEPT !.ttl = p.ttl - 1, !.shared = FALSE,
                      !.sum = Not(Carried(Not(p.sum) + Half - 1 - Byte))])

MarkIPCE(p) ==
    LET ecn == p.tos % 4
    IN  CASE ~p.nh \/ ecn = 0 -> Gone(p)
          [] p.nh /\ ecn = 3  -> On(p)
          [] OTHER -> On([p EXCEPT !.tos = p.tos - ecn + 3, !.shared = FALSE,
                                   !.sum = Not(Carried(Not(p.sum) + 3 - ecn))])

SetIPDSCP(p, dscp) ==
    LET q == [p EXCEPT !.tos = (p.tos % 4) + 4 * dscp, !.shared = FALSE]
    IN  On([q EXCEPT !.sum = Updated(p.sum, Native(FirstWord(p)), Native(FirstWord(q)))])

FixIPSrc(p) ==
    LET q == [p EXCEPT !.src = Me, !.fix_src = FALSE, !.shared = FALSE]
    IN  IF p.fix_src /\ p.nh THEN On([q EXCEPT !.sum = InCksum(HeaderSum(q))]) ELSE On(p)

SetIPChecksum(p) ==
    IF p.nh /\ p.plen >= Fixed /\ Hlen(p) \in Fixed .. p.plen
    THEN On([p EXCEPT !.sum = InCksum(HeaderSum(p)), !.shared = FALSE]) ELSE Gone(p)

\* Sequence numbers, which it swaps too, are left out
IPMirror(p) ==
    LET q == [p EXCEPT !.src = p.dst, !.dst = p.src, !.shared = FALSE]
    IN  IF p.proto \in {TCP, UDP} /\ First(p) /\ p.tlen >= UdpSize
        THEN On([q EXCEPT !.sport = p.dport, !.dport = p.sport]) ELSE On(q)

\* StoreIPAddress with the field of an address, by its name ("src" is -12 and "dst" -16) or, at a
\* plain offset, without the checksums.  On a machine whose addresses are longer than an unsigned,
\* network_header() - _offset is not in the packet.
StoreIPAddress(p, given, field, named) ==
    LET ipa == IF given = {} THEN p.dst_anno ELSE CHOOSE a \in given : TRUE
        own == [p EXCEPT !.shared = FALSE]
        q   == IF field = "src" THEN [own EXCEPT !.src = ipa] ELSE [own EXCEPT !.dst = ipa]
        hw(a) == Carried(Native(Hi(a)) + Native(Lo(a)))
        old == IF field = "src" THEN hw(p.src) ELSE hw(p.dst)
        transport == HasTransport(p) /\ (p.proto = UDP => p.tsum # 0)
    IN  CASE ~named /\ p.plen >= Fixed /\ (ipa # 0 \/ given # {}) -> On(q)
          [] named /\ p.nh /\ Hlen(p) >= Fixed ->
                On([q EXCEPT !.sum = Updated(p.sum, old, hw(ipa)),
                             !.tsum = IF transport THEN Updated(p.tsum, old, hw(ipa)) ELSE p.tsum])
          [] OTHER -> Out("range", p)

\* A packet that shares its data: the header is written in a copy, the sum taken over the original,
\* which is the one a problem sends on
OptionsOf(p) == Handled(AllOptions(p), Hlen(p) - Fixed, Bytes(Me), {Bytes(Me)})
GWOptions(p, q, r) ==
    CASE r.problem # NoProblem ->
            Out("options", [(IF p.shared THEN p ELSE q) EXCEPT !.problem = r.problem])
      [] r.problem = NoProblem /\ r.met ->
            On([q EXCEPT !.sum = InCksum(IF p.shared THEN HeaderSum(p) + p.sum ELSE HeaderSum(q)),
                         !.shared = FALSE])
      [] OTHER -> On(p)
IPGWOptions(p) ==
    LET r == OptionsOf(p)
    IN  IF Hlen(p) <= Fixed THEN On(p) ELSE GWOptions(p, WithOptions(p, r.s), r)
----------------------------------------------------------------------------
\* configure of IPEncap
EncapAllowed(e) ==
    /\ ~(e.tos >= 0 /\ (e.dscp >= 0 \/ e.ect > 0 \/ e.ce))
    /\ e.tos < Byte /\ e.dscp < Byte \div 4 - 1 /\ ~(e.ect > 0 /\ e.ce)

Template(p, e, dst) ==
    LET tos == IF e.tos >= 0 THEN e.tos ELSE IF e.dscp >= 0 THEN 4 * e.dscp ELSE 0
        t == [p EXCEPT !.v = 4, !.hl = Fixed \div 4, !.tos = tos + (IF e.ce THEN 3 ELSE e.ect),
                       !.len = 0, !.id = 0, !.frag = 0, !.ttl = Byte - 1, !.proto = 0,
                       !.src = Me, !.dst = IF e.anno THEN 0 ELSE dst, !.opts = <<>>]
    IN  [t EXCEPT !.sum = InCksum(HeaderSum(t))]

\* The sums of the fields that the template left 0
RECURSIVE Completed(_, _)
Completed(sum, words) ==
    IF words = <<>> THEN sum ELSE Completed(Updated(sum, 0, Native(Head(words))), Tail(words))

IPEncap(p, e, dst) ==
    LET t    == Template(p, e, dst)
        to   == IF e.anno THEN p.dst_anno ELSE dst
        len  == p.plen + Fixed
        more == (IF e.anno THEN <<Hi(to), Lo(to)>> ELSE <<>>) \o <<len, ids % Half>>
    IN  On([t EXCEPT !.dst = to, !.dst_anno = to, !.len = len, !.id = ids % Half,
                     !.sum = Completed(t.sum, more), !.plen = len, !.nh = TRUE, !.shared = FALSE,
                     !.sport = FirstWord(p), !.dport = p.len, !.tlen = p.plen])
----------------------------------------------------------------------------
\* Arguments of the checks: INTERFACES, BADSRC and GOODDST, or the old list of bad addresses.  A
\* record without a field has not that argument; what is stored later replaces what was before.
Broadcast(i) == i[1] - (i[1] % 2 ^ i[2]) + 2 ^ i[2] - 1
Listed(kind, arg) ==
    CASE kind = "interfaces" -> {Broadcast(i) : i \in arg} \cup {0, AllOnes}
      [] kind = "old"        -> arg \cup {0, AllOnes}
      [] kind = "badsrc"     -> arg
BadSrc(c, order) ==
    LET given == {i \in DOMAIN order : order[i] \in DOMAIN c}
    IN  IF given = {} THEN {} ELSE Listed(order[Max(given)], c[order[Max(given)]])
GoodDst(c) == IF "gooddst" \in DOMAIN c THEN c.gooddst
              ELSE IF "interfaces" \in DOMAIN c THEN {i[1] : i \in c.interfaces} ELSE {}

HeaderOK(p, plen, bad, good) ==
    /\ plen >= Fixed /\ p.v = 4 /\ Hlen(p) >= Fixed /\ p.len \in Hlen(p) .. plen
    /\ ~(p.src \in bad /\ p.dst \notin good)

Marked(p) == [p EXCEPT !.nh = TRUE, !.plen = p.len, !.dst_anno = p.dst]

\* OFFSET leads to the header
CheckIPHeader(p, c, checksum) ==
    IF HeaderOK(p, p.plen, BadSrc(c, <<"interfaces", "badsrc", "old">>), GoodDst(c)) /\ (checksum => Right(p))
    THEN On(Marked(p)) ELSE Gone(p)

IPInputCombo(p, c) ==
    LET q == [p EXCEPT !.paint = Color, !.front = p.front - Link]
    IN  IF HeaderOK(q, q.plen, BadSrc(c, <<"old", "interfaces", "badsrc">>), GoodDst(c)) /\ Right(q)
        THEN On(Marked(q)) ELSE Gone(q)

\* mutant: a new source address does not ask for a new checksum
ComboFixed_NoSum(p, wrote, other) ==
    LET q == IF p.fix_src THEN [p EXCEPT !.src = Me, !.fix_src = FALSE] ELSE p
    IN  IF wrote THEN [q EXCEPT !.sum = InCksum(IF p.front = 0 THEN HeaderSum(q) ELSE other)] ELSE q

\* The checksum is taken from the first byte of the packet, as many bytes as the header has: with
\* bytes before the header its sum is another one
ComboFixed(p, wrote, other) ==
    LET q == IF p.fix_src THEN [p EXCEPT !.src = Me, !.fix_src = FALSE] ELSE p
    IN  IF wrote \/ p.fix_src
        THEN [q EXCEPT !.sum = InCksum(IF p.front = 0 THEN HeaderSum(q) ELSE other)] ELSE q

\* Its output 1 gets a copy of what came if tee
ComboSent(q) ==
    LET d == [q EXCEPT !.ttl = q.ttl - 1, !.sum = Not(Carried(Not(q.sum) + Half - 1 - Byte))]
    IN  IF q.ttl <= 1 THEN Out("ttl", q)
        ELSE IF q.front + q.plen > Mtu THEN Out("mtu", d) ELSE On(d)
ComboOptions(unshared, r, other) ==
    IF r.problem # NoProblem THEN Out("options", [unshared EXCEPT !.problem = r.problem])
    ELSE ComboSent(ComboFixed(unshared, r.wrote, other))
IPOutputCombo(p, other) ==
    LET r == OptionsOf(p)
    IN  [tee |-> p.type = "host" /\ p.paint = Color,
         o   |-> IF p.type # "host" THEN Gone(p)
                 ELSE ComboOptions([WithOptions(p, r.s) EXCEPT !.shared = FALSE], r, other)]
----------------------------------------------------------------------------
\* Elements of the standard library that the documentation of the combos names
Paint(p) == [p EXCEPT !.paint = Color]
Strip(p) == [p EXCEPT !.front = p.front - Link]
GetIPAddress(p) == On([p EXCEPT !.dst_anno = p.dst])   \* at offset 16
DropBroadcasts(p) == IF p.type = "host" THEN On(p) ELSE Gone(p)
CheckLength(p) == IF p.front + p.plen > Mtu THEN Out("mtu", p) ELSE On(p)

\* An element behind another gets what stays on the path
ThenGetIPAddress(o) == IF o.port = "path" THEN GetIPAddress(o.p) ELSE o
ThenGWOptions(o)    == IF o.port = "path" THEN IPGWOptions(o.p) ELSE o
ThenFixIPSrc(o)     == IF o.port = "path" THEN FixIPSrc(o.p) ELSE o
ThenDecIPTTL(o)     == IF o.port = "path" THEN DecIPTTL(o.p) ELSE o
ThenCheckLength(o)  == IF o.port = "path" THEN CheckLength(o.p) ELSE o

InputChain(p, c) == ThenGetIPAddress(CheckIPHeader(Strip(Paint(p)), c, TRUE))

\* PaintTee copies what DropBroadcasts let through
OutputChain(p) ==
    [tee |-> DropBroadcasts(p).port = "path" /\ p.paint = Color,
     o   |-> ThenCheckLength(ThenDecIPTTL(ThenFixIPSrc(ThenGWOptions(DropBroadcasts(p)))))]
----------------------------------------------------------------------------
\* The sender fills in the checksums; what Arrivals has in their place is added on the way
Sent(p) == [p EXCEPT !.sum = (InCksum(HeaderSum(p)) + p.sum) % Half,
                     !.tsum = (InCksum(TransportSum(p)) + p.tsum) % Half]

Init == /\ pkt \in {Sent(p) : p \in Arrivals} /\ port = "path" /\ hops = Way(pkt) /\ ids = 0
        /\ kept = (IF Right(pkt) THEN {"ip"} ELSE {})
                  \cup (IF HasTransport(pkt) /\ TransportRight(pkt) THEN {"transport"} ELSE {})

Meets(o, keeps) ==
    /\ port = "path" /\ hops > 0
    /\ pkt' = o.p /\ port' = o.port /\ hops' = hops - 1 /\ kept' = keeps

Configs == {[x \in {} |-> {}], [interfaces |-> Interfaces], [badsrc |-> Addresses],
            [old |-> Addresses], [badsrc |-> Addresses, gooddst |-> {Me}]}

Check(c, checksum) == Meets(CheckIPHeader(pkt, c, checksum), kept) /\ UNCHANGED ids
Input(c)  == pkt.front >= Link /\ Meets(IPInputCombo(pkt, c), kept) /\ UNCHANGED ids
Decrement == pkt.nh /\ Meets(DecIPTTL(pkt), kept) /\ UNCHANGED ids
MarkCE    == Meets(MarkIPCE(pkt), kept) /\ UNCHANGED ids
SetDSCP(dscp) == pkt.nh /\ dscp < Byte \div 4 /\ Meets(SetIPDSCP(pkt, dscp), kept) /\ UNCHANGED ids
FixSource == /\ Meets(FixIPSrc(pkt), IF pkt.fix_src /\ pkt.nh THEN {"ip"} ELSE kept)
             /\ UNCHANGED ids
SetChecksum == Meets(SetIPChecksum(pkt), kept \cup {"ip"}) /\ UNCHANGED ids
Mirror    == pkt.nh /\ Meets(IPMirror(pkt), kept) /\ UNCHANGED ids
Store(given, field, named) ==
    /\ Meets(StoreIPAddress(pkt, given, field, named), IF named THEN kept ELSE {})
    /\ UNCHANGED ids
\* After a truncated timestamp option the bytes behind the header may be others
Written(p) == IF \E x \in Spans(AllOptions(p), Len(p.opts), 0) : Truncated(x)
              THEN kept \ {"transport"} ELSE kept
\* The checksum of a packet with options that shared its data is that of another header
Options == /\ pkt.nh
           /\ Meets(IPGWOptions(pkt), IF pkt.shared /\ Hlen(pkt) > Fixed
                                      THEN Written(pkt) \ {"ip"} ELSE Written(pkt))
           /\ UNCHANGED ids
Encap(e, dst) == /\ pkt.front = 0 /\ EncapAllowed(e)
                 /\ Meets(IPEncap(pkt, e, dst), {"ip"}) /\ ids' = ids + 1
\* The checksum that IPOutputCombo takes is not that of the header
Astray(p) == p.front # 0 /\ (p.fix_src \/ OptionsOf(p).wrote)
Output(other) ==
    /\ pkt.nh
    /\ Meets(IPOutputCombo(pkt, other).o,
             (IF pkt.fix_src THEN kept \ {"transport"} ELSE Written(pkt))
                \ (IF Astray(pkt) THEN {"ip"} ELSE {}))
    /\ UNCHANGED ids

Next ==
    \/ \E c \in Configs, checksum \in BOOLEAN : Check(c, checksum)
    \/ \E c \in Configs : Input(c)
    \/ Decrement
    \/ MarkCE
    \/ \E dscp \in 0 .. Byte \div 4 : SetDSCP(dscp)
    \/ FixSource
    \/ SetChecksum
    \/ Mirror
    \/ \E given \in {{}} \cup {{a} : a \in Addresses}, field \in {"src", "dst"}, named \in BOOLEAN :
          Store(given, field, named)
    \/ Options
    \/ \E e \in Encaps, dst \in Addresses : Encap(e, dst)
    \/ \E other \in FrontSums : Output(other)

HeaderSpec == Init /\ [][Next]_hvars
----------------------------------------------------------------------------
\* The header checksum of a packet on its way is right, and so is the checksum of a TCP or UDP packet,
\* if it was when the packet came and no element was asked to change the header without it: the
\* incremental updates, in the byte order of the machine or of the network, of one field or of two
\* halfwords, add up (decipttl.cc:50-58, markipce.cc:52-69, setipdscp.cc:55-65,
\* storeipaddress.cc:71-87, ipencap.cc:146-156, ipgwoptions.cc:158-162).
ChecksumKept ==
    port = "path" => /\ "ip" \in kept => Right(pkt)
                     /\ "transport" \in kept => TransportRight(pkt)

\* The same packet by the same output, whether or not it still shares its data, and but for its
\* checksum if that is set aside
Content(p, aside) == [p EXCEPT !.shared = FALSE, !.sum = IF aside THEN 0 ELSE @]
SameOutcome(x, y, aside) ==
    x.port = y.port /\ (x.port # "gone" => Content(x.p, aside) = Content(y.p, aside))
SameOutput(x, y, aside) == x.tee = y.tee /\ SameOutcome(x.o, y.o, aside)

\* IPInputCombo and IPOutputCombo do to any packet, shared or not, what the elements do in a row that
\* their documentation names, with any one argument for the addresses (ipinputcombo.hh:18-27,
\* ipoutputcombo.hh:15-35).  Two things are left out for IPOutputCombo: packets with options that
\* share their data or whose checksum is wrong, and the checksum it takes of a packet with bytes
\* before the header, which is of those bytes (ipoutputcombo.cc:181).
ComboIsChain ==
    port = "path" =>
    /\ pkt.front >= Link =>
          \A c \in Configs : SameOutcome(IPInputCombo(pkt, c), InputChain(pkt, c), FALSE)
    /\ pkt.nh /\ (Hlen(pkt) > Fixed => ~pkt.shared /\ Right(pkt)) =>
          \A other \in FrontSums :
             SameOutput(IPOutputCombo(pkt, other), OutputChain(pkt), Astray(pkt))

\* Whatever its options are, a packet of its own keeps them one behind the other: an address or a time
\* is written only behind the pointer of an option that has room for it, and the pointer moved over it;
\* a problem is reported inside the header, behind the options that were completed, and what a
\* complete Record Route option lacks is added.  (A timestamp option of two or three bytes is left
\* out: its overflow is counted in a byte of what follows; ipgwoptions.cc:58-156.)
OptionsInPlace ==
    port = "path" /\ pkt.nh =>
    LET s == AllOptions(pkt)
        n == Len(pkt.opts)
        r == Handled(s, n, Bytes(Me), {Bytes(Me)})
    IN  (\A x \in Spans(s, n, 0) : ~Truncated(x)) => InPlace(s, r, n, Bytes(Me))
=============================================================================
