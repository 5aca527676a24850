------------------------------- MODULE Rfc2507 ------------------------------
(***************************************************************************)
(* RFC2507Comp (rfc2507c.cc) and RFC2507Decomp (rfc2507d.cc) at the two    *)
(* ends of a link that keeps the order of packets but may lose some: a     *)
(* packet is compressed and, in the same step, decompressed or lost.       *)
(*                                                                         *)
(* A header is [flow, fixed, id, num, psh, urg, ecn]: fixed stands for the *)
(* fields that must agree for a packet to be compressed, ecn for those     *)
(* that nobody compares (th_flags2, ECE, CWR, the reserved bit of ip_off). *)
(***************************************************************************)
EXTENDS Integers, Sequences

CONSTANTS B,         \* values of a byte; 16 bits are two, 32 bits four of them
          Packets,   \* headers of compressible packets
          TCP_SPACE, \* the CIDs are 1 .. TCP_SPACE - 1
          NoContext  \* a context no packet was stored in

Fields == {"urp", "win", "ack", "seq"}
Short == B * B         \* values of a 16-bit field
Long == Short * Short  \* values of a 32-bit field
Numbers == [urp : 0 .. Short - 1, win : 0 .. Short - 1, ack : 0 .. Long - 1, seq : 0 .. Long - 1]
Flows == {p.flow : p \in Packets}
Header == [flow : Flows, fixed : {p.fixed : p \in Packets}, id : 0 .. Short - 1, num : Numbers,
           psh : BOOLEAN, urg : BOOLEAN, ecn : {p.ecn : p \in Packets}]

ASSUME Rfc2507Assumption == /\ B \in Nat \ {0, 1} /\ TCP_SPACE \in Nat \ {0, 1}
                            /\ Packets \subseteq Header /\ NoContext \notin Header

Cids == 1 .. TCP_SPACE - 1

\* a 32-bit field as the int that encode32 gets; unsigned 16-bit ones fit
Signed(x) == IF x >= Long \div 2 THEN x - Long ELSE x
AsInt(f, x) == IF f \in {"ack", "seq"} THEN Signed(x) ELSE x
Modulus(f) == IF f \in {"ack", "seq"} THEN Long ELSE Short

VARIABLES map,  \* RFC2507c::_map: flow -> CID, 0 when it was taken away
          comp, \* contexts of the compressor
          deco, \* contexts of the decompressor
          last, \* the last packet: [sent, got, cid, lost]; got is NoContext for a
                \* packet put out from a context nobody stored
          why   \* (history) CID -> why its contexts may differ

vars == <<map, comp, deco, last, why>>

Init == /\ map = [f \in {} |-> 0]
        /\ comp = [c \in Cids |-> NoContext] /\ deco = [c \in Cids |-> NoContext]
        /\ last = [sent |-> NoContext, got |-> NoContext, cid |-> 0, lost |-> FALSE]
        /\ why = [c \in Cids |-> {}]
----------------------------------------------------------------------------
\* encodeX: the bytes of the difference, none if there is none; Full if the
\* header must be sent whole.  n - o may overflow: it wraps.
Full == <<-1>>

EncodeX(o, n) ==
    LET d == Signed((n - o) % Long)
    IN  CASE o = n     -> <<>>
          [] n < o     -> Full
          [] n > o /\ d < B    -> <<d % B>>
          [] n > o /\ d >= B /\ d < Short  -> <<0, d \div B, d % B>>
          [] n > o /\ d >= Short -> Full
Code(c, p, f) == EncodeX(AsInt(f, c.num[f]), AsInt(f, p.num[f]))
IdCode(c, p) == IF p.id = c.id + 1 THEN <<>> ELSE EncodeX(c.id, p.id)

\* make_compressed refuses
NeedsFull(c, p) ==
    \/ p.fixed # c.fixed
    \/ IdCode(c, p) = Full
    \/ \E f \in Fields : Code(c, p, f) = Full

\* what make_other, make_full and make_compressed put on the wire
Other(p) == [type |-> "other", cid |-> 0, p |-> p]
MakeFull(cid, p) == [type |-> "full", cid |-> cid, p |-> p]
Compressed(cid, c, p) ==
    [type |-> "tcp", cid |-> cid, psh |-> p.psh,
     flags |-> {f \in Fields : Code(c, p, f) # <<>>}, id |-> IdCode(c, p) # <<>>,
     bytes |-> Code(c, p, "urp") \o (Code(c, p, "win") \o (Code(c, p, "ack") \o
                  (Code(c, p, "seq") \o IdCode(c, p))))]
MakeCompressed(cid, c, p) == IF NeedsFull(c, p) THEN MakeFull(cid, p) ELSE Compressed(cid, c, p)
----------------------------------------------------------------------------
\* decode: one number off the bytes; past their end it reads the payload, here zeros
Byte(s, i) == IF i \in DOMAIN s THEN s[i] ELSE 0
Delta(s) == IF Byte(s, 1) # 0 THEN Byte(s, 1) ELSE Byte(s, 2) * B + Byte(s, 3)
Used(s) == IF Byte(s, 1) # 0 THEN 1 ELSE 3
Rest(s) == SubSeq(s, Used(s) + 1, Len(s))

Decoded(d, f) ==
    IF f \notin d.flags THEN d
    ELSE [d EXCEPT !.num[f] = (@ + Delta(d.bytes)) % Modulus(f), !.bytes = Rest(d.bytes)]

DecodedAll(w, c) ==
    Decoded(Decoded(Decoded(Decoded([flags |-> w.flags, num |-> c.num, bytes |-> w.bytes],
        "urp"), "win"), "ack"), "seq")

\* mutant: the PUSH flag is only ever set
Decompressed_PushStays(w, c) ==
    LET d == DecodedAll(w, c)
    IN  [c EXCEPT !.psh = w.psh \/ @, !.urg = "urp" \in w.flags, !.num = d.num,
                  !.id = (IF w.id THEN c.id + Delta(d.bytes) ELSE c.id + 1) % Short]

\* simple_action of the decompressor, for a context that holds a packet
Decompressed(w, c) ==
    LET d == DecodedAll(w, c)
    IN  [c EXCEPT !.psh = w.psh, !.urg = "urp" \in w.flags, !.num = d.num,
                  !.id = (IF w.id THEN c.id + Delta(d.bytes) ELSE c.id + 1) % Short]
----------------------------------------------------------------------------
\* (history) what a compressed packet cannot say of p
Unsaid(c, p) ==
    (IF p.id = c.id THEN {"id"} ELSE {}) \cup
    (IF p.urg # (p.num["urp"] # c.num["urp"]) THEN {"urg"} ELSE {}) \cup
    (IF p.ecn # c.ecn THEN {"ecn"} ELSE {}) \cup
    {"wrap" : f \in {f \in {"ack", "seq"} : /\ AsInt(f, p.num[f]) > AsInt(f, c.num[f])
                                            /\ AsInt(f, p.num[f]) - AsInt(f, c.num[f]) >= Long \div 2}}

\* The wire carries w; what comes out of the decompressor, and why the context
\* of w's CID may differ from the compressor's from then on
Received(w) ==
    CASE w.type = "other" -> w.p
      [] w.type = "full"  -> w.p
      [] w.type = "tcp" /\ deco[w.cid] = NoContext -> NoContext
      [] w.type = "tcp" /\ deco[w.cid] # NoContext -> Decompressed(w, deco[w.cid])

Delivered(w, p) ==
    /\ last' = [sent |-> p, got |-> Received(w), cid |-> w.cid, lost |-> FALSE]
    /\ deco' = IF w.type = "other" \/ Received(w) = NoContext THEN deco
               ELSE [deco EXCEPT ![w.cid] = Received(w)]
    /\ why' = CASE w.type = "other" -> why
                [] w.type = "full"  -> [why EXCEPT ![w.cid] = {}]
                [] w.type = "tcp"   -> [why EXCEPT ![w.cid] = @ \cup Unsaid(comp[w.cid], p)]
Lost(w, p) ==
    /\ last' = [sent |-> p, got |-> NoContext, cid |-> w.cid, lost |-> TRUE]
    /\ deco' = deco
    /\ why' = IF w.type = "other" THEN why
              ELSE [why EXCEPT ![w.cid] = @ \cup {IF w.type = "full" THEN "full lost" ELSE "tcp lost"}]
Sent(w, p) == Delivered(w, p) \/ Lost(w, p)

CidOf(f) == IF f \in DOMAIN map THEN map[f] ELSE 0

\* a packet that is no plain TCP segment
SendOther(p) == Sent(Other(p), p) /\ UNCHANGED <<map, comp>>

\* a packet whose flow has a CID
SendKnown(p) ==
    LET cid == CidOf(p.flow) IN
    /\ cid # 0
    /\ Sent(MakeCompressed(cid, comp[cid], p), p)
    /\ comp' = [comp EXCEPT ![cid] = p]
    /\ UNCHANGED map

\* mutant: the flow that had the CID keeps it
Remapped_Kept(f, cid) == [g \in DOMAIN map \cup {f} |-> IF g = f THEN cid ELSE map[g]]

\* _map after flow f got the CID of another flow, whose key is that of the context
Remapped(f, cid) ==
    [g \in DOMAIN map \cup {f} |->
        IF g = f THEN cid
        ELSE IF comp[cid] # NoContext /\ comp[cid].flow = g THEN 0 ELSE map[g]]

\* a packet of a flow without one: any CID is taken
SendNew(p) ==
    /\ CidOf(p.flow) = 0
    /\ \E cid \in Cids :
          /\ Sent(MakeFull(cid, p), p)
          /\ map' = Remapped(p.flow, cid)
          /\ comp' = [comp EXCEPT ![cid] = p]

Next == \/ \E p \in Packets : SendOther(p)
        \/ \E p \in Packets : SendKnown(p)
        \/ \E p \in Packets : SendNew(p)

Spec == Init /\ [][Next]_vars
----------------------------------------------------------------------------
\* As long as nothing was lost since the last full header of a CID, and no
\* packet was one that the format has no words for, the decompressor puts out
\* what the compressor took in (rfc2507d.cc:84-133).
Exact == ~last.lost /\ (last.cid = 0 \/ why[last.cid] = {}) => last.got = last.sent
ExactInSync == [][Exact']_vars

OwnFlow == last.cid # 0 /\ ~last.lost /\ "full lost" \notin why[last.cid]
              => last.got # NoContext /\ last.got.flow = last.sent.flow
OwnContext ==
    \A f \in DOMAIN map : map[f] # 0 => comp[map[f]] # NoContext /\ comp[map[f]].flow = f
\* A CID belongs to one flow, whose packets it is compressed against, after any number of CIDs were
\* taken from their flows; and whatever is lost, a packet comes out as one of another flow, or of none
\* at all, only after a full header of its CID was lost (rfc2507c.cc:226-252, rfc2507d.cc:76-79).
OtherFlowNeedsLostFull == [][(OwnFlow /\ OwnContext)']_vars
=============================================================================
