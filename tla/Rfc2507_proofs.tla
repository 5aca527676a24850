---------------------------- MODULE Rfc2507_proofs --------------------------
(***************************************************************************)
(* The decompressor puts out what the compressor took in, for any number   *)
(* of byte values, CIDs and flows.  First that decoding undoes encoding,   *)
(* one field at a time; then that the two contexts of a CID agree as long  *)
(* as nothing happened to it that the format cannot say.                   *)
(***************************************************************************)
EXTENDS Rfc2507, SequenceTheorems, TLAPS

LEMMA Sizes ==
    /\ Short \in Nat /\ Long \in Nat /\ B < Short /\ Short <= Long \div 2
    /\ Long \div 2 \in Nat /\ Long \div 2 < Long
<1>1. B \in Nat /\ B >= 2
  BY Rfc2507Assumption
<1>2. Short \in Nat /\ Short >= 2 * B
  BY <1>1 DEF Short
<1>3. Short >= 4 /\ B < Short
  BY <1>1, <1>2
<1>4. Long \in Nat /\ Long >= 4 * Short
  BY <1>2, <1>3 DEF Long
<1> QED  BY <1>2, <1>3, <1>4

LEMMA Modulo ==
    ASSUME NEW n \in Nat \ {0}, NEW v \in 0 .. n - 1
    PROVE  v % n = v /\ (v + n) % n = v /\ (v - n) % n = v
OBVIOUS

LEMMA ModuloRange ==
    ASSUME NEW n \in Nat \ {0}, NEW x \in Int
    PROVE  x % n \in 0 .. n - 1
OBVIOUS

\* What the number of a field may be
LEMMA FieldRange ==
    ASSUME NEW f \in Fields, NEW num \in Numbers
    PROVE  /\ num[f] \in 0 .. Modulus(f) - 1
           /\ Modulus(f) \in Nat \ {0} /\ Modulus(f) <= Long
<1>1. CASE f \in {"ack", "seq"}
  BY <1>1, Sizes DEF Modulus, Numbers
<1>2. CASE f \in {"urp", "win"}
  BY <1>2, Sizes DEF Modulus, Numbers
<1> QED  BY <1>1, <1>2 DEF Fields

\* As an int a field keeps its value, or one word less of it.
LEMMA IntRange ==
    ASSUME NEW f \in Fields, NEW x \in 0 .. Modulus(f) - 1
    PROVE  /\ AsInt(f, x) \in Int
           /\ AsInt(f, x) = x \/ (Modulus(f) = Long /\ x >= Long \div 2 /\ AsInt(f, x) = x - Long)
           /\ Modulus(f) = Long => AsInt(f, x) < Long \div 2 /\ AsInt(f, x) >= (Long \div 2) - Long
<1>1. CASE f \in {"ack", "seq"}
  BY <1>1, Sizes DEF AsInt, Modulus, Signed
<1>2. CASE f \in {"urp", "win"}
  BY <1>2, Sizes DEF AsInt, Modulus
<1> QED  BY <1>1, <1>2 DEF Fields
----------------------------------------------------------------------------
\* A difference of less than half the range is coded in its bytes.
LEMMA Encoded ==
    ASSUME NEW o \in Int, NEW n \in Int, o < n, n - o < Long \div 2
    PROVE  /\ n - o < B => EncodeX(o, n) = <<n - o>>
           /\ B <= n - o /\ n - o < Short => EncodeX(o, n) = <<0, (n - o) \div B, (n - o) % B>>
           /\ Short <= n - o => EncodeX(o, n) = Full
<1> DEFINE d == Signed((n - o) % Long)
<1>1. d = n - o
  <2>1. n - o \in 0 .. Long - 1 /\ Long \in Nat \ {0}
    BY Sizes
  <2>2. (n - o) % Long = n - o
    BY <2>1, Modulo
  <2> QED  BY <2>2, Sizes DEF Signed
<1>2. EncodeX(o, n) = CASE o = n     -> <<>>
                        [] n < o     -> Full
                        [] n > o /\ d < B    -> <<d % B>>
                        [] n > o /\ d >= B /\ d < Short  -> <<0, d \div B, d % B>>
                        [] n > o /\ d >= Short -> Full
  BY DEF EncodeX
<1> HIDE DEF d
<1>3. d < B => d % B = d
  <2>1. d < B => d \in 0 .. B - 1
    BY <1>1, Rfc2507Assumption
  <2> QED  BY <2>1, Modulo, Rfc2507Assumption
<1> QED  BY <1>1, <1>2, <1>3, Sizes, Rfc2507Assumption

\* Decoding takes the bytes of one number off and gets the difference back.
LEMMA DecodeUndoes ==
    ASSUME NEW o \in Int, NEW n \in Int, o < n, n - o < Long \div 2, EncodeX(o, n) # Full,
           NEW rest \in Seq(Int)
    PROVE  /\ EncodeX(o, n) # <<>>
           /\ Delta(EncodeX(o, n) \o rest) = n - o
           /\ Rest(EncodeX(o, n) \o rest) = rest
<1> DEFINE e == EncodeX(o, n)
           s == e \o rest
<1>1. CASE n - o < B
  <2>1. e = <<n - o>>
    BY <1>1, Encoded
  <2>2. s = <<n - o>> \o rest /\ Len(s) = 1 + Len(rest) /\ s[1] = n - o
        /\ \A i \in 1 .. Len(rest) : s[i + 1] = rest[i]
    BY <2>1
  <2> QED  BY <2>1, <2>2 DEF Delta, Rest, Used, Byte
<1>2. CASE B <= n - o /\ n - o < Short
  <2>1. e = <<0, (n - o) \div B, (n - o) % B>>
    BY <1>2, Encoded
  <2> DEFINE q == (n - o) \div B
             r == (n - o) % B
  <2>2. q \in Int /\ r \in Int /\ q * B + r = n - o
    BY Rfc2507Assumption
  <2>3. s = <<0, q, r>> \o rest
    BY <2>1
  <2> HIDE DEF q, r, s
  <2>4. s \in Seq(Int) /\ Len(s) = 3 + Len(rest) /\ s[1] = 0 /\ s[2] = q /\ s[3] = r
        /\ \A i \in 1 .. Len(rest) : s[i + 3] = rest[i]
    BY <2>2, <2>3
  <2>5. Byte(s, 1) = 0 /\ Byte(s, 2) = q /\ Byte(s, 3) = r
    BY <2>4 DEF Byte
  <2>6. Delta(s) = n - o
    BY <2>2, <2>5 DEF Delta
  <2>7. Rest(s) = rest
    BY <2>4, <2>5 DEF Rest, Used
  <2> QED  BY <2>1, <2>6, <2>7 DEF s
<1>3. CASE Short <= n - o
  BY <1>3, Encoded
<1> QED  BY <1>1, <1>2, <1>3, Sizes, Rfc2507Assumption
----------------------------------------------------------------------------
\* What the code of a field says: nothing, of a number that is the same, or by
\* how much it has grown.
LEMMA CodeSays ==
    ASSUME NEW f \in Fields, NEW c \in Header, NEW p \in Header,
           Unsaid(c, p) = {}, Code(c, p, f) # Full
    PROVE  \/ Code(c, p, f) = <<>> /\ p.num[f] = c.num[f]
           \/ \E o, n \in Int : /\ o < n /\ n - o < Long \div 2
                                /\ Code(c, p, f) = EncodeX(o, n)
                                /\ (c.num[f] + (n - o)) % Modulus(f) = p.num[f]
<1> DEFINE x == c.num[f]
           y == p.num[f]
           M == Modulus(f)
           o == AsInt(f, x)
           n == AsInt(f, y)
<1>1. x \in 0 .. M - 1 /\ y \in 0 .. M - 1 /\ M \in Nat \ {0} /\ M <= Long
  BY FieldRange DEF Header
<1>2. o \in Int /\ n \in Int /\ Code(c, p, f) = EncodeX(o, n)
  BY <1>1, IntRange DEF Code
<1>3. /\ o = x \/ (M = Long /\ x >= Long \div 2 /\ o = x - Long)
      /\ n = y \/ (M = Long /\ y >= Long \div 2 /\ n = y - Long)
      /\ M = Long => /\ o < Long \div 2 /\ o >= (Long \div 2) - Long
                     /\ n < Long \div 2 /\ n >= (Long \div 2) - Long
  BY <1>1, IntRange
<1>4. f \in {"ack", "seq"} /\ n > o => n - o < Long \div 2
  <2>1. \A g \in {"ack", "seq"} :
           ~(AsInt(g, p.num[g]) > AsInt(g, c.num[g])
             /\ AsInt(g, p.num[g]) - AsInt(g, c.num[g]) >= Long \div 2)
    BY DEF Unsaid
  <2> QED  BY <1>2, <2>1, Sizes
<1>5. f \notin {"ack", "seq"} => M = Short /\ o = x /\ n = y
  BY DEF Modulus, AsInt
<1> HIDE DEF x, y, M, o, n
<1>6. CASE o = n
  <2>1. Code(c, p, f) = <<>>
    BY <1>2, <1>6 DEF EncodeX
  <2>2. x = y
    BY <1>1, <1>3, <1>6, Sizes
  <2> QED  BY <2>1, <2>2 DEF x, y
<1>7. CASE n < o
  <2>1. EncodeX(o, n) = Full
    BY <1>2, <1>7 DEF EncodeX
  <2> QED  BY <1>2, <2>1
<1>8. CASE o < n
  <2>1. n - o < Long \div 2
    BY <1>1, <1>4, <1>5, <1>8, Sizes
  <2>2. \/ x + (n - o) = y
        \/ M = Long /\ (x + (n - o) = y + M \/ x + (n - o) = y - M)
    BY <1>1, <1>2, <1>3, <1>8, Sizes
  <2>3. (x + (n - o)) % M = y
    BY <1>1, <2>2, Modulo
  <2> QED  BY <1>2, <1>8, <2>1, <2>3 DEF x, y, M
<1> QED  BY <1>2, <1>6, <1>7, <1>8

\* Whatever the difference, the code is a sequence of numbers.
LEMMA CodeIsSeq ==
    ASSUME NEW c \in Header, NEW p \in Header
    PROVE  /\ \A f \in Fields : Code(c, p, f) \in Seq(Int)
           /\ IdCode(c, p) \in Seq(Int)
<1>1. ASSUME NEW o \in Int, NEW n \in Int
      PROVE  EncodeX(o, n) \in Seq(Int)
  <2> DEFINE d == Signed((n - o) % Long)
  <2>1. d \in Int
    BY Sizes DEF Signed
  <2>2. EncodeX(o, n) = CASE o = n     -> <<>>
                          [] n < o     -> Full
                          [] n > o /\ d < B    -> <<d % B>>
                          [] n > o /\ d >= B /\ d < Short  -> <<0, d \div B, d % B>>
                          [] n > o /\ d >= Short -> Full
    BY DEF EncodeX
  <2> HIDE DEF d
  <2>3. d % B \in Int /\ d \div B \in Int
    BY <2>1, Rfc2507Assumption
  <2>4. <<>> \in Seq(Int) /\ Full \in Seq(Int) /\ <<d % B>> \in Seq(Int)
        /\ <<0, d \div B, d % B>> \in Seq(Int)
    BY <2>3 DEF Full
  <2>5. d < B \/ (d >= B /\ d < Short) \/ d >= Short
    BY <2>1, Sizes, Rfc2507Assumption
  <2> QED  BY <2>2, <2>4, <2>5
<1>2. ASSUME NEW f \in Fields
      PROVE  Code(c, p, f) \in Seq(Int)
  <2>1. AsInt(f, c.num[f]) \in Int /\ AsInt(f, p.num[f]) \in Int
    BY FieldRange, IntRange DEF Header
  <2> QED  BY <1>1, <2>1 DEF Code
<1>3. IdCode(c, p) \in Seq(Int)
  <2>1. c.id \in Int /\ p.id \in Int
    BY Sizes DEF Header
  <2>2. EncodeX(c.id, p.id) \in Seq(Int)
    BY <1>1, <2>1, Zenon
  <2>3. <<>> \in Seq(Int)
    OBVIOUS
  <2> QED  BY <2>2, <2>3, Zenon DEF IdCode
<1> QED  BY <1>2, <1>3

LEMMA NumbersFields ==
    ASSUME NEW num \in Numbers, NEW f \in Fields, NEW x \in 0 .. Modulus(f) - 1
    PROVE  /\ [num EXCEPT ![f] = x] \in Numbers
           /\ [num EXCEPT ![f] = x][f] = x
           /\ \A g \in Fields : g # f => [num EXCEPT ![f] = x][g] = num[g]
           /\ x = num[f] => [num EXCEPT ![f] = x] = num
<1>1. CASE f \in {"ack", "seq"}
  BY <1>1 DEF Numbers, Fields, Modulus
<1>2. CASE f \in {"urp", "win"}
  BY <1>2 DEF Numbers, Fields, Modulus
<1> QED  BY <1>1, <1>2 DEF Fields

\* What is known of a packet that is being decoded
Decoding(flags, num, bytes) == [flags |-> flags, num |-> num, bytes |-> bytes]

\* Decoding a field undoes its encoding.
LEMMA FieldDecoded ==
    ASSUME NEW f \in Fields, NEW c \in Header, NEW p \in Header,
           Unsaid(c, p) = {}, Code(c, p, f) # Full,
           NEW flags, f \in flags <=> Code(c, p, f) # <<>>,
           NEW num \in Numbers, num[f] = c.num[f], NEW rest \in Seq(Int)
    PROVE  Decoded(Decoding(flags, num, Code(c, p, f) \o rest), f)
             = Decoding(flags, [num EXCEPT ![f] = p.num[f]], rest)
<1> DEFINE d == Decoding(flags, num, Code(c, p, f) \o rest)
<1>1. d.flags = flags /\ d.num = num /\ d.bytes = Code(c, p, f) \o rest
  BY DEF Decoding
<1>2. p.num[f] \in 0 .. Modulus(f) - 1
  BY FieldRange DEF Header
<1>3. CASE Code(c, p, f) = <<>>
  <2>1. p.num[f] = num[f]
    <3>1. ~\E o, n \in Int : o < n /\ n - o < Long \div 2 /\ Code(c, p, f) = EncodeX(o, n)
      <4> SUFFICES ASSUME NEW o \in Int, NEW n \in Int, o < n, n - o < Long \div 2,
                          Code(c, p, f) = EncodeX(o, n)
                   PROVE  FALSE
        OBVIOUS
      <4>1. EncodeX(o, n) # Full /\ <<>> \in Seq(Int)
        BY DEF Full
      <4>2. EncodeX(o, n) # <<>>
        BY <4>1, DecodeUndoes
      <4> QED  BY <1>3, <4>2
    <3> QED  BY <3>1, CodeSays
  <2>2. [num EXCEPT ![f] = p.num[f]] = num
    BY <1>2, <2>1, NumbersFields
  <2>3. Code(c, p, f) \o rest = rest
    BY <1>3
  <2>4. Decoded(d, f) = d
    BY <1>1, <1>3 DEF Decoded
  <2> QED  BY <2>2, <2>3, <2>4
<1>4. CASE Code(c, p, f) # <<>>
  <2>1. PICK o, n \in Int : /\ o < n /\ n - o < Long \div 2
                            /\ Code(c, p, f) = EncodeX(o, n)
                            /\ (c.num[f] + (n - o)) % Modulus(f) = p.num[f]
    BY <1>4, CodeSays
  <2>2. Delta(d.bytes) = n - o /\ Rest(d.bytes) = rest
    BY <1>1, <2>1, DecodeUndoes
  <2>3. Decoded(d, f) = [d EXCEPT !.num[f] = (@ + Delta(d.bytes)) % Modulus(f), !.bytes = Rest(d.bytes)]
    BY <1>1, <1>4 DEF Decoded
  <2>4. Decoded(d, f) = [d EXCEPT !.num[f] = p.num[f], !.bytes = rest]
    BY <1>1, <2>1, <2>2, <2>3
  <2> QED  BY <2>4 DEF Decoding
<1> QED  BY <1>3, <1>4

\* The four fields are decoded one after another, each from the rest of the bytes.
LEMMA AllDecoded ==
    ASSUME NEW cid, NEW c \in Header, NEW p \in Header, Unsaid(c, p) = {}, ~NeedsFull(c, p)
    PROVE  DecodedAll(Compressed(cid, c, p), c)
             = Decoding(Compressed(cid, c, p).flags, p.num, IdCode(c, p))
<1> DEFINE F == {f \in Fields : Code(c, p, f) # <<>>}
           r4 == IdCode(c, p)
           r3 == Code(c, p, "seq") \o r4
           r2 == Code(c, p, "ack") \o r3
           r1 == Code(c, p, "win") \o r2
           n0 == c.num
           n1 == [n0 EXCEPT !["urp"] = p.num["urp"]]
           n2 == [n1 EXCEPT !["win"] = p.num["win"]]
           n3 == [n2 EXCEPT !["ack"] = p.num["ack"]]
           n4 == [n3 EXCEPT !["seq"] = p.num["seq"]]
<1>1. Compressed(cid, c, p).flags = F /\ Compressed(cid, c, p).bytes = Code(c, p, "urp") \o r1
  BY DEF Compressed
<1>2. /\ "urp" \in Fields /\ "win" \in Fields /\ "ack" \in Fields /\ "seq" \in Fields
      /\ \A f \in Fields : Code(c, p, f) # Full /\ (f \in F <=> Code(c, p, f) # <<>>)
  BY DEF Fields, NeedsFull
<1>3. \A f \in Fields : Code(c, p, f) \in Seq(Int)
  BY CodeIsSeq
<1>4. r4 \in Seq(Int)
  BY CodeIsSeq
<1> HIDE DEF F, r4
<1>5. r3 \in Seq(Int)
  BY <1>2, <1>3, <1>4
<1> HIDE DEF r3
<1>6. r2 \in Seq(Int)
  BY <1>2, <1>3, <1>5
<1> HIDE DEF r2
<1>7. r1 \in Seq(Int)
  BY <1>2, <1>3, <1>6
<1> HIDE DEF r1
<1>8. \A f \in Fields : p.num[f] \in 0 .. Modulus(f) - 1
  BY FieldRange DEF Header
<1>9. n0 \in Numbers
  BY DEF Header
<1>10. n1 \in Numbers /\ n1["win"] = c.num["win"] /\ n1["ack"] = c.num["ack"]
       /\ n1["seq"] = c.num["seq"] /\ n1["urp"] = p.num["urp"]
  BY <1>2, <1>8, <1>9, NumbersFields
<1> HIDE DEF n1
<1>11. n2 \in Numbers /\ n2["ack"] = c.num["ack"] /\ n2["seq"] = c.num["seq"]
       /\ n2["urp"] = p.num["urp"] /\ n2["win"] = p.num["win"]
  BY <1>2, <1>8, <1>10, NumbersFields
<1> HIDE DEF n2
<1>12. n3 \in Numbers /\ n3["seq"] = c.num["seq"]
       /\ n3["urp"] = p.num["urp"] /\ n3["win"] = p.num["win"] /\ n3["ack"] = p.num["ack"]
  BY <1>2, <1>8, <1>11, NumbersFields
<1> HIDE DEF n3
<1>13. n4 \in Numbers /\ n4["seq"] = p.num["seq"]
       /\ n4["urp"] = p.num["urp"] /\ n4["win"] = p.num["win"] /\ n4["ack"] = p.num["ack"]
  BY <1>2, <1>8, <1>12, NumbersFields
<1> HIDE DEF n4
<1>14. n4 = p.num
  <2>1. p.num \in Numbers
    BY DEF Header
  <2> QED  BY <1>13, <2>1 DEF Numbers
<1>15. Decoded(Decoding(F, n0, Code(c, p, "urp") \o r1), "urp") = Decoding(F, n1, r1)
  BY <1>2, <1>7, <1>9, FieldDecoded DEF n1
<1>16. Decoded(Decoding(F, n1, r1), "win") = Decoding(F, n2, r2)
  BY <1>2, <1>6, <1>10, FieldDecoded DEF n2, r1
<1>17. Decoded(Decoding(F, n2, r2), "ack") = Decoding(F, n3, r3)
  BY <1>2, <1>5, <1>11, FieldDecoded DEF n3, r2
<1>18. Decoded(Decoding(F, n3, r3), "seq") = Decoding(F, n4, r4)
  BY <1>2, <1>4, <1>12, FieldDecoded DEF n4, r3
<1>19. DecodedAll(Compressed(cid, c, p), c)
         = Decoded(Decoded(Decoded(Decoded(Decoding(F, n0, Code(c, p, "urp") \o r1),
              "urp"), "win"), "ack"), "seq")
  BY <1>1 DEF DecodedAll, Decoding
<1> QED  BY <1>1, <1>14, <1>15, <1>16, <1>17, <1>18, <1>19 DEF r4

\* A field is left out when it is the same.
LEMMA EmptyCode ==
    ASSUME NEW f \in Fields, NEW c \in Header, NEW p \in Header,
           Unsaid(c, p) = {}, Code(c, p, f) # Full
    PROVE  Code(c, p, f) = <<>> <=> p.num[f] = c.num[f]
<1>1. ASSUME p.num[f] = c.num[f]
      PROVE  Code(c, p, f) = <<>>
  <2>1. AsInt(f, c.num[f]) \in Int
    BY FieldRange, IntRange DEF Header
  <2> QED  BY <1>1, <2>1 DEF Code, EncodeX
<1>2. ASSUME Code(c, p, f) = <<>>
      PROVE  p.num[f] = c.num[f]
  <2>1. ASSUME NEW o \in Int, NEW n \in Int, o < n, n - o < Long \div 2, EncodeX(o, n) = <<>>
        PROVE  FALSE
    <3>1. EncodeX(o, n) # Full /\ <<>> \in Seq(Int)
      BY <2>1 DEF Full
    <3> QED  BY <2>1, <3>1, DecodeUndoes
  <2> QED  BY <1>2, <2>1, CodeSays
<1> QED  BY <1>1, <1>2

LEMMA IdDecoded ==
    ASSUME NEW c \in Header, NEW p \in Header, Unsaid(c, p) = {}, IdCode(c, p) # Full
    PROVE  (IF IdCode(c, p) # <<>> THEN c.id + Delta(IdCode(c, p)) ELSE c.id + 1) % Short = p.id
<1>1. c.id \in 0 .. Short - 1 /\ p.id \in 0 .. Short - 1 /\ Short \in Nat \ {0}
      /\ Short <= Long \div 2
  BY Sizes DEF Header
<1>2. p.id % Short = p.id
  BY <1>1, Modulo
<1>3. CASE p.id = c.id + 1
  BY <1>2, <1>3 DEF IdCode
<1>4. CASE p.id # c.id + 1
  <2>1. IdCode(c, p) = EncodeX(c.id, p.id) /\ p.id # c.id
    BY <1>4 DEF IdCode, Unsaid
  <2>2. ~(p.id < c.id)
    BY <1>1, <2>1 DEF EncodeX
  <2>3. c.id < p.id /\ p.id - c.id < Long \div 2
    BY <1>1, <2>1, <2>2, Sizes
  <2>4. EncodeX(c.id, p.id) # <<>> /\ Delta(EncodeX(c.id, p.id) \o <<>>) = p.id - c.id
    <3>1. EncodeX(c.id, p.id) # Full /\ <<>> \in Seq(Int) /\ c.id \in Int /\ p.id \in Int
      BY <1>1, <2>1
    <3> QED  BY <2>3, <3>1, DecodeUndoes
  <2>5. EncodeX(c.id, p.id) \o <<>> = EncodeX(c.id, p.id)
    BY <2>1, CodeIsSeq
  <2>6. c.id + Delta(IdCode(c, p)) = p.id
    BY <1>1, <2>1, <2>4, <2>5
  <2> QED  BY <1>2, <2>1, <2>4, <2>6
<1> QED  BY <1>3, <1>4

\* Decompression undoes compression when both ends have the same context.
LEMMA DecompressedIsSent ==
    ASSUME NEW cid, NEW c \in Header, NEW p \in Header, c.flow = p.flow,
           Unsaid(c, p) = {}, ~NeedsFull(c, p)
    PROVE  Decompressed(Compressed(cid, c, p), c) = p
<1> DEFINE w == Compressed(cid, c, p)
<1>1. DecodedAll(w, c) = Decoding(w.flags, p.num, IdCode(c, p))
  BY AllDecoded
<1>2. w.psh = p.psh /\ w.id = (IdCode(c, p) # <<>>) /\ w.flags = {f \in Fields : Code(c, p, f) # <<>>}
  BY DEF Compressed
<1>3. p.fixed = c.fixed /\ IdCode(c, p) # Full /\ \A f \in Fields : Code(c, p, f) # Full
  BY DEF NeedsFull
<1>4. p.ecn = c.ecn /\ p.urg = (p.num["urp"] # c.num["urp"])
  BY DEF Unsaid, Header
<1>5. p.urg = ("urp" \in w.flags)
  <2>1. "urp" \in Fields
    BY DEF Fields
  <2> QED  BY <1>2, <1>3, <1>4, <2>1, EmptyCode
<1> HIDE DEF w
<1>6. DecodedAll(w, c).num = p.num /\ DecodedAll(w, c).bytes = IdCode(c, p)
  BY <1>1 DEF Decoding
<1>7. (IF w.id THEN c.id + Delta(DecodedAll(w, c).bytes) ELSE c.id + 1) % Short = p.id
  BY <1>2, <1>3, <1>6, IdDecoded
<1>8. Decompressed(w, c) = [c EXCEPT !.psh = p.psh, !.urg = p.urg, !.num = p.num, !.id = p.id]
  BY <1>2, <1>5, <1>6, <1>7 DEF Decompressed
<1> QED  BY <1>3, <1>4, <1>8 DEF Header, w
----------------------------------------------------------------------------
LEMMA DeltaType ==
    ASSUME NEW s \in Seq(Int)
    PROVE  Delta(s) \in Int /\ Rest(s) \in Seq(Int)
<1>1. \A i \in Int : Byte(s, i) \in Int
  BY DEF Byte
<1>2. Delta(s) \in Int
  BY <1>1, Rfc2507Assumption DEF Delta
<1>3. Used(s) + 1 \in Nat /\ Used(s) + 1 >= 1
  BY DEF Used
<1>4. SubSeq(s, Used(s) + 1, Len(s)) \in Seq(Int)
  BY <1>3, SubSeqProperties
<1> QED  BY <1>2, <1>4 DEF Rest

\* Whatever bytes come, decoding a field leaves numbers and bytes.
LEMMA DecodedType ==
    ASSUME NEW f \in Fields, NEW flags, NEW num \in Numbers, NEW bytes \in Seq(Int)
    PROVE  \E m \in Numbers, s \in Seq(Int) :
              Decoded(Decoding(flags, num, bytes), f) = Decoding(flags, m, s)
<1> DEFINE d == Decoding(flags, num, bytes)
           x == (num[f] + Delta(bytes)) % Modulus(f)
<1>1. d.flags = flags /\ d.num = num /\ d.bytes = bytes
  BY DEF Decoding
<1>2. CASE f \notin flags
  BY <1>1, <1>2 DEF Decoded
<1>3. CASE f \in flags
  <2>1. x \in 0 .. Modulus(f) - 1
    <3>1. num[f] + Delta(bytes) \in Int /\ Modulus(f) \in Nat \ {0}
      BY DeltaType, FieldRange
    <3> QED  BY <3>1, ModuloRange
  <2>2. Decoded(d, f) = [d EXCEPT !.num[f] = x, !.bytes = Rest(bytes)]
    BY <1>1, <1>3 DEF Decoded
  <2> HIDE DEF x
  <2>3. Decoded(d, f) = Decoding(flags, [num EXCEPT ![f] = x], Rest(bytes))
    BY <2>2 DEF Decoding
  <2> QED  BY <2>1, <2>3, NumbersFields, DeltaType
<1> QED  BY <1>2, <1>3

\* Whatever the context, a compressed packet comes out as one of its flow.
LEMMA DecompressedType ==
    ASSUME NEW cid, NEW c \in Header, NEW p \in Header, NEW k \in Header
    PROVE  /\ Decompressed(Compressed(cid, c, p), k) \in Header
           /\ Decompressed(Compressed(cid, c, p), k).flow = k.flow
<1> DEFINE w == Compressed(cid, c, p)
           F == {f \in Fields : Code(c, p, f) # <<>>}
<1>1. w.psh \in BOOLEAN /\ w.flags = F /\ w.bytes \in Seq(Int)
  <2>1. w.psh \in BOOLEAN /\ w.flags = F
    BY DEF Compressed, Header
  <2>2. w.bytes = Code(c, p, "urp") \o (Code(c, p, "win") \o (Code(c, p, "ack") \o
                    (Code(c, p, "seq") \o IdCode(c, p))))
    BY DEF Compressed
  <2>3. /\ Code(c, p, "urp") \in Seq(Int) /\ Code(c, p, "win") \in Seq(Int)
        /\ Code(c, p, "ack") \in Seq(Int) /\ Code(c, p, "seq") \in Seq(Int)
        /\ IdCode(c, p) \in Seq(Int)
    BY CodeIsSeq DEF Fields
  <2> QED  BY <2>1, <2>2, <2>3
<1> HIDE DEF w, F
<1>2. /\ "urp" \in Fields /\ "win" \in Fields /\ "ack" \in Fields /\ "seq" \in Fields
      /\ k.num \in Numbers
  BY DEF Fields, Header
<1>3. PICK m1 \in Numbers, s1 \in Seq(Int) :
         Decoded(Decoding(F, k.num, w.bytes), "urp") = Decoding(F, m1, s1)
  BY <1>1, <1>2, DecodedType
<1>4. PICK m2 \in Numbers, s2 \in Seq(Int) :
         Decoded(Decoding(F, m1, s1), "win") = Decoding(F, m2, s2)
  BY <1>2, DecodedType
<1>5. PICK m3 \in Numbers, s3 \in Seq(Int) :
         Decoded(Decoding(F, m2, s2), "ack") = Decoding(F, m3, s3)
  BY <1>2, DecodedType
<1>6. PICK m4 \in Numbers, s4 \in Seq(Int) :
         Decoded(Decoding(F, m3, s3), "seq") = Decoding(F, m4, s4)
  BY <1>2, DecodedType
<1>7. DecodedAll(w, k) = Decoding(F, m4, s4)
  BY <1>1, <1>3, <1>4, <1>5, <1>6 DEF DecodedAll, Decoding
<1>8. DecodedAll(w, k).num = m4 /\ DecodedAll(w, k).bytes = s4
  BY <1>7 DEF Decoding
<1> DEFINE id == (IF w.id THEN k.id + Delta(s4) ELSE k.id + 1) % Short
           urg == "urp" \in w.flags
<1>9. id \in 0 .. Short - 1
  <2>1. k.id + Delta(s4) \in Int /\ k.id + 1 \in Int /\ Short \in Nat \ {0}
    BY DeltaType, Sizes DEF Header
  <2> QED  BY <2>1, ModuloRange
<1>10. Decompressed(w, k) = [k EXCEPT !.psh = w.psh, !.urg = urg, !.num = m4, !.id = id]
  BY <1>8 DEF Decompressed
<1>11. urg \in BOOLEAN
  OBVIOUS
<1> HIDE DEF id, urg
<1> QED  BY <1>1, <1>9, <1>10, <1>11 DEF Header, w
----------------------------------------------------------------------------
Reasons == {"id", "urg", "ecn", "wrap", "full lost", "tcp lost"}
TypeInv ==
    /\ map \in [DOMAIN map -> 0 .. TCP_SPACE - 1]
    /\ comp \in [Cids -> Packets \cup {NoContext}]
    /\ deco \in [Cids -> Header \cup {NoContext}]
    /\ why \in [Cids -> SUBSET Reasons]

\* The contexts of a CID are of one flow when its last full header came, and
\* the same when nothing else happened to it.
InSync ==
    \A c \in Cids : comp[c] # NoContext =>
       /\ "full lost" \notin why[c] => deco[c] # NoContext /\ deco[c].flow = comp[c].flow
       /\ why[c] = {} => deco[c] = comp[c]

IInv == TypeInv /\ OwnContext /\ InSync

\* What a step does right about the packet it sends
Right == Exact' /\ OwnFlow'

LEMMA PacketType ==
    ASSUME NEW p \in Packets
    PROVE  p \in Header /\ p # NoContext
BY Rfc2507Assumption

LEMMA CidType == 0 \notin Cids /\ \A c \in Cids : c # 0 /\ c \in 0 .. TCP_SPACE - 1
BY Rfc2507Assumption DEF Cids

LEMMA UnsaidType ==
    ASSUME NEW c, NEW p
    PROVE  Unsaid(c, p) \subseteq Reasons /\ "full lost" \notin Unsaid(c, p)
BY DEF Unsaid, Reasons

LEMMA RightWhen ==
    ASSUME NEW p, NEW g, NEW cid, NEW lost,
           last' = [sent |-> p, got |-> g, cid |-> cid, lost |-> lost],
           ~lost /\ (cid = 0 \/ why'[cid] = {}) => g = p,
           cid # 0 /\ ~lost /\ "full lost" \notin why'[cid] => g # NoContext /\ g.flow = p.flow
    PROVE  Right
<1>1. last'.sent = p /\ last'.got = g /\ last'.cid = cid /\ last'.lost = lost
  OBVIOUS
<1>2. Exact'
  BY <1>1 DEF Exact
<1>3. OwnFlow'
  BY <1>1 DEF OwnFlow
<1> QED  BY <1>2, <1>3 DEF Right

\* A full header brings the contexts of its CID together, or is lost.
LEMMA FullSent ==
    ASSUME IInv, NEW cid \in Cids, NEW p \in Packets,
           Sent(MakeFull(cid, p), p), comp' = [comp EXCEPT ![cid] = p]
    PROVE  /\ deco' \in [Cids -> Header \cup {NoContext}] /\ why' \in [Cids -> SUBSET Reasons]
           /\ InSync' /\ Right
<1> DEFINE w == MakeFull(cid, p)
<1>1. w.type = "full" /\ w.cid = cid /\ w.p = p
  BY DEF MakeFull
<1>2. p \in Header /\ p # NoContext /\ cid # 0
  BY PacketType, CidType
<1>3. CASE Delivered(w, p)
  <2>1. Received(w) = p
    BY <1>1 DEF Received
  <2>2. /\ last' = [sent |-> p, got |-> p, cid |-> cid, lost |-> FALSE]
        /\ deco' = [deco EXCEPT ![cid] = p]
        /\ why' = [why EXCEPT ![cid] = {}]
    BY <1>1, <1>2, <1>3, <2>1 DEF Delivered
  <2>3. Right
    BY <1>2, <2>2 DEF Right, Exact, OwnFlow
  <2> QED  BY <1>2, <2>2, <2>3 DEF IInv, TypeInv, InSync
<1>4. CASE Lost(w, p)
  <2>1. /\ last' = [sent |-> p, got |-> NoContext, cid |-> cid, lost |-> TRUE]
        /\ deco' = deco
        /\ why' = [why EXCEPT ![cid] = @ \cup {"full lost"}]
    BY <1>1, <1>4 DEF Lost
  <2>2. Right
    BY <2>1 DEF Right, Exact, OwnFlow
  <2> QED  BY <2>1, <2>2 DEF IInv, TypeInv, InSync, Reasons
<1> QED  BY <1>3, <1>4 DEF Sent

\* A compressed packet keeps the contexts together, or says why not.
LEMMA TcpSent ==
    ASSUME IInv, NEW cid \in Cids, NEW p \in Packets,
           comp[cid] # NoContext, comp[cid].flow = p.flow, ~NeedsFull(comp[cid], p),
           Sent(Compressed(cid, comp[cid], p), p), comp' = [comp EXCEPT ![cid] = p]
    PROVE  /\ deco' \in [Cids -> Header \cup {NoContext}] /\ why' \in [Cids -> SUBSET Reasons]
           /\ InSync' /\ Right
<1> DEFINE c == comp[cid]
           w == Compressed(cid, c, p)
           U == Unsaid(c, p)
<1>1. w.type = "tcp" /\ w.cid = cid
  BY DEF Compressed
<1>2. p \in Header /\ p # NoContext /\ cid # 0 /\ NoContext \notin Header
  BY PacketType, CidType, Rfc2507Assumption
<1>3. c \in Header
  BY Rfc2507Assumption DEF IInv, TypeInv
<1>4. U \subseteq Reasons /\ "full lost" \notin U
  BY UnsaidType
<1>5. /\ "full lost" \notin why[cid] => deco[cid] # NoContext /\ deco[cid].flow = p.flow
      /\ why[cid] = {} => deco[cid] = c
  BY DEF IInv, InSync
<1>6. why[cid] \in SUBSET Reasons /\ deco[cid] \in Header \cup {NoContext}
  BY DEF IInv, TypeInv
<1>7. deco[cid] # NoContext =>
         /\ Decompressed(w, deco[cid]) \in Header
         /\ Decompressed(w, deco[cid]).flow = deco[cid].flow
  BY <1>2, <1>3, <1>6, DecompressedType
<1>8. U = {} => Decompressed(w, c) = p
  BY <1>2, <1>3, DecompressedIsSent
<1> HIDE DEF w, U
<1>9. CASE Delivered(w, p) /\ deco[cid] = NoContext
  <2>1. Received(w) = NoContext
    BY <1>1, <1>9 DEF Received
  <2>2. /\ last' = [sent |-> p, got |-> NoContext, cid |-> cid, lost |-> FALSE]
        /\ deco' = deco
        /\ why' = [why EXCEPT ![cid] = @ \cup U]
    BY <1>1, <1>9, <2>1 DEF Delivered, U
  <2>3. why'[cid] = why[cid] \cup U /\ "full lost" \in why[cid]
    BY <1>5, <1>9, <2>2 DEF IInv, TypeInv
  <2>4. Right
    <3>1. last' = [sent |-> p, got |-> NoContext, cid |-> cid, lost |-> FALSE]
      BY <2>2
    <3> QED  BY <1>2, <1>4, <2>3, <3>1, RightWhen
  <2> QED  BY <1>4, <2>2, <2>3, <2>4 DEF IInv, TypeInv, InSync
<1>10. CASE Delivered(w, p) /\ deco[cid] # NoContext
  <2> DEFINE g == Decompressed(w, deco[cid])
  <2>1. Received(w) = g
    BY <1>1, <1>10 DEF Received
  <2>2. g \in Header /\ g # NoContext /\ g.flow = deco[cid].flow
    BY <1>2, <1>7, <1>10
  <2>3. why[cid] = {} /\ U = {} => g = p
    BY <1>5, <1>8
  <2> HIDE DEF g
  <2>4. /\ last' = [sent |-> p, got |-> g, cid |-> cid, lost |-> FALSE]
        /\ deco' = [deco EXCEPT ![cid] = g]
        /\ why' = [why EXCEPT ![cid] = @ \cup U]
    BY <1>1, <1>10, <2>1, <2>2 DEF Delivered, U
  <2>5. why'[cid] = why[cid] \cup U /\ deco'[cid] = g /\ comp'[cid] = p
    BY <2>4 DEF IInv, TypeInv
  <2>6. Right
    <3>1. last' = [sent |-> p, got |-> g, cid |-> cid, lost |-> FALSE]
      BY <2>4
    <3>2. why'[cid] = {} => g = p
      BY <2>3, <2>5
    <3>3. "full lost" \notin why'[cid] => g # NoContext /\ g.flow = p.flow
      BY <1>5, <2>2, <2>5
    <3> QED  BY <1>2, <3>1, <3>2, <3>3, RightWhen
  <2>7. InSync'
    BY <1>4, <1>5, <2>2, <2>3, <2>4, <2>5 DEF IInv, TypeInv, InSync
  <2> QED  BY <1>4, <2>2, <2>4, <2>6, <2>7 DEF IInv, TypeInv
<1>11. CASE Lost(w, p)
  <2>1. /\ last' = [sent |-> p, got |-> NoContext, cid |-> cid, lost |-> TRUE]
        /\ deco' = deco
        /\ why' = [why EXCEPT ![cid] = @ \cup {"tcp lost"}]
    BY <1>1, <1>11 DEF Lost
  <2>2. Right
    BY <2>1 DEF Right, Exact, OwnFlow
  <2>3. why'[cid] = why[cid] \cup {"tcp lost"} /\ comp'[cid] = p
    BY <2>1 DEF IInv, TypeInv
  <2>4. InSync'
    BY <1>5, <2>1, <2>3 DEF IInv, TypeInv, InSync
  <2> QED  BY <2>1, <2>2, <2>4 DEF IInv, TypeInv, Reasons
<1> QED  BY <1>9, <1>10, <1>11 DEF Sent, w

\* A packet that is sent as it is touches no context.
LEMMA OtherSent ==
    ASSUME IInv, NEW p \in Packets, Sent(Other(p), p), UNCHANGED <<map, comp>>
    PROVE  IInv' /\ Right
<1> DEFINE w == Other(p)
<1>1. w.type = "other" /\ w.cid = 0 /\ w.p = p
  BY DEF Other
<1>2. deco' = deco /\ why' = why
  BY <1>1 DEF Sent, Delivered, Lost
<1>3. IInv'
  BY <1>2 DEF IInv, TypeInv, OwnContext, InSync
<1>4. \/ last' = [sent |-> p, got |-> p, cid |-> 0, lost |-> FALSE]
      \/ last' = [sent |-> p, got |-> NoContext, cid |-> 0, lost |-> TRUE]
  BY <1>1 DEF Sent, Delivered, Lost, Received
<1>5. Right
  BY <1>4, RightWhen
<1> QED  BY <1>3, <1>5
----------------------------------------------------------------------------
LEMMA InitKeeps == Init => IInv
BY DEF Init, IInv, TypeInv, OwnContext, InSync, Cids

LEMMA KnownKeeps ==
    ASSUME IInv, NEW p \in Packets, SendKnown(p)
    PROVE  IInv' /\ Right
<1> DEFINE cid == CidOf(p.flow)
<1>1. /\ cid # 0 /\ Sent(MakeCompressed(cid, comp[cid], p), p)
      /\ comp' = [comp EXCEPT ![cid] = p] /\ map' = map
  BY DEF SendKnown
<1>2. p.flow \in DOMAIN map /\ cid = map[p.flow]
  BY <1>1 DEF CidOf
<1>3. cid \in Cids
  BY <1>1, <1>2, Rfc2507Assumption DEF IInv, TypeInv, Cids
<1>4. comp[cid] # NoContext /\ comp[cid].flow = p.flow
  BY <1>1, <1>2 DEF IInv, OwnContext
<1> HIDE DEF cid
<1>5. /\ deco' \in [Cids -> Header \cup {NoContext}] /\ why' \in [Cids -> SUBSET Reasons]
      /\ InSync' /\ Right
  <2>1. CASE NeedsFull(comp[cid], p)
    BY <1>1, <1>3, <2>1, FullSent DEF MakeCompressed
  <2>2. CASE ~NeedsFull(comp[cid], p)
    BY <1>1, <1>3, <1>4, <2>2, TcpSent DEF MakeCompressed
  <2> QED  BY <2>1, <2>2
<1>6. comp' \in [Cids -> Packets \cup {NoContext}]
  BY <1>1 DEF IInv, TypeInv
<1>7. OwnContext'
  <2>1. comp'[cid] = p /\ p # NoContext /\ \A c \in Cids : c # cid => comp'[c] = comp[c]
    BY <1>1, <1>3, PacketType DEF IInv, TypeInv
  <2>2. \A f \in DOMAIN map : map[f] # 0 => map[f] \in Cids
    BY Rfc2507Assumption DEF IInv, TypeInv, Cids
  <2> QED  BY <1>1, <1>4, <2>1, <2>2 DEF IInv, OwnContext
<1> QED  BY <1>1, <1>5, <1>6, <1>7 DEF IInv, TypeInv

LEMMA NewKeeps ==
    ASSUME IInv, NEW p \in Packets, SendNew(p)
    PROVE  IInv' /\ Right
<1>1. PICK cid \in Cids : /\ Sent(MakeFull(cid, p), p) /\ map' = Remapped(p.flow, cid)
                          /\ comp' = [comp EXCEPT ![cid] = p]
  BY DEF SendNew
<1>2. /\ deco' \in [Cids -> Header \cup {NoContext}] /\ why' \in [Cids -> SUBSET Reasons]
      /\ InSync' /\ Right
  BY <1>1, FullSent
<1>3. comp' \in [Cids -> Packets \cup {NoContext}]
  BY <1>1 DEF IInv, TypeInv
<1>4. map' = [g \in DOMAIN map \cup {p.flow} |->
                IF g = p.flow THEN cid
                ELSE IF comp[cid] # NoContext /\ comp[cid].flow = g THEN 0 ELSE map[g]]
  BY <1>1 DEF Remapped
<1>5. map' \in [DOMAIN map' -> 0 .. TCP_SPACE - 1]
  <2>1. 0 \in 0 .. TCP_SPACE - 1 /\ cid \in 0 .. TCP_SPACE - 1
    BY CidType, Rfc2507Assumption
  <2>2. \A g \in DOMAIN map : map[g] \in 0 .. TCP_SPACE - 1
    BY DEF IInv, TypeInv
  <2> QED  BY <1>4, <2>1, <2>2
<1>6. OwnContext'
  <2>1. comp'[cid] = p /\ p # NoContext /\ \A c \in Cids : c # cid => comp'[c] = comp[c]
    BY <1>1, PacketType DEF IInv, TypeInv
  <2> SUFFICES ASSUME NEW g \in DOMAIN map', map'[g] # 0
               PROVE  comp'[map'[g]] # NoContext /\ comp'[map'[g]].flow = g
    BY DEF OwnContext
  <2>2. CASE g = p.flow
    BY <1>4, <2>1, <2>2
  <2>3. CASE g # p.flow
    <3>1. g \in DOMAIN map /\ map'[g] = map[g] /\ map[g] # 0
          /\ ~(comp[cid] # NoContext /\ comp[cid].flow = g)
      BY <1>4, <2>3
    <3>2. comp[map[g]] # NoContext /\ comp[map[g]].flow = g
      BY <3>1 DEF IInv, OwnContext
    <3>3. map[g] # cid /\ map[g] \in Cids
      BY <3>1, <3>2, Rfc2507Assumption DEF IInv, TypeInv, Cids
    <3> QED  BY <2>1, <3>1, <3>2, <3>3
  <2> QED  BY <2>2, <2>3
<1> QED  BY <1>2, <1>3, <1>5, <1>6 DEF IInv, TypeInv

LEMMA StepKeeps ==
    ASSUME IInv, [Next]_vars
    PROVE  IInv' /\ (Right \/ UNCHANGED vars)
<1>1. CASE UNCHANGED vars
  BY <1>1 DEF vars, IInv, TypeInv, OwnContext, InSync
<1>2. ASSUME NEW p \in Packets, SendOther(p)
      PROVE  IInv' /\ Right
  BY <1>2, OtherSent DEF SendOther
<1>3. ASSUME NEW p \in Packets, SendKnown(p)
      PROVE  IInv' /\ Right
  BY <1>3, KnownKeeps
<1>4. ASSUME NEW p \in Packets, SendNew(p)
      PROVE  IInv' /\ Right
  BY <1>4, NewKeeps
<1> QED  BY <1>1, <1>2, <1>3, <1>4 DEF Next

LEMMA Invariance == Spec => []IInv
<1>1. IInv /\ [Next]_vars => IInv'
  BY StepKeeps
<1> QED  BY <1>1, InitKeeps, PTL DEF Spec

\* Since the last full header of its CID, a packet that the format has words for
\* comes out as it went in, when nothing was lost (rfc2507d.cc:84-133).
THEOREM ExactWhileInSync == Spec => ExactInSync
<1>1. IInv /\ [Next]_vars => [Exact']_vars
  BY StepKeeps DEF Right
<1> QED  BY <1>1, Invariance, PTL DEF Spec, ExactInSync

\* Whatever CIDs were taken from whatever flows, a packet comes out as one of
\* another flow only after a full header was lost (rfc2507c.cc:226-252).
THEOREM FlowsAreKeptApart == Spec => OtherFlowNeedsLostFull
<1>1. IInv /\ [Next]_vars => [(OwnFlow /\ OwnContext)']_vars
  <2>1. ASSUME IInv, [Next]_vars
        PROVE  OwnContext' /\ (OwnFlow' \/ UNCHANGED vars)
    BY <2>1, StepKeeps DEF Right, IInv
  <2> QED  BY <2>1
<1> QED  BY <1>1, Invariance, PTL DEF Spec, OtherFlowNeedsLostFull
=============================================================================
