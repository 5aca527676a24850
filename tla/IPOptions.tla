----------------------------- MODULE IPOptions ------------------------------
(***************************************************************************)
(* The options of an IP header, as IPGWOptions and IPOutputCombo handle    *)
(* them (ipgwoptions.cc, ipoutputcombo.cc): a router adds its address to   *)
(* Record Route and the time to Timestamp options, in place.               *)
(*                                                                         *)
(* The bytes are those behind the fixed part of the header, and the first  *)
(* ones of the payload; offsets count from 0 as in C, from the end of the  *)
(* fixed part.  A byte has Nibble * Nibble values.                         *)
(***************************************************************************)
EXTENDS Integers, Sequences, FiniteSets

CONSTANTS Nibble,      \* number of values of half a byte
          Word,        \* bytes of an address, and of a time
          RR, TS,      \* types of options
          Now          \* the time, as Word bytes
OptionsAssumption == /\ Nibble \in Nat \ {0, 1} /\ Word \in Nat \ {0}
                     /\ RR \notin {0, 1, TS} /\ TS \notin {0, 1} /\ Len(Now) = Word

EOL == 0
NOP == 1
NoProblem == -1

At(s, i) == s[i + 1]
Put(s, i, bytes) == [k \in DOMAIN s |-> IF k - i \in DOMAIN bytes THEN bytes[k - i] ELSE s[k]]

\* Write at the pointer p of the option at oi, and move the pointer over it
Stored(s, oi, p, bytes) ==
    Put(Put(s, oi + p, bytes), oi + 2, <<At(s, oi + 2) + Len(bytes)>>)

Going(s, wrote) == [s |-> s, wrote |-> wrote, problem |-> NoProblem]
Stopped(s, at)  == [s |-> s, wrote |-> FALSE, problem |-> at]

\* mutant: an address must only begin inside the option
RecordRoute_Begins(s, oi, xlen, me) ==
    LET p == At(s, oi + 2) - 1
    IN  IF p >= 3 /\ p + 1 <= xlen THEN Going(Stored(s, oi, p, me), TRUE)
        ELSE IF p = xlen THEN Going(s, FALSE) ELSE Stopped(s, oi + 2)

RecordRoute(s, oi, xlen, me) ==
    LET p == At(s, oi + 2) - 1
    IN  IF p >= 3 /\ p + Word <= xlen THEN Going(Stored(s, oi, p, me), TRUE)
        ELSE IF p = xlen THEN Going(s, FALSE) ELSE Stopped(s, oi + 2)

\* No room for a time: count it, in the upper half of the byte of the flags
Overflowed(s, oi) ==
    IF At(s, oi + 3) \div Nibble < Nibble - 1
    THEN Going(Put(s, oi + 3, <<At(s, oi + 3) + Nibble>>), TRUE)
    ELSE Stopped(s, oi + 3)

Timestamp(s, oi, xlen, me, mine) ==
    LET p     == At(s, oi + 2) - 1
        flg   == At(s, oi + 3) % Nibble
        needs == IF flg = 0 THEN Word ELSE 2 * Word
        fits  == p + needs <= xlen
        there == SubSeq(s, oi + p + 1, oi + p + Word)
    IN  CASE p < 4 -> Stopped(s, oi + 2)
          [] p >= 4 /\ flg = 0 /\ fits -> Going(Stored(s, oi, p, Now), TRUE)
          [] p >= 4 /\ flg = 1 /\ fits -> Going(Stored(s, oi, p, me \o Now), TRUE)
          [] p >= 4 /\ flg = 3 /\ fits ->
                IF there \in mine THEN Going(Stored(s, oi, p, there \o Now), TRUE) ELSE Going(s, FALSE)
          [] p >= 4 /\ flg \in {0, 1} /\ ~fits -> Overflowed(s, oi)
          [] OTHER -> Stopped(s, oi + 3)

\* What the loop finds at oi
Kind(s, hlen, oi) ==
    IF oi >= hlen \/ At(s, oi) = EOL THEN "end"
    ELSE IF At(s, oi) = NOP THEN "nop"
    ELSE IF At(s, oi + 1) < 2 \/ oi + At(s, oi + 1) > hlen THEN "bad"
    ELSE IF At(s, oi) \in {RR, TS} THEN "ours" ELSE "other"

\* The loop from oi on: the bytes, the problem, whether one of its options was met (wp) and whether
\* anything was written (do_cksum)
Met(r, o) == [s |-> o.s, wrote |-> r.wrote \/ o.wrote, met |-> TRUE, problem |-> o.problem]

RECURSIVE Scanned(_, _, _, _, _)
Scanned(r, hlen, oi, me, mine) ==
    LET kind == Kind(r.s, hlen, oi)
        xlen == At(r.s, oi + 1)
        ours == IF At(r.s, oi) = RR THEN RecordRoute(r.s, oi, xlen, me)
                                    ELSE Timestamp(r.s, oi, xlen, me, mine)
    IN  CASE r.problem # NoProblem \/ kind = "end" -> r
          [] r.problem = NoProblem /\ kind = "nop"   -> Scanned(r, hlen, oi + 1, me, mine)
          [] r.problem = NoProblem /\ kind = "bad"   -> [r EXCEPT !.problem = oi + 1]
          [] r.problem = NoProblem /\ kind = "other" -> Scanned(r, hlen, oi + xlen, me, mine)
          [] r.problem = NoProblem /\ kind = "ours"  -> Scanned(Met(r, ours), hlen, oi + xlen, me, mine)

Handled(s, hlen, me, mine) ==
    Scanned([s |-> s, wrote |-> FALSE, met |-> FALSE, problem |-> NoProblem], hlen, 0, me, mine)
----------------------------------------------------------------------------
(***************************************************************************)
(* What ipgwoptions.hh and the comments of the loop say of one option.     *)
(***************************************************************************)
\* The options of a header up to its end or to a bad length
RECURSIVE Spans(_, _, _)
Spans(s, hlen, oi) ==
    CASE Kind(s, hlen, oi) \in {"end", "bad"} -> {}
      [] Kind(s, hlen, oi) = "nop" -> Spans(s, hlen, oi + 1)
      [] OTHER -> {[type |-> At(s, oi), from |-> oi, len |-> At(s, oi + 1)]}
                  \cup Spans(s, hlen, oi + At(s, oi + 1))

\* A timestamp option without its four bytes: the code counts an overflow in a byte that is not its own
Truncated(x) == x.type = TS /\ x.len < 4

\* The bytes of an option that may be written: the pointer, the flags, and what it is moved over
Writable(s, t, x) ==
    {x.from + 2} \cup (IF x.type = TS THEN {x.from + 3} ELSE {})
                 \cup (x.from + At(s, x.from + 2) - 1 .. x.from + At(t, x.from + 2) - 2)

InPlace(s, r, hlen, me) ==
    LET spans == {x \in Spans(s, hlen, 0) : x.type \in {RR, TS}}
        moved(x) == At(r.s, x.from + 2) - At(s, x.from + 2)
    IN  /\ Spans(r.s, hlen, 0) = Spans(s, hlen, 0)
        /\ \A i \in 0 .. Len(s) - 1 : At(r.s, i) # At(s, i) =>
              \E x \in spans : i \in Writable(s, r.s, x) /\ i < x.from + x.len
        /\ \A x \in spans : /\ moved(x) \in {0, Word, 2 * Word}
                            /\ moved(x) > 0 => At(r.s, x.from + 2) - 1 \in 3 .. x.len
                            /\ r.problem = NoProblem /\ x.type = RR /\ moved(x) = 0 =>
                                  At(s, x.from + 2) = x.len + 1
                            /\ x.type = RR /\ moved(x) > 0 =>
                                  SubSeq(r.s, x.from + At(s, x.from + 2), x.from + At(s, x.from + 2) + Word - 1) = me
        /\ r.problem # NoProblem =>
              /\ r.problem \in 0 .. hlen
              /\ \A x \in spans : moved(x) > 0 => x.from + x.len <= r.problem
=============================================================================
