---------------------------- MODULE IPFragmenter ----------------------------
(***************************************************************************)
(* IPFragmenter (ipfragmenter.cc): what fragment() makes of one packet.    *)
(*                                                                         *)
(* A packet is a record [id, body, off, len, mf, df, hl, opt]: off    *)
(* and len count blocks of eight bytes, the unit of ip_off; the bytes of a *)
(* last block are not told apart.  hl is the header's length in bytes.     *)
(* body stands for the datagram the bytes were taken from: block k of any  *)
(* fragment of it carries <<body, k>>.                                     *)
(***************************************************************************)
EXTENDS Integers, Sequences, FiniteSets

IP_HEADER == 20  \* sizeof(click_ip)

\* opt is what the option area begins with; optcopy ends on an end-of-list
\* option alone, because its loop never moves to the next one
OptKinds == {"none", "end", "other"}
OptcopyEnds(p) == p.opt \in {"none", "end"}

FirstDlen(p, mtu) == (mtu - p.hl) \div 8
OutDlen(mtu) == (mtu - IP_HEADER) \div 8

\* push: the packet is small enough; fragment: it goes to output 1
Fits(p, mtu) == p.hl + 8 * p.len <= mtu
Dropped(p, mtu, honor_df) == (p.df /\ honor_df) \/ FirstDlen(p, mtu) < 1

FirstFragment(p, mtu, id) ==
    [p EXCEPT !.id = id, !.df = FALSE, !.mf = TRUE, !.len = FirstDlen(p, mtu)]
\* mutant: had_mf is forgotten, a fragment's last fragment is the last of all
NextFragment_NoHadMf(p, mtu, id, off) ==
    LET n == IF off + OutDlen(mtu) > p.len THEN p.len - off ELSE OutDlen(mtu)
    IN  [p EXCEPT !.id = id, !.df = FALSE, !.off = @ + off, !.len = n,
                  !.mf = off + n < p.len, !.hl = IP_HEADER, !.opt = "none"]

\* the fragment that begins `off' blocks into p
NextFragment(p, mtu, id, off) ==
    LET n == IF off + OutDlen(mtu) > p.len THEN p.len - off ELSE OutDlen(mtu)
    IN  [p EXCEPT !.id = id, !.df = FALSE, !.off = @ + off, !.len = n,
                  !.mf = p.mf \/ off + n < p.len, !.hl = IP_HEADER, !.opt = "none"]
\* with an option that is not copied to the end, the loop of optcopy is
\* entered after the first fragment was pushed
Fragments(p, mtu, id) ==
    {FirstFragment(p, mtu, id)} \cup
    IF ~OptcopyEnds(p) THEN {}
    ELSE {NextFragment(p, mtu, id, off) :
             off \in {o \in FirstDlen(p, mtu) .. p.len - 1 :
                          (o - FirstDlen(p, mtu)) % OutDlen(mtu) = 0}}
=============================================================================
