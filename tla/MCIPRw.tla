------------------------------- MODULE MCIPRw -------------------------------
(* An instance of IPRw for TLC: hosts 1 and 2 inside, 7 outside, the        *)
(* external addresses from 4 on.                                            *)
EXTENDS IPRw

Range(addr, top, seq) == [saddr |-> addr, sport |-> 0, daddr |-> 0, dport |-> 0, top |-> top, sequential |-> seq]
\* the range of the prefix 4/30
Prefix == NatPrefix(4, 1, 3)
Spec1(kind, pats) == [kind |-> kind, pats |-> pats]
Drop == Spec1("drop", << >>)
Single == Spec1("pattern", <<Range(Prefix.saddr, Prefix.top, TRUE)>>)
Turns == Spec1("roundrobin", <<Range(4, 1, FALSE), Range(6, 1, TRUE)>>)
Hashed == Spec1("hash", <<Range(4, 1, FALSE), Range(4, 0, FALSE)>>)
MCConfigs ==
    [kind : {"addr"}, spec : {<<Turns, Drop>>, <<Hashed, Spec1("keep", << >>)>>,
                              <<Spec1("pattern", <<Range(4, 2, TRUE)>>), Spec1("pass", << >>)>>}]
    \cup [kind : {"addr", "pair"}, spec : {<<Single, Drop>>}]
P(a, b) == [src |-> a, dst |-> b]
MCPackets == {P(1, 7), P(2, 7), P(7, 4), P(4, 4)}
MCHashOf == [a \in {1, 2, 3, 4, 7} |-> (a % 2) + 1]
============================================================================
