------------------------------ MODULE MCRfc2507 -----------------------------
(* A small instance of Rfc2507: bytes of four values, sequence numbers      *)
(* around the sign change, and around a difference of one byte.             *)
EXTENDS Rfc2507

CONSTANTS f1, f2, f3
P(flow, id, seq, urp, psh, urg, ecn) ==
    [flow |-> flow, fixed |-> 0, id |-> id, num |-> [urp |-> urp, win |-> 0, ack |-> 0, seq |-> seq],
     psh |-> psh, urg |-> urg, ecn |-> ecn]
MCPackets == {P(f1, 1, 127, 0, FALSE, FALSE, 0), P(f1, 2, 128, 0, TRUE, FALSE, 0),
              P(f1, 3, 132, 1, FALSE, TRUE, 0), P(f1, 7, 133, 1, FALSE, TRUE, 1),
              P(f2, 1, 5, 0, FALSE, FALSE, 0), P(f2, 2, 10, 0, TRUE, FALSE, 0), P(f2, 2, 40, 2, FALSE, TRUE, 0),
              P(f3, 15, 0, 0, FALSE, FALSE, 0), P(f3, 0, 4, 0, TRUE, FALSE, 0)}

\* The last packet matters to the step properties alone.  Of a context that may
\* differ they tell only the flow, which no number in it decides.
Contexts ==
    <<map, comp,
      [c \in Cids |-> IF deco[c] = NoContext THEN <<>> ELSE IF why[c] = {} THEN <<deco[c]>> ELSE <<deco[c].flow>>],
      [c \in Cids |-> <<why[c] = {}, "full lost" \in why[c]>>]>>
=============================================================================
