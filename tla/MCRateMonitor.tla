---------------------------- MODULE MCRateMonitor ---------------------------
(* IPRateMonitor with at most three open tables, one below the other two    *)
(* or both below the base, and with at most two rules of anno_level, one of *)
(* which is over.                                                           *)
EXTENDS IPRateMonitor

FewTables == Cardinality(tables) <= 3
FewRules  == /\ Cardinality({c \in DOMAIN counters : counters[c] # 0}) <= 2
             /\ Cardinality({c \in DOMAIN counters : counters[c] >= now}) <= 1
=============================================================================
