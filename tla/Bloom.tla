------------------------------- MODULE Bloom -------------------------------
(***************************************************************************)
(* The two Bloom filter classes of the simulation programs:                *)
(* bloom_filter (BloomFilter.h) and counting_bloom_filter                  *)
(* (CountingBloomFilter.h), as operators on a filter's hash_table.         *)
(*                                                                         *)
(* hash_table is a function from the cells 0..table_size-1 to byte values; *)
(* the NULL table of a filter initialised for zero elements is the         *)
(* function with the empty domain, and function_size is 0 exactly then.    *)
(*                                                                         *)
(* srand(seed of the key) followed by the i-th rand() is the constant      *)
(* Rand[k][i]: two keys with the same seed have the same row.              *)
(***************************************************************************)
EXTENDS Integers, FiniteSets

CONSTANTS Key,      \* what is inserted: MAC addresses or prefixes
          Hash,     \* indices of the hash functions, 1..function_size
          RandMax,  \* RAND_MAX
          Rand,     \* Rand[k][i], the i-th rand() after seeding with k
          CellMax   \* largest value of one byte of hash_table, 255

ASSUME HashAssumption == IsFiniteSet(Hash) /\ Hash # {}
ASSUME CellAssumption == RandMax \in Nat \ {0} /\ CellMax \in Nat \ {0, 1}
\* rand() = RAND_MAX, which the code maps one cell past the table, is left out
ASSUME RandAssumption == Rand \in [Key -> [Hash -> 0 .. RandMax - 1]]

TableSize(tbl_size) == IF tbl_size = 0 THEN 1 ELSE tbl_size

\* (long unsigned int)(rand()/(double)RAND_MAX * table_size)
Cell(k, i, size) == (Rand[k][i] * size) \div RandMax

CellsOf(k, size) == {Cell(k, i, size) : i \in Hash}

\* how many of k's hash functions meet in cell c: the loop visits c that often
Hits(k, c, size) == Cardinality({i \in Hash : Cell(k, i, size) = c})

NewTable(tbl_size, elem_size) ==
    [c \in IF elem_size = 0 THEN {} ELSE 0 .. TableSize(tbl_size) - 1 |-> 0]

Contains(t, k, size) == DOMAIN t # {} /\ \A c \in CellsOf(k, size) : t[c] # 0

----------------------------------------------------------------------------
\* bloom_filter: a cell is 0, 1 (one hit) or 2 (several)

\* mutant: a second hit is not told from a first one
BfInsert_OneValue(t, k, size) ==
    [c \in DOMAIN t |-> IF c \in CellsOf(k, size) THEN 1 ELSE t[c]]

BfInsert(t, k, size) ==
    [c \in DOMAIN t |->
        LET m == Hits(k, c, size)
        IN  IF m = 0 THEN t[c] ELSE IF t[c] = 0 /\ m = 1 THEN 1 ELSE 2]

\* mutant: the cell before each of the key's cells is cleared
BfRemove_OffByOne(t, k, size) ==
    [c \in DOMAIN t |-> IF c + 1 \in CellsOf(k, size) THEN 0 ELSE t[c]]

BfRemove(t, k, size) ==
    [c \in DOMAIN t |-> IF c \in CellsOf(k, size) THEN 0 ELSE t[c]]

\* counting_bloom_filter: ++ wraps at the byte, -- stops at zero
\* mutant: cells that several hash functions share are counted once
CbfInsert_Once(t, k, size) ==
    [c \in DOMAIN t |->
        (t[c] + IF c \in CellsOf(k, size) THEN 1 ELSE 0) % (CellMax + 1)]

\* mutants: a counter is unbounded, or one value narrower
CbfInsert_Unbounded(t, k, size) ==
    [c \in DOMAIN t |-> t[c] + Hits(k, c, size)]
CbfInsert_Narrow(t, k, size) ==
    [c \in DOMAIN t |-> (t[c] + Hits(k, c, size)) % CellMax]

CbfInsert(t, k, size) ==
    [c \in DOMAIN t |-> (t[c] + Hits(k, c, size)) % (CellMax + 1)]

\* mutant: the counter is cleared, as bloom_filter::remove does
CbfRemove_Clears(t, k, size) ==
    [c \in DOMAIN t |-> IF c \in CellsOf(k, size) THEN 0 ELSE t[c]]

CbfRemove(t, k, size) ==
    [c \in DOMAIN t |->
        IF t[c] <= Hits(k, c, size) THEN 0 ELSE t[c] - Hits(k, c, size)]
============================================================================
