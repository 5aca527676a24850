\* Loading, moves and rebuilds with two next hops; the third key fits neither
\* quota, so one key stays outside the table.
SPECIFICATION Spec
CONSTANTS
    k1 = k1  k2 = k2  k3 = k3  k4 = k4
    Key <- MCKey
    Hop <- MCHop
    NoHop = NoHop
    Hash <- MCHash
    RandMax = 6
    Rand <- MCRand
    CellMax = 8
    Count <- MCCount
    TotalTableSize = 6
    Total = 2
INVARIANTS CounterExact CbfNoFalseNegative BfExactWhileLoading
PROPERTIES BfLossNeedsCollision RebuildIsExact CoverSpec
