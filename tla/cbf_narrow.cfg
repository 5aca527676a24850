\* Two-bit counters and four keys that can all meet in one of them; a third next
\* hop without keys and tables, with which a rebuild crashes and the program stops.
SPECIFICATION Spec
CONSTANTS
    k1 = k1  k2 = k2  k3 = k3  k4 = k4
    Key <- MCKey
    Hop <- MCHop3
    NoHop = NoHop
    Hash <- MCHash
    RandMax = 6
    Rand <- MCRand
    CellMax = 3
    Count <- MCCountEmpty
    TotalTableSize = 6
    Total = 4
INVARIANTS TypeOK
PROPERTY ExactUntilWrap
CHECK_DEADLOCK FALSE
