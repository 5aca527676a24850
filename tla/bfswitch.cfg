\* Three ports, two addresses, bytes of two bits. Configuration may fail and
\* a push may fail an assertion: the element then stops.
SPECIFICATION Spec
CONSTANTS
    a1 = a1  a2 = a2
    Addr <- MCAddr
    MaxBf = 3
    NOutputs = 2
    Hash <- MCHash
    Rand <- MCRand
    TableBits <- MCTableBits
    CharSize = 2
    ZeroedBits = 2
    Garbage <- MCGarbage
INVARIANTS BfCountInBounds ExaminedNeverLost
           NoneSkippedWhenCountsAgree HitExplained
CHECK_DEADLOCK FALSE
