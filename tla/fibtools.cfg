\* All FIBs of up to three lines, with repeated and misaligned prefixes and default routes
\* among them (flat: aligned ones), tables of one to four cells, and traces of two packets.
SPECIFICATION MCSpec
CONSTANTS
    Key <- MCKey
    Hash <- MCHash
    RandMax = 4
    Rand <- MCRand
    CellMax = 255
    W = 2
    NextHop <- Hops
    MemSize = 7
    MaxLines = 3
    MaxPackets = 2
INVARIANTS NoneMissing TotalsAgree FibsRewritten
CHECK_DEADLOCK FALSE
