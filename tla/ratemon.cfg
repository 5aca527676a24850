SPECIFICATION Spec
CONSTANTS
    MAX_COUNTERS = 2
    Depth = 3
    CounterSize = 1
    StatsSize = 3
    MEMMAX_MIN = 5
    MemMaxes = {0, 5, 9}
    Passes = 2
    Whens = {0, 1}
    MaxUnaccounted = 1
    MaxTime = 3
CONSTRAINTS FewTables FewRules
INVARIANTS TreeOK MemBounded AnnoHonoured
PROPERTY ForcedFoldEnds
