\* A blank line within a request.
SPECIFICATION FairSpec
CONSTANTS
    W = 1
    Via = {v1, v2}
    Any = Any
    None = None
    Prefixes <- MCPrefixes
    MaxLines = 4
PROPERTY CtrlEnds
CHECK_DEADLOCK FALSE
