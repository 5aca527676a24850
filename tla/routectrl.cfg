\* Every request of up to four commands that take effect, from every table.
SPECIFICATION Spec
CONSTANTS
    W = 1
    Via = {v1, v2}
    Any = Any
    None = None
    Prefixes <- MCPrefixes
    MaxLines = 4
INVARIANT UndoNeverRefused
PROPERTY AllOrNothing
CHECK_DEADLOCK FALSE
