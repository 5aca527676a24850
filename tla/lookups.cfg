\* One of the four lookup elements, with four prefixes of 2, 2, 3 and 4 bits.
SPECIFICATION MCSpec
CONSTANTS
    W = 3
    PBits = 2
    Kick = 1
    Via = {v1, v2}
    Any = Any
    None = None
    Dead = Dead
    Prefixes <- MCPrefixes
    VportLimit = 2
    SecLimit = 1
CONSTRAINTS NoFault FewSlots
VIEW Shown
SYMMETRY Symmetric
INVARIANTS VectorOK RadixExact DirectExact DirectAccounting RangesAgree
PROPERTY TableImplemented
