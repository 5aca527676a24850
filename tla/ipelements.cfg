SPECIFICATION MCSpec
CONSTANTS
    Slots = {a, b}
CONSTRAINT Bounded
SYMMETRY Symmetric
INVARIANT FilteredAsWritten
INVARIANT ChecksumKept
INVARIANT ComboIsChain
INVARIANT OptionsInPlace
CHECK_DEADLOCK FALSE
