SPECIFICATION Spec
CONSTANTS
    Packets <- MCPackets
    Configs <- MCConfigs
    HashOf <- MCHashOf
    MaxPairs = 3
INVARIANTS NoDangling RepliesReturn DropsExplained
