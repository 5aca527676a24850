SPECIFICATION Spec
CONSTANTS
    B = 4
    f1 = f1  f2 = f2  f3 = f3
    Packets <- MCPackets
    TCP_SPACE = 3
    NoContext = NoContext
VIEW Contexts
PROPERTIES ExactInSync OtherFlowNeedsLostFull
