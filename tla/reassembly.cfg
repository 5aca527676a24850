SPECIFICATION Spec
CONSTANTS
    Datagrams <- MCDatagrams
    Mtus <- MCMtus
    FreshIds = {5}
    NMAP = 2
    HIMEM = 12
    Start = 8
    Steps = {2, 5}
    MaxTime = 15
INVARIANTS CheckPasses EmittedAsSent WholeIsEmitted PartialAsReceived
CHECK_DEADLOCK FALSE
