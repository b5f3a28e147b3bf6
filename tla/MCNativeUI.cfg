SPECIFICATION FairSpec
CONSTANTS
    Peers = {1, 2}
    Rows = 1
    Faults = {"exit", "silent", "stop"}
INVARIANTS
    OneWorker
    KickAsHost
PROPERTIES
    EndsConnection
    WaitEnds
    ShowsWhatIs
