SPECIFICATION FairSpec
CONSTANTS
    Names <- MCNames
    Reals <- MCReals
    ClientValues = {75}
    ServerValues = {75}
    Cuts <- MCCuts
    Off = Off
    None = None
    Free = Free
    MaxClientWatches = 1
    MaxPendingLines = 2
    MaxWatches = 1
    MaxConnections = 2
    MaxCalls = 2
    MaxUnread = 1
CHECK_DEADLOCK FALSE
INVARIANTS
    TypeOK
    RememberedIsServed
    NothingLingers
    MirrorIsGenuine
PROPERTIES
    MirrorConverges
