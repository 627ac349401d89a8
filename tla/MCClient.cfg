SPECIFICATION Spec
CONSTANTS
    Names = {a, b}
    Periods = {p,q}
    Values = {v}
    Off = Off
    MaxClientWatches = 2
    MaxPendingLines = 2
    None = None
    MaxConnections = 2
    MaxCalls = 3
SYMMETRY MCSymmetry
CHECK_DEADLOCK FALSE
INVARIANTS
    TypeOK
    RememberedIsTold
    OrderIsKept
    EveryCallIsSomewhere
    NoEventLeaks
