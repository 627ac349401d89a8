SPECIFICATION Spec
CONSTANTS
    Fields <- MCPilotFields
    MaxWatches = 2
    Reals = {0}
    Texts = {"compass", "gps"}
    DefaultText = "compass"
    MaxTime = 1
    None = None
    Free = Free
    UnknownName = Unknown
    WatchRequests <- MCNegativeRequests
INVARIANT
    WatchesAreQueued
