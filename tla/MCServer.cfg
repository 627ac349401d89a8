SPECIFICATION FairSpec
CONSTANTS
    Fields <- MCPilotFields
    MaxWatches = 2
    Reals = {0, 1}
    Texts = {"compass", "gps"}
    DefaultText = "compass"
    MaxTime = 3
    None = None
    Free = Free
    UnknownName = Unknown
    WatchRequests <- MCPilotRequests
INVARIANTS
    TypeOK
    OneSlotPerField
    WatchNeverRefused
    NoLostUpdate
PROPERTIES
    OnTheBeat
    ChangesAreShown
