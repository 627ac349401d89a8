SPECIFICATION Spec
CONSTANTS
    Fields <- MCRudderFields
    MaxWatches = 2
    Reals = {0}
    Texts = {"compass", "gps"}
    DefaultText = "compass"
    MaxTime = 3
    None = None
    Free = Free
    UnknownName = Unknown
    WatchRequests <- MCRudderRequests
INVARIANT
    DueWindow
PROPERTY
    KeepsTheBook
