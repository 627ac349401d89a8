SPECIFICATION Spec
CONSTANTS
    Fields = {"ap.heading"}
    MaxWatches = 2
    Reals = {0, 1}
    Texts = {"compass", "gps"}
    DefaultText = "compass"
    MaxTime = 1
    None = None
    Free = Free
    UnknownName = Unknown
    WatchRequests <- MCHeadingRequest
INVARIANT
    ControlChangesAreQueued
