SPECIFICATION FairSpec
CONSTANTS
    MaxCallbacks = 2
    Delays = {1, 2}
    Free = Free
    MaxHandles = 3
    MaxTime = 3
    MaxDepth = 2
INVARIANTS
    TypeOK
    HandlesAreUnique
    OncePerBeat
    NoBurst
    NoDrift
PROPERTIES
    SettledIsSilent
    TimersFire
