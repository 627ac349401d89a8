SPECIFICATION Spec
CONSTANTS
    Telemetry <- MCTelemetry
    Bursts <- MCBursts
    StrayBytes = {167}
    Sentences <- MCSentences
    DamageChars = {"*", "9", "b"}
    RawSamples = {65472}
    Devices = {"servo", "test"}
    Offsets = {0, 10}
    Ranges <- MCRanges
    Angles = {500}
    Unset = Unset
    NaN = NaN
    NoDevice = NoDevice
    MaxInputs = 3
    MaxFaults = 1
CHECK_DEADLOCK FALSE
INVARIANTS
    TypeOK
    ShownIsLastSaid
    NothingForged
    EngagedIsExplained
PROPERTIES
    ServoAngleHasASample
    PollKeepsTheSample
    GoodChecksumIsGenuine
