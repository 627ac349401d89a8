SPECIFICATION FairSpec
CONSTANTS
    Headings <- MCHeadings
    HeadingCommands <- MCHeadingCommands
    ServoCommands <- MCServoCommands
INVARIANTS
    TypeOK
    ShownIsSent
PROPERTIES
    SteersShortestWay
    OffIsReleased
    DriveFollowsSwitch
