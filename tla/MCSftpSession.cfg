CONSTANTS
    HostKeys <- MCHostKeys
    Tries = 2
    MaxSize = 2
    MaxFiles = 2
    MaxSessions = 2
    MaxDrops = 1
SPECIFICATION FairSpec
INVARIANTS KeyIsAccepted TypedIsForgotten TotalIsWhole
PROPERTY DisconnectEnds
CHECK_DEADLOCK FALSE
