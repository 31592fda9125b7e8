CONSTANTS
    HostKeys <- MCHostKeys
    Tries = 2
    MaxSize = 2
    MaxFiles = 2
    MaxSessions = 2
    MaxDrops = 1
SPECIFICATION FairSpec
CHECK_DEADLOCK FALSE
INVARIANT DropMeetsSession
