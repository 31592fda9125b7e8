SPECIFICATION FairSpec
CONSTANTS
    Reader = reader
    Users = {ui}
    Copiers = {copier}
    NoOne = NoOne
    MaxSessions = 2
INVARIANTS ChannelCallsSafe NothingLeftBehind
PROPERTIES DisconnectEndsSession WindowGoesOn
CHECK_DEADLOCK FALSE
