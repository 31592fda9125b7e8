SPECIFICATION Spec
CONSTANTS
    Reader = reader
    Users = {ui}
    Copiers = {}
    NoOne = NoOne
    MaxSessions = 1
INVARIANT SessionProtected
CHECK_DEADLOCK FALSE
