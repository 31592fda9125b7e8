SPECIFICATION GetsFairSpec
CONSTANTS
    Chars = {"a", "b"}
    MaxKey = 2
    Limit = 2
INVARIANTS LineIntact PasswordHidden KeysInBounds
PROPERTIES GetsReturns
