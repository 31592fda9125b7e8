SPECIFICATION GetsSpec
CONSTANTS
    Chars = {"a"}
    MaxKey = 2
    Limit = 2
INVARIANT NoPasswordEcho
