CONSTANTS
    Conns = {1, 2}
    Remote = {2}
    Halves = {1}
    MaxItems = 2
    MaxClosed = 1
    Lower = {1}
SPECIFICATION Spec
INVARIANT TypeOK
CHECK_DEADLOCK FALSE
