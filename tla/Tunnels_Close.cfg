CONSTANTS
    Conns = {1, 2}
    Remote = {2}
    Halves = {1}
    MaxItems = 2
    MaxClosed = 2
    Lower = {1}
SPECIFICATION Spec
CHECK_DEADLOCK FALSE
INVARIANT OnlyThatTunnel
