CONSTANTS
    Conns = {1, 2}
    Remote = {2}
    Halves = {1}
    MaxItems = 2
    MaxClosed = 0
    Lower = {1}
SPECIFICATION Spec
INVARIANT AnswerArrives
CHECK_DEADLOCK FALSE
