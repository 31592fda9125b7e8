SPECIFICATION Spec
CONSTANTS
    LineSize0 = 4
    LineSizeMax = 8
    LineBytes = 2
    Slack = 4
    Cols = 2
    Rows = {1}
    TabStop = 2
    CharBytes = {1}
    MaxLine = 9
INVARIANT LineInBuffer
