SPECIFICATION Spec
CONSTANTS
    LineSize0 = 4
    LineSizeMax = 8
    LineBytes = 3
    Slack = 9
    Cols = 3
    Rows = {2}
    TabStop = 2
    CharBytes = {3}
    MaxLine = 9
INVARIANT CursorInBuffer
