SPECIFICATION Spec
CONSTANTS
    LineSize0 = 4
    LineSizeMax = 8
    LineBytes = 2
    Slack = 4
    Cols = 1
    Rows = {1, 2}
    TabStop = 2
    CharBytes = {1, 3}
    MaxLine = 3
INVARIANT CursorInLine
