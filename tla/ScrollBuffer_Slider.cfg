SPECIFICATION Spec
CONSTANTS
    LineSize0 = 4
    LineSizeMax = 8
    LineBytes = 3
    Slack = 7
    Cols = 2
    Rows = {1, 2}
    TabStop = 2
    CharBytes = {1, 2}
    MaxLine = 3
INVARIANT ScrollbarHasText
