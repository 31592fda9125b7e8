CONSTANTS
    Scripts = {s1}
    Http = http
    Commands <- MCCommands
    TimeOut = 2
    PacketLen = 1
    Todo = 2
    MaxLines = 1
    MaxActs = 2
    MaxText = 3
SPECIFICATION Spec
INVARIANT PacketsJoin
CHECK_DEADLOCK FALSE
