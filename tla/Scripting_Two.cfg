CONSTANTS
    Scripts = {s1, s2}
    Http = http
    Commands <- MCCommands
    TimeOut = 2
    PacketLen = 2
    Todo = 2
    MaxLines = 1
    MaxActs = 2
    MaxText = 3
SPECIFICATION Spec
INVARIANT OneScriptRuns
CHECK_DEADLOCK FALSE
