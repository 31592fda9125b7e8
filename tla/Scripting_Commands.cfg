CONSTANTS
    Scripts = {s1}
    Http = http
    Commands <- AllCommands
    TimeOut = 2
    PacketLen = 2
    Todo = 2
    MaxLines = 1
    MaxActs = 2
    MaxText = 3
SPECIFICATION Spec
INVARIANTS TypeOK ReplyIsOwn QuitStops
CHECK_DEADLOCK FALSE
