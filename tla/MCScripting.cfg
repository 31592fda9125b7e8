CONSTANTS
    Scripts = {s1}
    Http = http
    Commands <- MCCommands
    TimeOut = 2
    PacketLen = 2
    Todo = 2
    MaxLines = 1
    MaxActs = 2
    MaxText = 3
SPECIFICATION FairSpec
INVARIANTS TypeOK ReplyIsOwn QuitStops
PROPERTIES WaitsEnd QuitEnds
CHECK_DEADLOCK FALSE
