SPECIFICATION FairSpec
CONSTANTS
    Sizes = {0, 4}
    Mod = 3
    ResendAfter = 2
    AbortAfter = 4
    Timely = TRUE
    OneByOne = TRUE
    MaxFiles = 2
    MaxLine = 2
INVARIANTS ReceivedInOrder
PROPERTIES ImplementsTransfer TransferEnds
CHECK_DEADLOCK FALSE
