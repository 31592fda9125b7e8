SPECIFICATION LocksSpec
CONSTANTS
    Window = window
    HostReader = reader
    Scripts = {script}
    Workers = {w1, w2}
    None = None
INVARIANTS NotMovedWhileDrawn WorkersNeverDeadlock DeadlockNeedsAppend
CHECK_DEADLOCK FALSE
