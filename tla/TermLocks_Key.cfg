SPECIFICATION LocksFairSpec
CONSTANTS
    Window = window
    HostReader = reader
    Scripts = {}
    Workers = {}
    None = None
PROPERTY KeyPressHandled
CHECK_DEADLOCK FALSE
