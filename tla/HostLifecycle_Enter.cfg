SPECIFICATION Spec
CONSTANTS
    None = None
    AfterRace = FALSE
    Hosts = {h0, h1}
    FirstHost = h0
    Threads = {t1, t2}
    Callers = {ui}
    Kinds <- AllKinds
INVARIANT EnterRestarts
CHECK_DEADLOCK FALSE
