SPECIFICATION FairSpec
CONSTANTS
    None = None
    AfterRace = FALSE
    Hosts = {h0, h1, h2}
    FirstHost = h0
    Threads = {t1, t2}
    Callers = {ui, script}
    Kinds <- AllKinds
INVARIANTS ReaderUsesPresentHost OnlyRacesAbort IdleWhenNotLive
PROPERTIES OneSessionAtATime DisconnectCompletes
CHECK_DEADLOCK FALSE
