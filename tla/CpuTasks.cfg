SPECIFICATION FairSpec
CONSTANTS
    None = None
    Task = {t1, t2}
    Local = {t1}
    Endless = {}
    Client = {c1}
    LocalBase = 100
    Capacity = 1
    MaxSubmits = 1
    MaxCalls = 2
    MaxPolls = 2
INVARIANTS TypeOK CancelSticks  AcceptedNotLost
PROPERTIES Lifecycle TaskServed ShutdownStops SendReturns
