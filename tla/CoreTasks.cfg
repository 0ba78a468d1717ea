SPECIFICATION FairSpec
CONSTANTS
    None = None
    Task = {t1, t2}
    Client = {c1}
    NumCores = 2
    Endless = {t2}
    MsgBatch = 1
    TaskBatch = 1
    MaxPolls = 1
    MaxInbox = 1
INVARIANTS TypeOK  
PROPERTIES Lifecycle TaskPolled CoresStop JoinReturns
CHECK_DEADLOCK FALSE
