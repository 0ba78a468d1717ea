SPECIFICATION Spec
CONSTANTS
    None = None
    Task = {t1, t2, t3}
    Local = {t1, t2}
    Endless = {}
    Client = {c1}
    LocalBase = 0
    Capacity = 2
    MaxSubmits = 2
    MaxCalls = 3
    MaxPolls = 2
INVARIANT TaskIdUnique
