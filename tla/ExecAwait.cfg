SPECIFICATION FairSpec
CONSTANTS
    None = None
    Task = {t1, t2}
    Parked = {t1}
    MaxPolls = 1
    MaxWakers = 1
PROPERTY ReadyWakesAwaiter
CHECK_DEADLOCK FALSE
