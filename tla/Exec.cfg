SPECIFICATION FairSpec
CONSTANTS
    None = None
    Task = {t1, t2}
    Parked = {t1}
    MaxPolls = 2
    MaxWakers = 1
 
PROPERTIES Lifecycle TaskServed AwaitReturns
CHECK_DEADLOCK FALSE
