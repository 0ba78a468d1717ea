SPECIFICATION FairFutureSpec
CONSTANTS
    Future = {"sleep", "timeout", "periodic", "cancellable"}
    Driver = {"woken", "repolled"}
    Length = 2
    Period = 2
    MaxTime = 9
INVARIANTS NeverEarly TicksExact
PROPERTIES SleepReturns CancelReturns
CHECK_DEADLOCK FALSE
