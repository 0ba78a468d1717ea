SPECIFICATION FairWheelSpec
CONSTANTS
    num_slots = 3
    resolution_ms = 2
    MaxTimers = 2
    MaxTime = 13
INVARIANT OnePlace
PROPERTIES NotEarly NotLate TimersFire
CHECK_DEADLOCK FALSE
