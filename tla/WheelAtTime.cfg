SPECIFICATION FairWheelSpec
CONSTANTS
    num_slots = 3
    resolution_ms = 2
    MaxTimers = 1
    MaxTime = 13
PROPERTY ExpiresAtTime
CHECK_DEADLOCK FALSE
