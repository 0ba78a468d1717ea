SPECIFICATION FairSpec
CONSTANTS
    Op = {o1, o2, o3}
    Address = {o1}
    Entries = 1
    Driver = {"cpu", "block_on"}
    MaxWakes = 1
INVARIANTS TypeOK  IoNoLostWake
PROPERTIES KeepsPromise IoDelivered
CHECK_DEADLOCK FALSE
