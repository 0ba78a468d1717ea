SPECIFICATION Spec
CONSTANTS
    Op = {o1, o2, o3}
    Address = {o3}
    Holder = {o1, o2, o3}
    BUFFER_SIZE = 2
    POOL_SIZE = 1
    GrowMin = 1
    Lengths = {1, 2}
    Cells = 2
SYMMETRY Permuted
INVARIANTS GetZeroed ReadSeesWrites SyncDurable
CHECK_DEADLOCK FALSE
