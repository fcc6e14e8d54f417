CONSTANTS
    Request = {r1}
    Purger = {p1}
    Ops <- Permanent
    MaxKeys = 1
    MaxFaults = 1
SPECIFICATION Spec
CHECK_DEADLOCK FALSE
INVARIANT TombstoneEmpty
