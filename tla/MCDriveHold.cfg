CONSTANTS
    Request = {r1, r2}
    Purger = {p1}
    Ops <- Retained
    MaxKeys = 1
    MaxFaults = 0
SPECIFICATION Spec
CHECK_DEADLOCK FALSE
PROPERTY HeldNotPurged
