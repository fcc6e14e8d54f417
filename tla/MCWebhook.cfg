SPECIFICATION FairSpec
CONSTANTS
    e1 = e1
    e2 = e2
    e3 = e3
    Event <- ThreeEvents
    First = e1
    Workers = 2
    QueueAttempts = 2
    MaxAttempts = 2
    MaxRetries = 2
    MaxFaults = 1
INVARIANTS StatusTruthful OpenIsQueued
PROPERTIES SettledIsFinal DeliverySettles
CHECK_DEADLOCK FALSE
