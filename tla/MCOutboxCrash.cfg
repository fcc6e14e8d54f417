SPECIFICATION FairSpec
CONSTANTS
    e1 = e1
    e2 = e2
    e3 = e3
    w1 = w1
    w2 = w2
    Event <- TwoEvent
    Worker <- OneWorker
    Unknown <- NoUnknown
    MaxAttempts = 2
    BatchSize = 2
    MaxFaults = 1
    NoEvent = NoEvent
PROPERTIES RecoversFromCrash
CHECK_DEADLOCK FALSE
