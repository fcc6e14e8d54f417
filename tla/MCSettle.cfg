SPECIFICATION SettleSpec
CONSTANTS
    Request = {r1, r2}
    Purger = {p1, p2}
    Ops <- NoRestore
    MaxKeys = 2
    MaxFaults = 2
    DatasetFaults = 1
    Job = {f, s1, s2}
    Fill = f
    SyncJob = {s1, s2}
    Caller = {c}
    MaxAttempts = 2
    NoJob = NoJob
CHECK_DEADLOCK FALSE
INVARIANTS TombstoneEmpty TablesAccounted
PROPERTIES TrashIsEmptied JobsSettle
