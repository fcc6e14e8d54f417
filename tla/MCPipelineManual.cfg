SPECIFICATION PipelineSpec
CONSTANTS
    v1 = v1
    v2 = v2
    r1 = r1
    r2 = r2
    s1 = s1
    u1 = u1
    j1 = j1
    j2 = j2
    w1 = w1
    w2 = w2
    Version <- MCVersion
    Run <- MCRun
    Schedule <- MCSchedule
    Requester <- MCRequester
    Scheduler <- OneScheduler
    Worker <- OneWorker
    MaxAttempts = 2
    MaxFaults = 0
    MaxExpiries = 0
    NoVersion = NoVersion
    NoRun = NoRun
    NoSchedule = NoSchedule
    Graphs <- OneAndTwoOutputs
    MaxFailures = 0
    Parts = {"graph"}
INVARIANTS RunsAsInManual
CHECK_DEADLOCK FALSE
