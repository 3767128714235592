CONSTANTS
    c1 = c1
    c2 = c2
    w1 = w1
    w2 = w2
    o1 = o1
    Clients <- MCClients
    Workers <- MCWorkers
    Observers <- MCObservers
    MaxJobs = 3
SPECIFICATION Spec
INVARIANTS
    RunOnce
    ErrorSeenWithFailed
PROPERTIES
    RefinesService
    EveryJobFinishes
CHECK_DEADLOCK FALSE
