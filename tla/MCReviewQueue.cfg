SPECIFICATION BusySpec
CONSTANTS
    i1 = i1
    w1 = w1
    w2 = w2
    None = None
    Items <- OneItem
    Workers <- TwoWorkers
    MaxAttempts = 2
    MaxEvents = 2
INVARIANTS LeaseSeparatesWorkers WorkerDecisionHasGround
PROPERTIES DecidedStaysDecided EveryItemDecided
CHECK_DEADLOCK FALSE
