SPECIFICATION FairSpec
CONSTANTS
    e1 = e1
    graph = graph
    simulation = simulation
    c1 = c1
    c2 = c2
    Events <- OneEvent
    Groups <- TwoGroups
    Consumers <- TwoProcesses
    GroupOf <- GroupEach
    MaxAttempts = 2
    BatchSize = 2
    MaxLen = 3
    MaxEntries = 8
    MaxCrashes = 1
INVARIANTS NothingLost ParkedHasRow
PROPERTIES AckAfterOutcome EventuallySettled PendingDrains
CHECK_DEADLOCK FALSE
