SPECIFICATION FairSpec
CONSTANTS
    r1 = r1
    w1 = w1
    w2 = w2
    q1 = q1
    None = None
    Rules <- OneRule
    Workers <- TwoWorkers
    Requests <- OneRequest
    Window = 2
    Leads <- OneOlder
    LeaseTicks = 1
    Intervals = {1}
    RetryDelay = 1
    BatchLimit = 2
    MaxTime = 4
    MaxPatches = 1
    MaxCrashes = 1
    MaxFaultTime = 2
INVARIANTS LiveClaimIsHeld ScheduleWithinWindow
PROPERTIES ImplementsFencedSlot RuleRetires
CHECK_DEADLOCK FALSE
