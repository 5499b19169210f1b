SPECIFICATION FairSpec
CONSTANTS
    w1 = w1
    w2 = w2
    r1 = r1
    None = None
    Workers <- TwoWorkers
    Requests <- OneRequest
    Count = 2
    On <- OnSecond
    MaxTurns = 2
INVARIANT EachOverlapIsALoss
PROPERTIES ImplementsTimeline DueIsServed
CHECK_DEADLOCK FALSE
