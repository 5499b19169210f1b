SPECIFICATION FairSpec
CONSTANTS
    p1 = p1
    p2 = p2
    q1 = q1
    None = None
    Pollers <- TwoPollers
    Requests <- OneRequest
    Refresh = 1
    MaxNews = 4
    MaxMishaps = 1
INVARIANTS SeenIsRecorded EachBreakIsALapse EachForgottenHasCause
PROPERTIES NewsIsSeen
