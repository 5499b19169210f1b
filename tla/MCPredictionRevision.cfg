SPECIFICATION BusySpec
CONSTANTS
    MaxAttempts = 2
    Limit = 1
    MaxNews = 1
    MaxJobs = 2
    MaxSeries = 1
    MaxFaults = 1
INVARIANTS OnlyRequestsFork NothingForgotten
PROPERTY RevisionJobsEnd
CHECK_DEADLOCK FALSE
