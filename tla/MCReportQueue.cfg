SPECIFICATION ReportFairSpec
CONSTANTS
    a = a
    b = b
    i = i
    w1 = w1
    w2 = w2
    Queued <- TwoRuns
    Inline <- OneInline
    Reporters <- TwoReporters
    Limit = 1
    Batch = 2
    MaxUnacked = 2
    MaxFaults = 1
INVARIANTS UnreportedHasReason OneReportPerWorker
PROPERTIES ReportsAppear
