SPECIFICATION BusySpec
CONSTANTS
    r1 = r1
    r2 = r2
    r3 = r3
    a = a
    b = b
    d = d
    e = e
    None = None
    Runs <- ThreeRuns
    Items <- FourItems
    Requests <- OverlappingOrApart
    InlineRuns <- Third
    ArchiveFails <- Shared
    MaxAttempts = 2
    MaxCrashes = 1
INVARIANTS EarlyCloseIsARestaging UnextractedIsARetry
PROPERTIES AnnouncedKnowledgeIsCommitted RowsOnlyAdvance KnowledgeClosesFinishedRuns QueuedRunsFinish
CHECK_DEADLOCK FALSE
