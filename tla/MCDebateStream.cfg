SPECIFICATION DebateFairSpec
CONSTANTS
    s1 = s1
    s2 = s2
    d1 = d1
    i1 = i1
    i2 = i2
    None = None
    Streamed <- TwoStreams
    Decided <- OneDecided
    Interrupts <- TwoInterrupts
    About <- AllAboutFirst
    Rounds = 2
    MaxMishaps = 1
INVARIANTS OneOptionPerRun OutcomeIsWhole AnnouncedIsCommitted
PROPERTY StreamsEnd
CHECK_DEADLOCK FALSE
