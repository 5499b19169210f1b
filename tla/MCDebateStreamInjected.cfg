SPECIFICATION DebateSpec
CONSTANTS
    s1 = s1
    s2 = s2
    d1 = d1
    i1 = i1
    i2 = i2
    None = None
    Streamed <- OneStream
    Decided <- NoDecided
    Interrupts <- TwoInterrupts
    About <- AllAboutFirst
    Rounds = 2
    MaxMishaps = 0
INVARIANT InjectedIsInContext
CHECK_DEADLOCK FALSE
