SPECIFICATION Spec
CONSTANTS
    Addresses = {x, y, z}
    NoAddress = NoAddress
    Senders = {g1, g2, g3}
    Scanners = {q1, q2, q3}
    SendCap = 2
    LookupMax = 2
    CacheCap = 1
    ReportCap = 2
    AnswerTTL = 1
    FailureTTL = 2
    ReportGap = 2
    TarpitCaps <- MCCaps
    EndOfTime = 3
INVARIANTS SlotsAreExact LookupsAreExact TarpitIsExact
PROPERTIES ReportedOnce AnswersAreKept
SYMMETRY Symmetry
CHECK_DEADLOCK FALSE
