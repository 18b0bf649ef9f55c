SPECIFICATION Spec
CONSTANTS
    s1 = s1
    s2 = s2
    net = net
    Requests = {r1, r2}
    Sources <- MCSources
    Ranges <- MCRanges
    RangeOf <- MCRangeOf
    Protected = {}
    Escalation <- MCRungs
    DefaultBan = 1
    Decay = 1
    MinIdle = 1
    MaxEntries = 9
    Horizon = 9
    Threshold = 2
    Window = 3
    UnbanKeys <- NoKeys
    ManualBans <- NoKeys
    MaxToggles = 1
    Patience = 1
    EndOfTime = 3
SYMMETRY Symmetry
INVARIANTS ServingIsBanned
PROPERTIES OneBanPerBurst SweepKeepsCounts RealTripsAreEarned
CHECK_DEADLOCK FALSE
