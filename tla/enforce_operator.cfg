SPECIFICATION Spec
CONSTANTS
    s1 = s1
    s2 = s2
    net = net
    Requests = {r1, r2}
    Sources <- MCOne
    Ranges <- MCRanges
    RangeOf <- MCRangeOf
    Protected = {}
    Escalation <- MCTimed
    DefaultBan = 1
    Decay = 1
    MinIdle = 1
    MaxEntries = 9
    Horizon = 9
    Threshold = 2
    Window = 1
    UnbanKeys <- MCOne
    ManualBans <- MCManual
    MaxToggles = 0
    Patience = 1
    EndOfTime = 3
SYMMETRY Symmetry
INVARIANTS ServingIsBanned
PROPERTIES OperatorsBanStands
CHECK_DEADLOCK FALSE
