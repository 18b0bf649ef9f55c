SPECIFICATION Spec
CONSTANTS
    Keys = {k1, k2}
    Escalation <- LadderToPermanent
    DefaultBan = 2
    Decay = 2
    Idle = 1
    MaxEntries = 2
    Horizon = 20
    Lag = 0
    Seeds <- SomeSeeds
    EndOfTime = 7
PROPERTIES KeepsPromise SweepKeepsLadder WindowOnlyGrows
SYMMETRY Symmetry
CHECK_DEADLOCK FALSE
