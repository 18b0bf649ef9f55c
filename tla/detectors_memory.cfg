SPECIFICATION Spec
CONSTANTS
    p1 = p1
    p2 = p2
    p3 = p3
    p4 = p4
    a1 = a1
    a2 = a2
    a3 = a3
    Items <- MCItems
    Configurations <- MCConfigurations
    Capacity <- MCCapacity
    Leak <- MCLeak
    AuthWindow = 3
    Token = 2
    Refill = 1
    Burst = 2
    MaxDistinct = 3
    Idle = 5
    MaxCalls = 5
    EndOfTime = 7
SYMMETRY MCSymmetry
INVARIANTS OnlyDistinctItemsTrip QuickScansTrip AuthWindowIsExact RateIsKept
PROPERTIES SweepKeepsDetection
CHECK_DEADLOCK FALSE
