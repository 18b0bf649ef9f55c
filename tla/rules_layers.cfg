SPECIFICATION RulesSpec
CONSTANTS
    Sections <- MCSections
    Values <- MCValues
    Invalid <- MCInvalid
    Deployments <- MCTwo
    Foreign = TRUE
    Blocks = 2
    MaxReloads = 1
    MaxSwitches = 1
    MaxEdits = 2
    MaxRestarts = 1
INVARIANTS EditsStayInForce SavedEditsAreRestored
PROPERTIES RulesConverge
CHECK_DEADLOCK FALSE
