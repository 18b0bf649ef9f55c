SPECIFICATION Spec
CONSTANTS
    all = all
    range = range
    host = host
    neighbour = neighbour
    Prefixes <- MCPrefixes
    Bits <- MCBits
    Covers <- MCCovers
    FullBits = 2
    Widths <- MCWidths
    MaxEntries = 3
    Snapshots <- MCSnapshots
    EndOfTime = 2
INVARIANTS WideIndexExact CoveredIsFound
PROPERTIES OperatorsBansOutlive
CHECK_DEADLOCK FALSE
