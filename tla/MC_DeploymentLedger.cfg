SPECIFICATION FairSpec
CONSTANTS
    p1 = p1
    p2 = p2
    p3 = p3
    d1 = d1
    d2 = d2
    d3 = d3
    None = None
    Procs <- MCProcs
    Ids <- MCIds
    MaxCalls = 4
    MaxOutages = 1
INVARIANTS
    ChainIntact
    AppendedSurvives
    ReadsAreStable
PROPERTIES
    AppendOnlyLogSpec
    CallsReturn
CHECK_DEADLOCK FALSE
