SPECIFICATION Spec
CONSTANTS
    p1 = p1
    p2 = p2
    n1 = n1
    n2 = n2
    v1 = v1
    v2 = v2
    None = None
    Procs <- MCProcs
    Names <- MCNames
    Payloads <- MCPayloads
    MaxCalls = 4
    MaxOutages = 1
SYMMETRY Symmetry
INVARIANTS
    NoTornRecord
    AckedIsForever
    ListingExact
PROPERTIES
    WriteOnceSpec
CHECK_DEADLOCK FALSE
