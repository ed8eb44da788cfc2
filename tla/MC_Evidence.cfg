SPECIFICATION EvidenceSpec
CONSTANTS
    r1 = r1
    r2 = r2
    r3 = r3
    Runs <- ThreeRuns
    None = None
    MaxDirs = 2
    MaxRemovals = 1
    MaxKills = 1
    MaxNames = 3
    Links <- OneLink
    MaxChanges = 3
    MaxEdits = 2
SYMMETRY Symmetry
INVARIANTS
    RecordsAreKept
    FailedLeavesNothing
    ReadAsWritten
PROPERTY DigestIsOfTheTree
CHECK_DEADLOCK FALSE
