SPECIFICATION Spec
CONSTANTS
    portal1 = portal1
    portal2 = portal2
    k1 = k1
    k2 = k2
    None = None
    Portals <- TwoPortals
    Pages <- TwoPages
    Ttl = 1
    MaxTokens = 1
    MaxAttempts = 3
    MaxPosts = 2
    MaxTime = 1
    MaxCrashes = 1
SYMMETRY Symmetry
INVARIANTS
    SuccessIsKept
    UnavailableOnlyByRace
    UnflaggedIsCurrent
    OneRefreshPerSnapshot
CHECK_DEADLOCK FALSE
