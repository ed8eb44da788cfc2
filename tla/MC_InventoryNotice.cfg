SPECIFICATION Spec
CONSTANTS
    portal1 = portal1
    portal2 = portal2
    k1 = k1
    k2 = k2
    None = None
    Portals <- OnePortal
    Pages <- OnePage
    Ttl = 1
    MaxTokens = 1
    MaxAttempts = 3
    MaxPosts = 1
    MaxTime = 0
    MaxCrashes = 0
PROPERTY
    FailedRefreshKeepsResult
CHECK_DEADLOCK FALSE
