SPECIFICATION Spec
CONSTANTS
    plan1 = plan1
    plan2 = plan2
    k1 = k1
    k2 = k2
    None = None
    Plans <- MCPlans
    ExpiresAt <- MCExpiresAt
    Pages <- MCPages
    Ttl = 1
    MaxTokens = 1
    MaxTime = 2
    MaxPosts = 3
    MaxRestarts = 1
SYMMETRY Symmetry
INVARIANTS
    FormsAreUsedOnce
    DecisionsAreAuthorised
    RecordedIsMine
    AcceptedInTime
CHECK_DEADLOCK FALSE
