SPECIFICATION FairSpec
CONSTANTS
    r1 = r1
    r2 = r2
    p1 = p1
    p2 = p2
    p3 = p3
    v1 = v1
    v2 = v2
    bad = bad
    c1 = c1
    c2 = c2
    Bare = Bare
    Mixed = Mixed
    None = None
    Versions <- OneMalformed
    ChangesOf <- OneMalformedChanges
    Malformed <- TheMalformed
    Contents <- OneContent
    Runs <- OneRun
    PlanIds <- TwoPlans
    Ttl = 1
    MaxTime = 0
    MaxDeps = 2
    MaxEdits = 1
    MaxKills = 1
PROPERTY
    MutationIsAccounted
CHECK_DEADLOCK FALSE
