SPECIFICATION Spec
CONSTANTS
    r1 = r1
    r2 = r2
    p1 = p1
    p2 = p2
    p3 = p3
    v1 = v1
    v2 = v2
    bad = bad
    c1 = c1
    c2 = c2
    Bare = Bare
    Mixed = Mixed
    None = None
    Versions <- MCVersions
    ChangesOf <- MCChangesOf
    Malformed <- NoVersion
    Contents <- MCContents
    Runs <- OneRun
    PlanIds <- TwoPlans
    Ttl = 1
    MaxTime = 1
    MaxDeps = 3
    MaxEdits = 0
    MaxKills = 1
SYMMETRY Symmetry
INVARIANTS
    SnapshotIsPreimage
    RollbackRestores
    RollbackLineage
CHECK_DEADLOCK FALSE
