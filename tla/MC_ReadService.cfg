SPECIFICATION ReadSpec
CONSTANTS
    r1 = r1
    p1 = p1
    p2 = p2
    v1 = v1
    c1 = c1
    Bare = Bare
    Mixed = Mixed
    None = None
    Versions <- OneVersion
    ChangesOf <- Same
    Malformed <- NoVersion
    Contents <- OneContent
    Runs <- OneRun
    PlanIds <- TwoPlans
    Ttl = 1
    MaxTime = 0
    MaxDeps = 2
    MaxEdits = 1
    MaxKills = 1
SYMMETRY Symmetry
INVARIANTS
    ReportIsNotOlder
    UndisturbedReportIsExact
    DriftHasACause
CHECK_DEADLOCK FALSE
