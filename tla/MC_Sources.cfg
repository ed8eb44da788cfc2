SPECIFICATION SourcesSpec
CONSTANTS
    None = None
    a1 = a1
    p1 = p1
    v1 = v1
    v2 = v2
    Assets <- OneAsset
    Profiles <- OneProfile
    Revisions <- TwoRevisions
    MaxRegistryEdits = 2
    MaxCommands = 2
    f1 = f1
    f2 = f2
    Files <- TwoFiles
    Torn = Torn
    Old = Old
    MaxEdits = 1
    MaxDamages = 1
    MaxStops = 1
    t1 = t1
    t2 = t2
    q1 = q1
    q2 = q2
    Portals <- TwoPortals
    Nothing = Nothing
    NoItems = NoItems
    MaxDocuments = 2
    MaxOwnerWrites = 2
    Shared <- TwoPlaces
    Targets <- TwoTargets
    Directories <- SomeDirectories
    Filters <- SomeFilters
    Limits <- SmallLimits
SYMMETRY Symmetry
INVARIANTS
    OneQuietLoadIsEnough
    DeployedIsDesired
    VerifiedIsBuilt
    SnapshotSurvives
    RollbackRestoresTheCapture
    StatusIsOfTheFiles
    StartsKeepDocuments
CHECK_DEADLOCK FALSE
