SPECIFICATION Spec
CONSTANTS
    NEntities = 2
    Artifacts = {11}
    v1 = v1
    v2 = v2
    t1 = t1
    t2 = t2
    Values = {v1, v2}
    TextOf <- MCTextOf
    Words = {}
    InText <- MCInText
    InMeta <- MCInMeta
    PageLimit = 2
    ReportLimit = 2
    IndexLimit = 2
    Calls = {k1, k2}
    MaxWrites = 3
    MaxFaults = 1
SYMMETRY Symmetry
INVARIANTS
    RecordsAreHistory
    CalmIndexIsExact
    StalenessIsReported
    BundleIsCurrent
    CalmBundleIsComplete
CHECK_DEADLOCK FALSE
