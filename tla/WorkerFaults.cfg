SPECIFICATION Spec
CONSTANTS
    IP = {a}
    ItemId = {i1, i2, i3, i4}
    NULL = NULL
    MonitorThreshold = 80
    BlockThreshold = 90
    CacheAge = 2
    RecheckInterval = 3
    BlockTTL = 4
    Scores = {79, 80, 90}
    DryRunModes = {TRUE, FALSE}
    OriginExposed = TRUE
    Rotates = TRUE
    SlowRuns = TRUE
    Faults = {"abuse", "rejected", "lost", "opfail", "timeout", "db", "crash", "operator"}
    MaxFaults = 3
    MaxTime = 7
SYMMETRY Symmetry
INVARIANTS
    TypeOK
    BlockHasEvidence
    ActiveHasLifecycle
    DryRunOnlyLooks
    RunInv
    DueInv
PROPERTIES
    ReleaseAfterRemoval
    TTLNeverExtended
    AddsRestOnFreshEvidence
    DeletesAreDue
