SPECIFICATION Spec
CONSTANTS
    IP = {a, b}
    ItemId = {i1, i2, i3, i4}
    NULL = NULL
    MonitorThreshold = 80
    BlockThreshold = 90
    CacheAge = 1
    RecheckInterval = 2
    BlockTTL = 3
    Scores = {79, 90}
    DryRunModes = {FALSE}
    OriginExposed = TRUE
    Rotates = TRUE
    SlowRuns = FALSE
    Faults = {"lost", "timeout", "crash", "operator"}
    MaxFaults = 2
    MaxTime = 3
SYMMETRY Symmetry
INVARIANTS
    ItemsAreOwn
    ListInv
PROPERTIES
    RunsProgress
