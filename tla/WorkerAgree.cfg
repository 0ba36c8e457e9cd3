SPECIFICATION QSpec
CONSTANTS
    IP = {a, b}
    ItemId = {i1, i2, i3, i4}
    NULL = NULL
    MonitorThreshold = 80
    BlockThreshold = 90
    CacheAge = 2
    RecheckInterval = 3
    BlockTTL = 7
    Scores = {79, 80, 90}
    DryRunModes = {FALSE}
    OriginExposed = TRUE
    Rotates = TRUE
    SlowRuns = FALSE
    Faults = {"abuse"}
    MaxFaults = 2
    MaxTime = 8
SYMMETRY Symmetry
INVARIANTS
    IdleAgreement
    AgreeInv
    ScheduleInv
PROPERTIES
    QueriesAreSpaced
    AskedOncePerRun
    KeepsTheBook
    RunsClearExpired
