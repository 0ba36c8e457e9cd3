SPECIFICATION FairSpec
CONSTANTS
    IP = {a}
    ItemId = {i1, i2, i3}
    NULL = NULL
    MonitorThreshold = 80
    BlockThreshold = 90
    CacheAge = 1
    RecheckInterval = 2
    BlockTTL = 3
    Scores = {79, 90}
    DryRunModes = {FALSE}
    OriginExposed = TRUE
    Rotates = TRUE
    SlowRuns = TRUE
    Faults = {"abuse"}
    MaxFaults = 2
    MaxTime = 5
PROPERTIES
    ExpiredBlocksEnd
    BlockIsEnforced
    ListingsGetAnEnd
    RunsEnd
