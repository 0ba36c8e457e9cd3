SPECIFICATION FairSpec
CONSTANTS
    IP = {a, b}
    ItemId = {}
    NULL = NULL
    Clients = {a, b}
    SplitLines = TRUE
    MaxRequests = 2
    MaxFiles = 2
    Troubles = {"crash", "truncate", "tear"}
    MaxTroubles = 2
INVARIANTS
    TypeOK
    NothingSkipped
    HistoryIsNotRead
    CountedOncePerRun
    OnlyClientsAreRecorded
    CollectorInv
PROPERTIES
    KeepsPromise
    RequestsAreCounted
