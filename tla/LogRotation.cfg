SPECIFICATION FairSpec
CONSTANTS
    NULL = NULL
    IP = {a}
    ItemId = {}
    Clients = {a}
    SplitLines = FALSE
    MaxRequests = 3
    MaxFiles = 2
    Troubles = {}
    MaxTroubles = 0
PROPERTIES
    RequestsSurviveRotation
CHECK_DEADLOCK FALSE
