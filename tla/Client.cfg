SPECIFICATION FairSpec
CONSTANTS
    IP = {a, b}
    ItemId = {}
    NULL = NULL
    MaxRetries = 1
    PollInterval = 1
    TimeoutSeconds = 2
    PageSize = 2
    MaxRequestTime = 1
    RetryAfters = {2}
    MaxDelay = 2
    MaxCalls = 2
INVARIANTS
    TypeOK
    CallsAreBounded
    FindIsRight
    WaitIsTrue
    OneOperationPerAttempt
    ClientInv
PROPERTIES
    CallsEnd
    CallsProgress
CHECK_DEADLOCK FALSE
