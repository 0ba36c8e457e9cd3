SPECIFICATION Spec
CONSTANTS
    IP = {a, b}
    ItemId = {}
    NULL = NULL
    MaxRetries = 1
    PollInterval = 1
    TimeoutSeconds = 2
    PageSize = 1
    MaxRequestTime = 1
    RetryAfters = {2}
    MaxDelay = 2
    MaxCalls = 2
INVARIANTS
    FindIsRight
CHECK_DEADLOCK FALSE
