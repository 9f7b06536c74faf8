SPECIFICATION RefreshByFirst
CONSTANTS
    Uids = {ann, bob}
    First = ann
    MaxSignIns = 2
    MaxTokens = 3
    MaxPending = 2
    MaxFailures = 2
INVARIANT
    RefreshConsistent
PROPERTY
    ComingRefreshArrives
CHECK_DEADLOCK FALSE
