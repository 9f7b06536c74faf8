SPECIFICATION ExecLiveSpec
CONSTANTS
    Immediate = {op1}
    Delayed = {t1}
    Terminate = terminate
    NoTask = NoTask
PROPERTY
    CancelledNeverRuns
CHECK_DEADLOCK FALSE
