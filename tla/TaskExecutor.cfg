SPECIFICATION ExecLiveSpec
CONSTANTS
    Immediate = {op1, op2}
    Delayed = {t1, t2}
    Terminate = terminate
    NoTask = NoTask
INVARIANTS
    ExecConsistent
    NoCallbackAfterDispose
    CancelHolds
    ExecutesBeforeDisposeOrNotAtAll
PROPERTY
    DisposeEnds
CHECK_DEADLOCK FALSE
