SPECIFICATION QueueSpec
CONSTANTS
    People = {ann, bob}
    Writes = {w1, w2, w3}
    NoUser = NoUser
    NoEngine = NoEngine
    NoRow = NoRow
    MaxRestarts = 1
    MaxQueued = 2
    MaxPendingWrites = 2
SYMMETRY QueueSymmetry
INVARIANTS
    QueueConsistent
    OneBatchPerId
PROPERTIES
    ToldOnce
    ImplementsClient
CHECK_DEADLOCK FALSE
