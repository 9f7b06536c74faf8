SPECIFICATION RemoteInOrder
CONSTANTS
    People = {ann}
    Writes = {1, 2, 3, 4, 5}
    NoUser = NoUser
    NoEngine = NoEngine
    Handshake = Handshake
    NoToken = NoToken
    MaxRestarts = 1
    MaxQueued = 1
    MaxPendingWrites = 4
    AnswersMayBeLost = TRUE
    MaxDisruptions = 2
    MaxTroubles = 2
INVARIANTS
    ClientConsistent
    SuccessMeansApplied
    RemoteConsistent
PROPERTIES
    StoreSpec
    FailedMeansRefusedInOrder
    CurrentQueueDrains
CHECK_DEADLOCK FALSE
