SPECIFICATION RemoteSpec
CONSTANTS
    People = {ann}
    Writes = {w1, w2, w3, w4}
    NoUser = NoUser
    NoEngine = NoEngine
    Handshake = Handshake
    NoToken = NoToken
    MaxRestarts = 0
    MaxQueued = 0
    MaxPendingWrites = 4
    AnswersMayBeLost = TRUE
    MaxDisruptions = 1
    MaxTroubles = 1
SYMMETRY RemoteSymmetry
PROPERTY
    FailedMeansRefused
CHECK_DEADLOCK FALSE
