SPECIFICATION CredFairSpec
CONSTANTS
    People = {ann, bob}
    NoUser = NoUser
    NoEngine = NoEngine
    MaxChanges = 3
    MaxFailures = 1
INVARIANTS
    CredConsistent
    OpenForSyncUser
PROPERTY
    StartingEnds
CHECK_DEADLOCK FALSE
