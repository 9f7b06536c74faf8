SPECIFICATION GrpcFairSpec
CONSTANTS
    MaxWrites = 3
    MaxAnswers = 2
INVARIANTS
    StreamConsistent
    SafeToDestroy
PROPERTIES
    ToldAtMostOnce
    WorkerGoesOn
    EndIsNoticed
CHECK_DEADLOCK FALSE
