SPECIFICATION FairSpec
CONSTANTS
    Calls = {c1, c2}
    Screens = {s1, s2, s3, s4, s5}
    NoScreen = NoScreen
INVARIANT
    FlowConsistent
PROPERTIES
    HomeRootStays
    RegistrationLeadsHome
CHECK_DEADLOCK FALSE
