SPECIFICATION ServiceByFirst
CONSTANTS
    Emails = {ann, bob}
    Calls = {c1, c2}
    FirstCall = c1
    FirstEmail = ann
    NoUser = NoUser
    NoEngine = NoEngine
    MaxRestarts = 1
    MaxBacklog = 1
    MaxOutstanding = 2
    Operations = {"register", "signIn", "signOut"}
INVARIANT
    ServiceConsistent
PROPERTIES
    OrphansStayOrphans
    KeepsPromise
    EveryCallAnswered
CHECK_DEADLOCK FALSE
