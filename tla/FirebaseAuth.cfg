SPECIFICATION AuthSpec
CONSTANTS
    Emails = {ann, bob}
    Calls = {c1, c2}
    NoUser = NoUser
    MaxRestarts = 1
    MaxBacklog = 2
INVARIANTS
    AuthConsistent
    KeychainHoldsSession
    ObserversCatchUp
    NoticeBeforeReply
CHECK_DEADLOCK FALSE
