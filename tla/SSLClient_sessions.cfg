SPECIFICATION SSLFairSpec
CONSTANTS
    Fds = {f1, f2, f3}
    INVALID = INVALID
    MaxAddresses = 2
    Sessions = {s1, s2}
    NULL = NULL
INVARIANTS
    SSLTypeOK
    NothingLeaked
    TrueMeansSecured
    SessionsAreUsable
    NoSessionLost
PROPERTIES
    OthersStayOpen
    ConnectReturns
