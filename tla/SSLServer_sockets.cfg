SPECIFICATION SSLSpec
CONSTANTS
    f1 = f1
    f2 = f2
    f3 = f3
    p1 = p1
    s1 = s1
    s2 = s2
    s3 = s3
    x1 = x1
    x2 = x2
    Fds = {f1, f2, f3}
    Peers = {p1}
    INVALID = INVALID
    Sessions = {s1, s2, s3}
    NULL = NULL
    Sockets = {x1, x2}
SYMMETRY Symmetric

INVARIANTS
    SSLTypeOK
    NoDescriptorLost
    SecuredStaySecured
    OnlyOverwritingLoses
PROPERTIES
    ListeningIsStable
