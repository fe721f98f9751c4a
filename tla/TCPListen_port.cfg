SPECIFICATION Spec
CONSTANTS
    Fds = {f1, f2, f3}
    Peers = {p1, p2}
    INVALID = INVALID
INVARIANTS
    ListensOnConfiguredPort
