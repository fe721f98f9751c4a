SPECIFICATION SocketsFairSpec
CONSTANTS
    Fds = {f1, f2, f3}
    Peers = {p1, p2, p3}
    INVALID = INVALID
INVARIANTS
    DescriptorsAccounted
    ClientsKeepTheirConnections
PROPERTIES
    SocketsImplementHandshake
    EveryoneIsTaken
\* The listener may wait in accept() for ever once every peer has come.
CHECK_DEADLOCK FALSE
