SPECIFICATION DBSpec

CONSTANTS
    o1 = o1
    o2 = o2
    h1 = h1
    h2 = h2
    d1 = d1
    d2 = d2
    k1 = k1
    k2 = k2
    Objects = {o1, o2}
    Handles = {h1, h2}
    NULL = NULL
    Queries = {"all", "insert"}
    Names = {"id", "value"}
    Versions = {"both", "one"}
    ResultColumns <- MCColumns
    Databases = {d1, d2}
    Connections = {k1, k2}
SYMMETRY Symmetric
VIEW View

INVARIANTS
    DBTypeOK
    ConnectionOutlivesUse
    NoConnectionLost
    CopiesFollow
    DoneIsFinal
