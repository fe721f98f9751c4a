SPECIFICATION FairSpec

CONSTANTS
    c1 = c1
    c2 = c2
    Conns = {c1, c2}
    None = None
ACTION_CONSTRAINT InOrder

INVARIANTS
    TypeOK
    LockDiscipline
    FlagSurvivesUpdate
PROPERTIES
    ImplementsHandshake
    ListenerComesBack
    LockIsReleased
