SPECIFICATION Spec
CONSTANTS
    Conns = {c1, c2}
    None = None
INVARIANTS
    ClientIPIsItsAddress
