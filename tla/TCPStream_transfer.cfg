SPECIFICATION Spec
CONSTANTS
    MaxSize = 4
    StreamSize = 6
    Timeouts = {5}
    Unset = Unset
INVARIANTS
    TypeOK
    ContractUnlessCutShort
    SendInOrder
