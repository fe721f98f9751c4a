SPECIFICATION Spec
CONSTANTS
    name = name
    port = port
    salt = salt
    NAME = NAME
    empty = empty
    text = text
    Objects = {m1, m2}
    Spellings = {name, NAME, port, salt}
    Keys = {name, port, salt}
    Normal <- MCNormal
    Values = {empty, text}
    Default = empty
    Absent = Absent
INVARIANTS
    IndexConsistent
PROPERTIES
    ImplementsOrderedMap
