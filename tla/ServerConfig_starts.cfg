SPECIFICATION Spec
CONSTANTS
    Sections <- MCSections
    Keys <- MCKeys
    Values <- MCValues
    Trim <- MCTrim
    NoName = "none"
    HeaderAs <- MCHeaderAs
    KeyAs <- MCKeyAs
    ReplacedAs <- MCReplacedAs
    PlainSections <- MCSections
    PlainKeys <- MCKeys
    PlainValues <- MCValues
    Settings <- MCSettings
    Empty = ""
    Number <- MCNumber
    UIntValues = 16
    Cut <- MCCut
    EditedFiles <- MCFiles
INVARIANTS
    UpIsConfigured
    AdministratorRules
    NothingElseTouched
