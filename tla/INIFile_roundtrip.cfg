SPECIFICATION INISpec
CONSTANTS
    s1 = s1
    s2 = s2
    oddSection = oddSection
    k1 = k1
    oddKey = oddKey
    v1 = v1
    padded = padded
    oddValue = oddValue
    Trim <- MCTrim
    NoName = NoName
    HeaderAs <- MCHeaderAs
    KeyAs <- MCKeyAs
    ReplacedAs <- MCReplacedAs
    PlainSections <- MCPlainSections
    PlainKeys <- MCPlainKeys
    PlainValues <- MCPlainValues
    InitialFiles <- MCFiles
    Sections = {s1, s2, oddSection}
    Keys = {k1, oddKey}
    Values = {v1, padded, oddValue}
    MaxLines = 4
    MaxEdits = 2
    MaxOldLines = 4
PROPERTIES
    RoundTrip
    HandworkKept
