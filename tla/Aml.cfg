SPECIFICATION LiveSpec
CONSTANTS
    Images <- MCImages
    HeaderSize = 36
    Word = 65536
    MaxNodes = 4
INVARIANTS
    NamespaceInv
    ScopesNest
PROPERTIES
    LookupsStable
    ParseEnds
CHECK_DEADLOCK FALSE
