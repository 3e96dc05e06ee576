SPECIFICATION LiveSpec
CONSTANTS
    PageSize = 2
    PatSupported = TRUE
    Fanout = 3
    TableFrames = {2, 3, 4, 5, 6, 7, 8, 9, 10, 11, 12}
    BootMappings <- HhdmThenText
    HeapPages = {47, 48, 49, 50, 51}
    DataFrames = {20, 21}
    CallerFlags <- HeapFlags
    MapSizes = {2, 3}
    UnmapSizes = {2, 4, 8}
PROPERTY ErrorPathEnds
CHECK_DEADLOCK FALSE
