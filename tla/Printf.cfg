SPECIFICATION PrintfSpec
CONSTANTS
    Characters <- MCCharacters
    MaxFormat = 5
    Longs <- MCLongs
    Strings <- MCStrings
    Sizes = {1, 4}
    IntSize = 128
    LongSize = 256
    ScratchSize = 32
INVARIANTS
    NumbersReadBack
    Truncated
CHECK_DEADLOCK FALSE
