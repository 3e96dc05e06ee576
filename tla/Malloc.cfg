SPECIFICATION LiveSpec
CONSTANTS
    PageSize = 16
    WordSize = 2
    HeapBase = 16
    HeapTop = 96
    Frames = {1, 2, 3, 4, 5, 6}
    TableSlots = 2
    Requests = {3, 7, 20, 40}
INVARIANTS
    PoolInv
    BlocksDisjoint
    BackedOnce
PROPERTY RefillEnds
\* The machine halts on a fault, and nothing is modelled after a torn node.
CHECK_DEADLOCK FALSE
