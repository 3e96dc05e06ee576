SPECIFICATION LiveSpec
CONSTANTS
    Contexts = {c1, c2}
    Nobody = nobody
    MemoryMap <- ThreeFreePages
    MaxRequest = 2
    MaxPage = 4
INVARIANTS
    ListInv
PROPERTIES
    NoStolenPage
    ImplementsPmm
    CriticalSectionEnds
