SPECIFICATION Spec
CONSTANTS
    PageSize = 2
    Word = 32
    LoaderMap <- MapWithHoles
    MaxEntries = 5
    MemoryMap <- CopiedMap
    MaxRequest = 7
INVARIANTS
    FreeListSound
    Exclusive
    ChunkIsOwned
    ManagesUsable
PROPERTIES
    NothingLost
    ImplementsPageAllocator
