SPECIFICATION LockLiveSpec
CONSTANTS
    Contexts = {c1, c2, c3, c4}
    Nobody = nobody
INVARIANTS
    MutualExclusion
PROPERTIES
    ImplementsMutex
    SomebodyGetsIn
