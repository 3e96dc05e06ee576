SPECIFICATION Spec
CONSTANTS
    PageSize = 2
    PhysPages = 3
    HeapBase = 16
    HeapSize = 12
    MaxZone = 5
INVARIANTS
    MapInv
    ZonesDisjoint
    NodesDistinct
\* The kernel stops in panic() when pmm_alloc fails inside vmm_free.
CHECK_DEADLOCK FALSE
