------------------------------ MODULE VmmHeap ------------------------------
(***************************************************************************)
(* The virtual address space of the kernel context, kernel/src/arch/amd64/ *)
(* mm/vmm.c: vmm_alloc and vmm_free on the list m_map, and the pool of     *)
(* list nodes that vmm_free draws from and refills with pages from the     *)
(* physical memory manager.  Both operations hold the context's spinlock   *)
(* throughout, so each is one step.                                        *)
(*                                                                         *)
(* Physical address a is reached at linear address a (the HHDM); the heap  *)
(* lies above it, as in doc/memory_map.md.                                 *)
(***************************************************************************)
EXTENDS MmList, FiniteSets

CONSTANTS
    PhysPages,  \* number of physical pages that pmm_alloc can return
    HeapBase,   \* first address of the kernel heap
    HeapSize,   \* its length in bytes
    MaxZone     \* bound on the bytes asked for in one call

ASSUME HeapAssumption ==
    /\ PhysPages \in Nat \ {0} /\ MaxZone \in Nat \ {0}
    /\ HeapBase \in Nat /\ HeapBase % PageSize = 0
    /\ HeapSize \in Nat \ {0} /\ HeapSize % PageSize = 0
    /\ HeapBase > PhysPages * PageSize + MaxZone + PageSize

\* The addresses of the physical pages; page 0 is not usable.
Phys == {n * PageSize : n \in 1 .. PhysPages}
Heap == Chunk(HeapBase, HeapSize)

VARIABLES
    state,          \* "boot", "running" or "panic"
    map,            \* m_map
    pool,           \* m_mapEntryPool, a sequence of node addresses
    allocations,    \* m_memoryAllocations, a sequence of page addresses
    physFree,       \* what pmm_alloc can still return (external)
    zones,          \* what callers of vmm_alloc hold: [ptr, size asked for]
    misreturned     \* history: vmm_alloc has returned a node's address

vars == <<state, map, pool, allocations, physFree, zones, misreturned>>

Init ==
    /\ state = "boot"
    /\ map = <<>>
    /\ pool = <<>>
    /\ allocations = <<>>
    /\ physFree \in SUBSET Phys
    /\ zones = {}
    /\ misreturned = FALSE

(***************************************************************************)
(* vmm_refillEntryPool, given the page pmm_alloc returned: the loop links  *)
(* the first node of the page again and again, and the last assignment     *)
(* points it at m_memoryAllocations.  The pool it leaves is that one node  *)
(* followed by the allocation list; the allocation list is not extended.   *)
(***************************************************************************)
vmm_refillEntryPool(page) == <<page>> \o allocations

panic ==
    /\ state' = "panic"
    /\ UNCHANGED <<map, pool, allocations, physFree, zones, misreturned>>

\* Mutant: the node stays in the pool as well.
FreeWith_KeepsNode(entries, zone) ==
    LET range == mm_alignRange(zone)
        added == mm_addNodeToMap(map,
                     [node |-> Head(entries), ptr |-> range.ptr, size |-> range.size])
    IN  /\ map' = added.list
        /\ pool' = Reverse(added.freed) \o entries

\* vmm_free once the pool is known not to be empty: the first node of the pool
\* takes the range, the nodes merged away go back to the pool, last one first.
FreeWith(entries, zone) ==
    LET range == mm_alignRange(zone)
        added == mm_addNodeToMap(map,
                     [node |-> Head(entries), ptr |-> range.ptr, size |-> range.size])
    IN  /\ map' = added.list
        /\ pool' = Reverse(added.freed) \o Tail(entries)

\* vmm_initKernelContext: one refill, then the whole heap is freed.
vmm_initKernelContext ==
    /\ state = "boot"
    /\ \/ \E page \in physFree :
            /\ physFree' = physFree \ {page}
            /\ FreeWith(vmm_refillEntryPool(page), [ptr |-> HeapBase, size |-> HeapSize])
            /\ state' = "running"
            /\ UNCHANGED <<allocations, zones, misreturned>>
       \/ physFree = {} /\ panic

vmm_alloc(asked) ==
    /\ state = "running"
    /\ LET got == mm_alloc(map, mm_roundUpPage(asked))
       IN  /\ map' = got.list
           /\ IF got.ptr = Null
              THEN UNCHANGED <<zones, misreturned>>
              ELSE /\ zones' = zones \cup {[ptr |-> got.ptr, size |-> asked]}
                   /\ misreturned' = (misreturned \/ got.ptr \notin Heap)
    /\ UNCHANGED <<state, pool, allocations, physFree>>

\* "Freeing a part of a previously allocated zone is undefined behavior":
\* callers give back a zone as they got it.
vmm_free(zone) ==
    /\ state = "running"
    /\ \/ /\ pool # <<>>
          /\ FreeWith(pool, zone)
          /\ zones' = zones \ {zone}
          /\ UNCHANGED <<state, allocations, physFree, misreturned>>
       \/ /\ pool = <<>>
          /\ \E page \in physFree :
                /\ physFree' = physFree \ {page}
                /\ FreeWith(vmm_refillEntryPool(page), zone)
          /\ zones' = zones \ {zone}
          /\ UNCHANGED <<state, allocations, misreturned>>
       \/ /\ pool = <<>>
          /\ physFree = {}
          /\ panic

Next ==
    \/ vmm_initKernelContext
    \/ \E asked \in 1 .. MaxZone : vmm_alloc(asked)
    \/ \E zone \in zones : vmm_free(zone)

Spec == Init /\ [][Next]_vars

-----------------------------------------------------------------------------
Zone == [ptr : Nat, size : Nat]

TypeOK ==
    /\ state \in {"boot", "running", "panic"}
    /\ \A i \in DOMAIN map :
        map[i].node \in Phys /\ map[i].ptr \in Nat /\ map[i].size \in Nat \ {0}
    /\ pool \in Seq(Phys)
    /\ physFree \subseteq Phys
    /\ \A z \in zones : z \in Zone
    /\ misreturned \in BOOLEAN

\* The whole pages a zone stands for.
ZonePages(z) == Chunk(z.ptr, mm_roundUpPage(z.size))
ZoneMemory == UNION {ZonePages(z) : z \in zones}

\* No zone that vmm_alloc handed out shares a page of address space with
\* another zone or with the free map: two users of the heap never collide.
\* That ends with the first allocation that uses up a range exactly, for which
\* vmm_alloc returns an address outside the heap (misreturned).
ZonesDisjoint ==
    ~misreturned =>
        /\ ZoneMemory \cap Memory(map) = {}
        /\ \A y, z \in zones :
            y # z => ZonePages(y) \cap ZonePages(z) = {}

\* The ranges of the map are in address order and disjoint, so that a range is
\* offered once.
MapOrdered ==
    ~misreturned =>
        \A i, j \in DOMAIN map : i < j => mm_getEntryEndAddress(map[i]) <= map[j].ptr

\* The heap is never lost: every page of it is free or in somebody's zone.
HeapConserved ==
    state = "running" /\ ~misreturned => Memory(map) \cup ZoneMemory = Heap

\* The map through every split, insertion and refill: well formed, in order, and
\* with the zones the whole heap.
MapInv == TypeOK /\ MapOrdered /\ HeapConserved

\* A list node is used for one thing at a time: the nodes of the map and of the
\* pool are distinct, and none lies in a page pmm_alloc could hand to somebody
\* else.
NodesDistinct ==
    LET nodes == [i \in DOMAIN map |-> map[i].node] \o pool
    IN  /\ IsInjective(nodes)
        /\ Range(nodes) \cap physFree = {}

-----------------------------------------------------------------------------
(* The inductive invariant. *)

Entry == [node : Phys, ptr : Nat, size : Nat \ {0}]

\* vmm_refillEntryPool never extends the list of allocations.
HeapShape ==
    /\ state \in {"boot", "running", "panic"}
    /\ map \in Seq(Entry)
    /\ pool \in Seq(Phys) /\ allocations = <<>> /\ physFree \subseteq Phys
    /\ zones \subseteq [ptr : Nat, size : 1 .. MaxZone]
    /\ misreturned \in BOOLEAN
    /\ state = "boot" => map = <<>> /\ pool = <<>> /\ zones = {} /\ ~misreturned

\* Until the address of a node has been returned, ranges and zones are whole pages
\* of the heap; no range ends at a node, so that nothing is ever merged.
WholePages ==
    ~misreturned =>
        /\ \A i \in DOMAIN map :
            /\ map[i].ptr % PageSize = 0 /\ map[i].size % PageSize = 0
            /\ HeapBase <= map[i].ptr /\ mm_getEntryEndAddress(map[i]) <= HeapBase + HeapSize
        /\ \A z \in zones :
            /\ z.ptr % PageSize = 0
            /\ HeapBase <= z.ptr /\ z.ptr + mm_roundUpPage(z.size) <= HeapBase + HeapSize

HeapInv ==
    /\ HeapShape /\ NodesDistinct /\ WholePages
    /\ MapOrdered /\ ZonesDisjoint /\ HeapConserved
=============================================================================
