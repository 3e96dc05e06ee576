------------------------------- MODULE Malloc -------------------------------
(***************************************************************************)
(* malloc and free of kernel/src/stdlib.c: a pool of free ranges whose     *)
(* list nodes lie at the start of the ranges, refilled with virtual memory *)
(* from vmm_alloc that is backed, chunk by chunk, with physical memory     *)
(* from pmm_alloc.  The refill is interleaved step by step with the        *)
(* failures of the physical memory manager, which also gives vmm_map the   *)
(* pages for its tables (module Paging has what is in them).               *)
(*                                                                         *)
(* vmm_alloc takes the end of the first, large range of the heap (module   *)
(* VmmHeap), so that each refill lies below the one before.                *)
(***************************************************************************)
EXTENDS MmList, FiniteSets

CONSTANTS
    WordSize,   \* sizeof(size_t)
    HeapBase,   \* first address of the kernel heap
    HeapTop,    \* its end
    Frames,     \* numbers of the physical pages that pmm_alloc can return
    TableSlots, \* entries of a paging structure
    Requests    \* the sizes that callers ask for, in bytes

HeaderSize == WordSize          \* of a block in use: its m_size
NodeSize == 3 * WordSize        \* sizeof(union tu_malloc_blockHeader)

ASSUME MallocAssumption ==
    /\ WordSize \in Nat \ {0} /\ PageSize % WordSize = 0 /\ NodeSize <= PageSize
    /\ HeapBase \in Nat \ {0} /\ HeapBase % PageSize = 0
    /\ HeapTop \in Nat /\ HeapTop % PageSize = 0
    /\ TableSlots \in Nat \ {0}
    /\ Frames \subseteq Nat /\ Requests \subseteq Nat

VARIABLES
    pc,         \* "idle", "refill", "rollback", or for good "hung" in vmm_map,
                \* "panic" or "fault"
    loc,        \* locals of malloc and of the refill
    pool,       \* s_mallocFreePhysicalMemoryPool
    blocks,     \* blocks in use: [ptr, size, asked]
    vtop,       \* end of the free part of the kernel heap
    mapping,    \* for each virtual page that is mapped, its physical page
    pmmFree,    \* what pmm_alloc can return (external)
    torn        \* malloc has left a node too small to hold itself

vars == <<pc, loc, pool, blocks, vtop, mapping, pmmFree, torn>>

NoLocals == [asked |-> 0, size |-> 0, base |-> Null, block |-> 0, got |-> 0]

Init ==
    /\ pc = "idle"
    /\ loc = NoLocals
    /\ pool = <<>>
    /\ blocks = {}
    /\ vtop = HeapTop
    /\ mapping = <<>>
    /\ pmmFree = Frames
    /\ torn = FALSE

RoundUpWord(x) == ((x + WordSize - 1) \div WordSize) * WordSize

\* Mutant: no room for the header.
BlockSize_NoHeader(asked) == RoundUpWord(IF asked < NodeSize THEN NodeSize ELSE asked)

\* l_sizeToAllocate
BlockSize(asked) ==
    RoundUpWord(IF asked + HeaderSize < NodeSize THEN NodeSize ELSE asked + HeaderSize)

\* What the halving of the refill relies on: C_MM_PAGE_SIZE is a power of two,
\* and nobody in the kernel asks for more pages than a page has bytes (16 MiB).
\* For 2^14 + 1 pages the halves, rounded down, come back to two whole pages,
\* and the last chunk would be mapped beyond the range.
ASSUME HalvingAssumption ==
    /\ \A d, e \in 1 .. PageSize : PageSize = d * e => d = 1 \/ d % 2 = 0
    /\ \A asked \in Requests : mm_roundUpPage(BlockSize(asked)) <= PageSize * PageSize

\* The second half of malloc, on a pool that has room: mm_alloc and the store
\* of m_size.  A node that keeps less than its own size is overwritten by the
\* header and the data of the new block.
TakeBlock(from, asked) ==
    LET size == BlockSize(asked)
        got == mm_alloc(from, size)
    IN  /\ pool' = got.list
        /\ blocks' = blocks \cup {[ptr |-> got.ptr, size |-> size, asked |-> asked]}
        /\ torn' = \E i \in DOMAIN got.list : got.list[i].size < NodeSize

CanTake(from, asked) == mm_alloc(from, BlockSize(asked)).ptr # Null

\* malloc takes a block from the pool, or begins a refill.  When the kernel heap
\* is exhausted too, it returns NULL and nothing changes.
malloc(asked) ==
    /\ pc = "idle" /\ ~torn
    /\ \/ /\ CanTake(pool, asked)
          /\ TakeBlock(pool, asked)
          /\ UNCHANGED <<pc, loc, vtop, mapping, pmmFree>>
       \/ /\ ~CanTake(pool, asked)
          /\ LET pages == mm_roundUpPage(BlockSize(asked))
             IN  /\ vtop - pages > HeapBase     \* vmm_alloc
                 /\ vtop' = vtop - pages
                 /\ pc' = "refill"
                 /\ loc' = [asked |-> asked, size |-> BlockSize(asked),
                            base |-> vtop - pages, block |-> pages, got |-> 0]
          /\ UNCHANGED <<pool, blocks, mapping, pmmFree, torn>>

\* The virtual pages of the next chunk.
ChunkPages ==
    {page \in 0 .. HeapTop : loc.base + loc.got <= page * PageSize + PageSize - 1
                              /\ page * PageSize < loc.base + loc.got + loc.block}

\* The tables and the directories that some pages need.  The table above them is
\* there already, since the kernel's image has the same slot of the root.
TablesOf(pages) == {<<level, page \div TableSlots^level>> : page \in pages, level \in {1, 2}}

\* How many tables vmm_map has to make for some pages; the page tables of the
\* heap are never given back.
NewTables(pages) == Cardinality(TablesOf(pages) \ TablesOf(DOMAIN mapping))

\* The mapping with some pages of the chunk led to the run of frames at f.
Led(pages, f) ==
    LET first == (loc.base + loc.got) \div PageSize
    IN  [page \in DOMAIN mapping \cup pages |->
            IF page \in pages THEN f + (page - first) ELSE mapping[page]]

\* vmm_map succeeds: pmm_alloc has a page for each new table.
MapChunk(f, frames) ==
    /\ \E tables \in SUBSET (pmmFree \ frames) :
        /\ Cardinality(tables) = NewTables(ChunkPages)
        /\ pmmFree' = pmmFree \ (frames \cup tables)
    /\ mapping' = Led(ChunkPages, f)
    /\ loc' = [loc EXCEPT !.got = @ + loc.block]
    /\ UNCHANGED pc

\* pmm_alloc has too few pages for the tables: vmm_map maps the pages up to the
\* one whose table is missing, then calls vmm_unmap, which waits for the lock
\* that vmm_map holds.
MapChunkHangs(f, frames) ==
    LET left == Cardinality(pmmFree \ frames)
        mapped == {page \in ChunkPages :
                      NewTables({p \in ChunkPages : p <= page}) <= left}
    IN  /\ NewTables(ChunkPages) > left
        /\ pmmFree' = {}
        /\ mapping' = Led(mapped, f)
        /\ pc' = "hung"
        /\ UNCHANGED loc

\* vmm_map refuses a chunk that does not start on a page boundary: its frames go
\* back and the refill is undone.
RefuseChunk == pc' = "rollback" /\ UNCHANGED <<loc, mapping, pmmFree>>

\* Mutant: the pages are given back whether or not vmm_map succeeded.
RefillChunk_AlwaysFrees ==
    /\ pc = "refill" /\ loc.got < loc.size
    /\ \E f \in pmmFree :
        /\ f .. (f + mm_roundUpPage(loc.block) \div PageSize - 1) \subseteq pmmFree
        /\ mapping' = Led(ChunkPages, f)
    /\ loc' = [loc EXCEPT !.got = @ + loc.block]
    /\ UNCHANGED <<pc, pool, blocks, vtop, pmmFree, torn>>

\* pmm_alloc gives a run of frames, which vmm_map maps or does not.
RefillChunk ==
    /\ pc = "refill" /\ loc.got < loc.size
    /\ \E f \in pmmFree :
        LET frames == f .. (f + mm_roundUpPage(loc.block) \div PageSize - 1)
        IN  /\ frames \subseteq pmmFree
            /\ IF (loc.base + loc.got) % PageSize = 0
               THEN MapChunk(f, frames) \/ MapChunkHangs(f, frames)
               ELSE RefuseChunk
    /\ UNCHANGED <<pool, blocks, vtop, torn>>

\* Mutant: a single page is tried for again and again.
RefillRetry_Forever ==
    /\ pc = "refill" /\ loc.got < loc.size
    /\ loc.block <= PageSize => pmmFree = {}
    /\ loc' = [loc EXCEPT !.block = IF @ = PageSize THEN @ ELSE @ \div 2]
    /\ UNCHANGED <<pc, pool, blocks, vtop, mapping, pmmFree, torn>>

\* pmm_alloc has no run that long (or only one that is split over two nodes of
\* its list; one page it has unless it has none at all): half of it is tried
\* for, down to a page.
RefillRetry ==
    /\ pc = "refill" /\ loc.got < loc.size
    /\ loc.block <= PageSize => pmmFree = {}
    /\ IF loc.block = PageSize
       THEN pc' = "rollback" /\ UNCHANGED loc
       ELSE loc' = [loc EXCEPT !.block = @ \div 2] /\ UNCHANGED pc
    /\ UNCHANGED <<pool, blocks, vtop, mapping, pmmFree, torn>>

\* The new range is put in front of the pool.
Refilled(range) == <<range>> \o pool

\* The refill succeeds and malloc tries again.
RefillDone ==
    /\ pc = "refill" /\ loc.got >= loc.size
    /\ TakeBlock(Refilled([node |-> loc.base, ptr |-> loc.base, size |-> loc.got]), loc.asked)
    /\ pc' = "idle"
    /\ loc' = NoLocals
    /\ UNCHANGED <<vtop, mapping, pmmFree>>

\* The refill is undone, or begins to be.  If it has mapped a chunk already,
\* vmm_getPhysicalAddress is called, which reads the page tables at their
\* physical addresses: these are not mapped in the kernel context, the read
\* faults and isr_exception halts the machine.  If not, pmm_alloc had no page at
\* all; vmm_free needs a list node, of which it never keeps one (module VmmHeap),
\* and panics, since it gets no page for one either.
Rollback ==
    /\ pc = "rollback"
    /\ pc' = IF loc.got = 0 THEN "panic" ELSE "fault"
    /\ UNCHANGED <<loc, pool, blocks, vtop, mapping, pmmFree, torn>>

\* free: the block becomes a node of the pool; merged nodes need no freeing.
free(b) ==
    /\ pc = "idle" /\ ~torn
    /\ pool' = mm_addNodeToMap(pool, [node |-> b.ptr, ptr |-> b.ptr, size |-> b.size]).list
    /\ blocks' = blocks \ {b}
    /\ UNCHANGED <<pc, loc, vtop, mapping, pmmFree, torn>>

Next ==
    \/ \E asked \in Requests : malloc(asked)
    \/ RefillChunk \/ RefillRetry \/ RefillDone \/ Rollback
    \/ \E b \in blocks : free(b)

Spec == Init /\ [][Next]_vars

\* The processor goes on with a call that has begun.
LiveSpec == Spec /\ WF_vars(RefillChunk \/ RefillRetry \/ RefillDone \/ Rollback)

-----------------------------------------------------------------------------
TypeOK ==
    /\ pc \in {"idle", "refill", "rollback", "hung", "panic", "fault"}
    /\ \A i \in DOMAIN pool :
        pool[i].node \in Nat /\ pool[i].ptr \in Nat /\ pool[i].size \in Nat \ {0}
    /\ DOMAIN mapping \subseteq (HeapBase \div PageSize) .. (HeapTop \div PageSize)
    /\ pmmFree \subseteq Frames
    /\ torn \in BOOLEAN

\* What the owner of a block may touch, the header before it included.
Touches(b) == Chunk(b.ptr, HeaderSize + b.asked)

\* A block does not overlap another block or a free range, and holds as many
\* bytes as were asked for, through every split, merge and refill.
BlocksDisjoint ==
    /\ \A b, c \in blocks : b # c => Touches(b) \cap Touches(c) = {}
    /\ \A b \in blocks : Touches(b) \cap Memory(pool) = {}

\* The memory of every refill stays in the pool or in blocks.
PoolConserved ==
    pc = "idle" =>
        Memory(pool) \cup UNION {Chunk(b.ptr, b.size) : b \in blocks}
            = UNION {Chunk(page * PageSize, PageSize) : page \in DOMAIN mapping}

\* The pool is in address order, which the insertion search of free needs for
\* its merges.
PoolOrdered ==
    \A i, j \in DOMAIN pool : i < j => mm_getEntryEndAddress(pool[i]) <= pool[j].ptr

\* The pool through every split, merge and refill: well formed, in order, and
\* with the blocks all the memory of the heap.
PoolInv == TypeOK /\ PoolOrdered /\ PoolConserved

\* Two virtual pages never lead to the same physical page, nor to one that
\* pmm_alloc can hand out again.
BackedOnce ==
    /\ IsInjective(mapping)
    /\ Range(mapping) \cap pmmFree = {}

\* The pages of the refill that is under way.
RefillPages == mm_roundUpPage(loc.size) \div PageSize

\* The loop of the refill ends when pmm_alloc fails for some sizes and when it
\* fails for all, unless a vmm_map that gets no page for a table never comes back.
\* That is for a power of two pages: halving another number skips PageSize and
\* goes down to 0.
RefillEnds ==
    pc = "refill" /\ (\E n \in 0 .. RefillPages : RefillPages = 2^n)
        ~> pc \in {"idle", "rollback"} \/ pc = "hung"
=============================================================================
