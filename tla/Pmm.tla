-------------------------------- MODULE Pmm --------------------------------
(***************************************************************************)
(* The physical memory manager, kernel/src/arch/amd64/mm/pmm.c, one action *)
(* per operation: what pmm_init, pmm_alloc and pmm_free do to the ordered  *)
(* list of free ranges.  Everything pmm_alloc and pmm_free do to the list  *)
(* happens between spinlock_acquire and spinlock_release, so an operation  *)
(* is one step here; module PmmLocked interleaves the individual loads and *)
(* stores and shows that this view is right.                               *)
(*                                                                         *)
(* Addresses and sizes are in bytes, as in the code.  A list node is kept  *)
(* inside the free range it describes; here it is its ts_memoryRange only. *)
(***************************************************************************)
EXTENDS Integers, Sequences, SequencesExt

CONSTANTS
    PageSize,   \* C_MM_PAGE_SIZE
    Word,       \* 2^w, the number of values of a size_t
    MemoryMap,  \* the bootstrap memory map, a sequence of typed ranges
    MaxRequest  \* bound on the sizes passed to pmm_alloc and pmm_free

Null == 0

\* m_memoryMap.m_memoryMap[i]; every type but "FREE" is left alone by pmm.c.
MapEntry == [ptr : Nat, size : Nat, type : {"FREE", "RESERVED"}]

ASSUME SizeAssumption ==
    /\ PageSize \in Nat \ {0}
    /\ Word \in Nat /\ Word % PageSize = 0
    /\ MaxRequest \in 1 .. (Word - 1)

(***************************************************************************)
(* What the boot loader guarantees of its memory map (external): entries   *)
(* are sorted and do not overlap, page 0 is not usable, and no range       *)
(* reaches the last page of the address space.                             *)
(***************************************************************************)
ASSUME MapAssumption ==
    /\ MemoryMap \in Seq(MapEntry)
    /\ \A i \in DOMAIN MemoryMap :
        /\ MemoryMap[i].ptr >= PageSize
        /\ MemoryMap[i].ptr + MemoryMap[i].size + PageSize <= Word
    /\ \A i, j \in DOMAIN MemoryMap :
        i < j => MemoryMap[i].ptr + MemoryMap[i].size <= MemoryMap[j].ptr

VARIABLES
    index,      \* pmm_init: entries still to be looked at (0: init is over)
    freeList,   \* s_freeMemoryEntryList, a sequence of [ptr, size]
    owned,      \* the bytes handed out by pmm_alloc and not freed since
    ret         \* the last pmm_alloc since the last pmm_free, and its result

vars == <<index, freeList, owned, ret>>

Node == [ptr : Nat, size : Nat]
NoCall == [asked |-> 0, ptr |-> Null]

End(n) == n.ptr + n.size

Chunk(ptr, size) == ptr .. (ptr + size - 1)

Bytes(list) == UNION {Chunk(list[i].ptr, list[i].size) : i \in DOMAIN list}

mm_roundDownPage(x) == x - (x % PageSize)

\* Mutant: sizes are not rounded at all.
mm_roundUpPage_Identity(x) == x

\* Mutant: rounds to the page below.
mm_roundUpPage_Down(x) == mm_roundDownPage(x)

\* The sum wraps to 0 when x lies in the last page of the address space.
mm_roundUpPage(x) ==
    IF mm_roundDownPage(x) # x THEN (mm_roundDownPage(x) + PageSize) % Word ELSE x

-----------------------------------------------------------------------------
Init ==
    /\ index = Len(MemoryMap)
    /\ freeList = <<>>
    /\ owned = {}
    /\ ret = NoCall

(***************************************************************************)
(* One iteration of the loop of pmm_init.  l_rangeStartOffset is m_ptr -   *)
(* l_startAddress, a size_t: for an entry that does not start on a page    *)
(* boundary it wraps to nearly Word, and the entry is skipped.             *)
(***************************************************************************)
InitEntry ==
    /\ index > 0
    /\ index' = index - 1
    /\ LET entry == MemoryMap[index]
           start == mm_roundUpPage(entry.ptr)
           startOffset == (entry.ptr - start) % Word
           size == mm_roundDownPage((entry.size - (start - entry.ptr)) % Word)
       IN  IF entry.type = "FREE" /\ entry.size >= startOffset /\ size # 0
           THEN freeList' = InsertAt(freeList, 1, [ptr |-> start, size |-> size])
           ELSE UNCHANGED freeList
    /\ UNCHANGED <<owned, ret>>

-----------------------------------------------------------------------------
\* Where the search loop of pmm_alloc stops: the first node that is big enough.
FirstFit(i, size) ==
    /\ freeList[i].size >= size
    /\ \A j \in 1 .. (i - 1) : freeList[j].size < size

\* l_node->m_memoryRange.m_size -= l_size
Shrink(list, i, size) == [list EXCEPT ![i].size = @ - size]

\* Mutant: the node gives up its first bytes while its last are returned.
Take_FromStart(i, size) ==
    IF freeList[i].size = size
    THEN RemoveAt(freeList, i)
    ELSE [freeList EXCEPT ![i] = [ptr |-> @.ptr + size, size |-> @.size - size]]

\* Taking size bytes off the end of node i; an exact fit unlinks the node.
Take(i, size) ==
    IF freeList[i].size = size
    THEN RemoveAt(freeList, i)
    ELSE Shrink(freeList, i, size)

pmm_alloc(asked) ==
    /\ index = 0
    /\ LET size == mm_roundUpPage(asked)
       IN  \/ \E i \in DOMAIN freeList :
                /\ FirstFit(i, size)
                /\ LET start == End(freeList[i]) - size
                   IN  /\ freeList' = Take(i, size)
                       /\ owned' = owned \cup Chunk(start, size)
                       /\ ret' = [asked |-> asked, ptr |-> start]
           \/ /\ \A i \in DOMAIN freeList : freeList[i].size < size
              /\ ret' = [asked |-> asked, ptr |-> Null]
              /\ UNCHANGED <<freeList, owned>>
    /\ UNCHANGED index

-----------------------------------------------------------------------------
\* Mutant: the merged node keeps its old size.
pmm_tryMergeNodes_ForgetsSize(list, i) ==
    IF End(list[i]) = list[i + 1].ptr THEN RemoveAt(list, i + 1) ELSE list

\* Mutant: neighbours are merged across the hole between them.
pmm_tryMergeNodes_AcrossHole(list, i) ==
    RemoveAt([list EXCEPT ![i].size = End(list[i + 1]) - list[i].ptr], i + 1)

\* pmm_tryMergeNodes(p_node, p_nextNode) on nodes i and i + 1 of the list.
pmm_tryMergeNodes(list, i) ==
    IF End(list[i]) = list[i + 1].ptr
    THEN RemoveAt([list EXCEPT ![i].size = @ + list[i + 1].size], i + 1)
    ELSE list

\* Where the search loop of pmm_free stops: the first node at or above ptr.
InsertionPoint(k, ptr) ==
    /\ \A j \in 1 .. (k - 1) : freeList[j].ptr < ptr
    /\ k <= Len(freeList) => freeList[k].ptr >= ptr

(***************************************************************************)
(* The list after linking the new node at position k and the two merge     *)
(* attempts.  If the previous node swallowed the new one, the second       *)
(* attempt works on a node that is no longer in the list: what it writes   *)
(* lands inside the merged free range and the list does not change.        *)
(***************************************************************************)
GiveBack(k, node) ==
    LET linked == InsertAt(freeList, k, node)
        merged == IF k > 1 THEN pmm_tryMergeNodes(linked, k - 1) ELSE linked
    IN  IF Len(merged) = Len(linked) /\ k <= Len(freeList)
        THEN pmm_tryMergeNodes(merged, k)
        ELSE merged

(***************************************************************************)
(* The callers' side of the contract is in the guard: they free whole      *)
(* pages they own (vmm.c one page at a time, stdlib.c pages of a larger    *)
(* chunk one by one, so any page range inside the owned memory).           *)
(***************************************************************************)
pmm_free(ptr, asked) ==
    /\ index = 0
    /\ LET size == mm_roundUpPage(asked)
       IN  /\ size > 0
           /\ ptr % PageSize = 0
           /\ Chunk(ptr, size) \subseteq owned
           /\ \E k \in 1 .. (Len(freeList) + 1) :
                /\ InsertionPoint(k, ptr)
                /\ freeList' = GiveBack(k, [ptr |-> ptr, size |-> size])
           /\ owned' = owned \ Chunk(ptr, size)
    /\ ret' = NoCall
    /\ UNCHANGED index

Next ==
    \/ InitEntry
    \/ \E asked \in 0 .. MaxRequest : pmm_alloc(asked)
    \/ \E ptr \in owned, asked \in 1 .. MaxRequest : pmm_free(ptr, asked)

Spec == Init /\ [][Next]_vars

-----------------------------------------------------------------------------
TypeOK ==
    /\ index \in 0 .. Len(MemoryMap)
    /\ freeList \in Seq(Node)
    /\ owned \in SUBSET Nat
    /\ ret \in [asked : Nat, ptr : Nat]

OrderedList(list) ==
    /\ \A i \in DOMAIN list : list[i].size > 0
    /\ \A i, j \in DOMAIN list : i < j => End(list[i]) <= list[j].ptr

\* The free list is in address order and its ranges are disjoint and not
\* empty, after every boot step, allocation and free: what first fit, the
\* insertion search and the merge test all rely on.
Ordered == OrderedList(freeList)

\* No byte is both free and handed out: no two callers ever share memory.
Exclusive == Bytes(freeList) \cap owned = {}

WholePageList(list) ==
    \A i \in DOMAIN list : list[i].ptr % PageSize = 0 /\ list[i].size % PageSize = 0

\* Every free range is made of whole pages, so that its first page can hold
\* the node: an allocation or a free of any number of bytes never leaves a
\* fragment of a page behind.
WholePages == WholePageList(freeList)

\* The free list as the searches and merges of pmm.c need it: in order, disjoint,
\* of whole pages.
FreeListSound == Ordered /\ WholePages

InMemory(list) ==
    \A i \in DOMAIN list : PageSize <= list[i].ptr /\ End(list[i]) <= Word

\* While pmm_init walks the map downwards, everything it has put into the list
\* lies above every entry it still has to look at, and nothing is handed out.
BootFrontier ==
    /\ index > 0 => owned = {} /\ ret = NoCall
    /\ \A i \in DOMAIN freeList, j \in 1 .. index :
        End(MemoryMap[j]) <= freeList[i].ptr

\* The inductive invariant of the manager.
PmmInv ==
    /\ TypeOK
    /\ Ordered
    /\ Exclusive
    /\ WholePages
    /\ InMemory(freeList)
    /\ owned \subseteq PageSize .. (Word - 1)
    /\ BootFrontier

\* A pmm_alloc that returned a pointer gave its caller at least the bytes it
\* asked for.
ChunkIsOwned ==
    ret.ptr # Null => Chunk(ret.ptr, ret.asked) \subseteq owned

\* Once pmm_init is over, no operation loses a byte or invents one: the free
\* list and the callers together always have the same memory.
NothingLost ==
    [][index = 0 => (Bytes(freeList) \cup owned)' = Bytes(freeList) \cup owned]_vars

Pages == INSTANCE PageAllocator WITH
    Addresses <- 0 .. Word, avail <- Bytes(freeList)

\* The list-based manager implements the abstract one.
ImplementsPageAllocator == Pages!Spec
=============================================================================
