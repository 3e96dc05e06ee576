----------------------------- MODULE PmmLocked -----------------------------
(***************************************************************************)
(* The physical memory manager as several execution contexts run it: the   *)
(* nodes of the free list live inside the free pages they describe, each   *)
(* context walks them pointer by pointer, and only spinlock_acquire and    *)
(* spinlock_release keep the contexts apart.  pmm_free writes the range    *)
(* into the page before it takes the lock, and whoever owns a page writes  *)
(* what it likes into it.                                                  *)
(*                                                                         *)
(* Memory is counted in pages (PageSize is 1): rounding is module Pmm's    *)
(* subject.  The lock is the abstract one that Spinlock implements.  The   *)
(* module is shown to implement Pmm: an operation takes effect at once,    *)
(* when its context releases the lock.                                     *)
(***************************************************************************)
EXTENDS Integers, Sequences, FiniteSets

CONSTANTS
    Contexts,   \* execution contexts
    Nobody,     \* the owner of the lock, or of a page, when there is none
    MemoryMap,  \* as in Pmm, in pages
    MaxRequest, \* bound on the pages asked for in one call
    MaxPage     \* every page of the map is in 1 .. MaxPage

Null == 0
Pages == 1 .. MaxPage

\* As in Pmm: the boot loader sorts the entries, and they do not overlap.
ASSUME PagesAssumption ==
    /\ Nobody \notin Contexts
    /\ MaxPage \in Nat /\ MaxRequest \in Nat
    /\ MemoryMap \in Seq([ptr : Pages, size : Nat, type : {"FREE", "RESERVED"}])
    /\ \A i \in DOMAIN MemoryMap : MemoryMap[i].ptr + MemoryMap[i].size <= MaxPage + 1
    /\ \A i, j \in DOMAIN MemoryMap :
        i < j => MemoryMap[i].ptr + MemoryMap[i].size <= MemoryMap[j].ptr

VARIABLES
    index,      \* entries pmm_init has still to look at
    mem,        \* what the first words of each page hold, read as a list node
    head,       \* s_freeMemoryEntryList
    holder,     \* the context inside s_spinlock
    owner,      \* for each page, the context it was handed to
    pc,         \* where each context is
    loc,        \* the local variables and parameters of each context
    committed,  \* history: the free list at the last release of the lock
    ret         \* history: as in Pmm

vars == <<index, mem, head, holder, owner, pc, loc, committed, ret>>

Lock == INSTANCE Mutex

NoCall == [asked |-> 0, ptr |-> Null]
ZeroNode == [next |-> Null, ptr |-> 0, size |-> 0]
NoLocals == [ptr |-> Null, size |-> 0, prev |-> Null, node |-> Null, ret |-> Null]

\* What the owner of a page may leave in its first words: here, something that
\* looks like a node of a huge range, linked to the page itself.
Junk(p) == [next |-> p, ptr |-> 0, size |-> MaxPage]

\* The list reached from each node, following at most n links.
Walk[n \in 0 .. MaxPage] ==
    [p \in {Null} \cup Pages |->
        IF n = 0 \/ p = Null
        THEN <<>>
        ELSE <<[ptr |-> mem[p].ptr, size |-> mem[p].size]>> \o Walk[n - 1][mem[p].next]]

CurrentList == Walk[MaxPage][head]

Chunk(ptr, size) == ptr .. (ptr + size - 1)

-----------------------------------------------------------------------------
Init ==
    /\ index = Len(MemoryMap)
    /\ mem = [p \in Pages |-> ZeroNode]
    /\ head = Null
    /\ Lock!Init
    /\ owner = [p \in Pages |-> Nobody]
    /\ pc = [c \in Contexts |-> "idle"]
    /\ loc = [c \in Contexts |-> NoLocals]
    /\ committed = <<>>
    /\ ret = NoCall

\* One iteration of pmm_init, before any context can call the manager.
InitEntry ==
    /\ index > 0
    /\ index' = index - 1
    /\ LET entry == MemoryMap[index]
           node == [ptr |-> entry.ptr, size |-> entry.size]
       IN  IF entry.type = "FREE" /\ entry.size # 0
           THEN /\ mem' = [mem EXCEPT ![entry.ptr] =
                              [next |-> head, ptr |-> node.ptr, size |-> node.size]]
                /\ head' = entry.ptr
                /\ committed' = <<node>> \o committed
           ELSE UNCHANGED <<mem, head, committed>>
    /\ UNCHANGED <<holder, owner, pc, loc, ret>>

\* The owner of a page uses it.
UsePage(c, p) ==
    /\ pc[c] = "idle"
    /\ owner[p] = c
    /\ mem' = [mem EXCEPT ![p] = Junk(p)]
    /\ UNCHANGED <<index, head, holder, owner, pc, loc, committed, ret>>

-----------------------------------------------------------------------------
(* pmm_alloc *)

CallAlloc(c, size) ==
    /\ index = 0
    /\ pc[c] = "idle"
    /\ pc' = [pc EXCEPT ![c] = "alloc_acquire"]
    /\ loc' = [loc EXCEPT ![c] = [NoLocals EXCEPT !.size = size]]
    /\ UNCHANGED <<index, mem, head, holder, owner, committed, ret>>

\* spinlock_acquire, then l_node = s_freeMemoryEntryList
AllocAcquire(c) ==
    /\ pc[c] = "alloc_acquire"
    /\ Lock!Acquire(c)
    /\ pc' = [pc EXCEPT ![c] = "alloc_search"]
    /\ loc' = [loc EXCEPT ![c].node = head]
    /\ UNCHANGED <<index, mem, head, owner, committed, ret>>

\* One evaluation of the condition of the search loop, and its body.
AllocSearch(c) ==
    /\ pc[c] = "alloc_search"
    /\ LET node == loc[c].node
       IN  \/ /\ node = Null
              /\ pc' = [pc EXCEPT ![c] = "alloc_release"]
              /\ UNCHANGED loc
           \/ /\ node # Null
              /\ mem[node].size >= loc[c].size
              /\ pc' = [pc EXCEPT ![c] = "alloc_take"]
              /\ UNCHANGED loc
           \/ /\ node # Null
              /\ mem[node].size < loc[c].size
              /\ loc' = [loc EXCEPT ![c].prev = node, ![c].node = mem[node].next]
              /\ UNCHANGED pc
    /\ UNCHANGED <<index, mem, head, holder, owner, committed, ret>>

\* Mutant: an exact fit at the head of the list is not unlinked.
AllocTake_KeepsHead(c) ==
    /\ pc[c] = "alloc_take"
    /\ LET node == loc[c].node
           prev == loc[c].prev
           size == loc[c].size
       IN  /\ mem' = IF mem[node].size # size
                     THEN [mem EXCEPT ![node].size = @ - size]
                     ELSE IF prev # Null
                          THEN [mem EXCEPT ![prev].next = mem[node].next]
                          ELSE mem
           /\ loc' = [loc EXCEPT ![c].ret = mem[node].ptr + mem[node].size - size]
    /\ pc' = [pc EXCEPT ![c] = "alloc_release"]
    /\ UNCHANGED <<index, head, holder, owner, committed, ret>>

\* Unlinking the node (through the head or the previous node) or shrinking it.
AllocTake(c) ==
    /\ pc[c] = "alloc_take"
    /\ LET node == loc[c].node
           prev == loc[c].prev
           size == loc[c].size
           exact == mem[node].size = size
       IN  /\ head' = IF exact /\ prev = Null THEN mem[node].next ELSE head
           /\ mem' = IF ~exact
                     THEN [mem EXCEPT ![node].size = @ - size]
                     ELSE IF prev # Null
                          THEN [mem EXCEPT ![prev].next = mem[node].next]
                          ELSE mem
           /\ loc' = [loc EXCEPT ![c].ret = mem[node].ptr + mem[node].size - size]
    /\ pc' = [pc EXCEPT ![c] = "alloc_release"]
    /\ UNCHANGED <<index, holder, owner, committed, ret>>

\* spinlock_release and return: the caller owns the chunk from here on.
AllocRelease(c) ==
    /\ pc[c] = "alloc_release"
    /\ Lock!Release(c)
    /\ owner' = IF loc[c].ret = Null
                THEN owner
                ELSE [p \in Pages |->
                        IF p \in Chunk(loc[c].ret, loc[c].size) THEN c ELSE owner[p]]
    /\ committed' = CurrentList
    /\ ret' = [asked |-> loc[c].size, ptr |-> loc[c].ret]
    /\ pc' = [pc EXCEPT ![c] = "idle"]
    /\ loc' = [loc EXCEPT ![c] = NoLocals]
    /\ UNCHANGED <<index, mem, head>>

-----------------------------------------------------------------------------
(* pmm_free *)

\* Mutant: the node is pushed onto the list before the lock is taken.
CallFree_LinksEarly(c, ptr, size) ==
    /\ pc[c] = "idle"
    /\ size > 0
    /\ \A p \in Chunk(ptr, size) : p \in Pages /\ owner[p] = c
    /\ mem' = [mem EXCEPT ![ptr] = [next |-> head, ptr |-> ptr, size |-> size]]
    /\ head' = ptr
    /\ pc' = [pc EXCEPT ![c] = "free_acquire"]
    /\ loc' = [loc EXCEPT ![c] = [NoLocals EXCEPT !.ptr = ptr, !.size = size]]
    /\ UNCHANGED <<index, holder, owner, committed, ret>>

\* The caller gives up pages of its own; the range is written into the first
\* of them before the lock is taken.
CallFree(c, ptr, size) ==
    /\ pc[c] = "idle"
    /\ size > 0
    /\ \A p \in Chunk(ptr, size) : p \in Pages /\ owner[p] = c
    /\ mem' = [mem EXCEPT ![ptr] = [next |-> mem[ptr].next, ptr |-> ptr, size |-> size]]
    /\ pc' = [pc EXCEPT ![c] = "free_acquire"]
    /\ loc' = [loc EXCEPT ![c] = [NoLocals EXCEPT !.ptr = ptr, !.size = size]]
    /\ UNCHANGED <<index, head, holder, owner, committed, ret>>

\* spinlock_acquire, then l_nextNode = s_freeMemoryEntryList
FreeAcquire(c) ==
    /\ pc[c] = "free_acquire"
    /\ Lock!Acquire(c)
    /\ pc' = [pc EXCEPT ![c] = "free_search"]
    /\ loc' = [loc EXCEPT ![c].node = head]
    /\ UNCHANGED <<index, mem, head, owner, committed, ret>>

\* One evaluation of the condition of the search loop, and its body.
FreeSearch(c) ==
    /\ pc[c] = "free_search"
    /\ LET next == loc[c].node
       IN  IF next # Null /\ mem[next].ptr < loc[c].ptr
           THEN /\ loc' = [loc EXCEPT ![c].prev = next, ![c].node = mem[next].next]
                /\ UNCHANGED pc
           ELSE /\ pc' = [pc EXCEPT ![c] = "free_link"]
                /\ UNCHANGED loc
    /\ UNCHANGED <<index, mem, head, holder, owner, committed, ret>>

\* Mutant: the new node's link is read back from the previous node after that
\* one already points to the new node.
FreeLink_OverwrittenLink(c) ==
    /\ pc[c] = "free_link"
    /\ LET new == loc[c].ptr
           prev == loc[c].prev
       IN  /\ mem' = IF prev = Null
                     THEN [mem EXCEPT ![new].next = loc[c].node]
                     ELSE [mem EXCEPT ![prev].next = new, ![new].next = new]
           /\ head' = IF prev = Null THEN new ELSE head
    /\ pc' = [pc EXCEPT ![c] = "free_merge_previous"]
    /\ UNCHANGED <<index, holder, owner, loc, committed, ret>>

\* Add the node to the ordered node list.
FreeLink(c) ==
    /\ pc[c] = "free_link"
    /\ LET new == loc[c].ptr
           prev == loc[c].prev
           linked == [mem EXCEPT ![new].next = loc[c].node]
       IN  /\ mem' = IF prev = Null THEN linked ELSE [linked EXCEPT ![prev].next = new]
           /\ head' = IF prev = Null THEN new ELSE head
    /\ pc' = [pc EXCEPT ![c] = "free_merge_previous"]
    /\ UNCHANGED <<index, holder, owner, loc, committed, ret>>

\* Mutant: the merged node stays linked.
pmm_tryMergeNodes_KeepsLink(node, next) ==
    IF mem[node].ptr + mem[node].size = mem[next].ptr
    THEN [mem EXCEPT ![node].size = @ + mem[next].size]
    ELSE mem

\* The memory after pmm_tryMergeNodes(node, next).
pmm_tryMergeNodes(node, next) ==
    IF mem[node].ptr + mem[node].size = mem[next].ptr
    THEN [mem EXCEPT ![node] = [next |-> mem[next].next, ptr |-> mem[node].ptr,
                                size |-> mem[node].size + mem[next].size]]
    ELSE mem

FreeMergePrevious(c) ==
    /\ pc[c] = "free_merge_previous"
    /\ mem' = IF loc[c].prev = Null
              THEN mem
              ELSE pmm_tryMergeNodes(loc[c].prev, loc[c].ptr)
    /\ pc' = [pc EXCEPT ![c] = "free_merge_next"]
    /\ UNCHANGED <<index, head, holder, owner, loc, committed, ret>>

\* The new node may be out of the list already: the previous one has it.
FreeMergeNext(c) ==
    /\ pc[c] = "free_merge_next"
    /\ mem' = IF loc[c].node = Null
              THEN mem
              ELSE pmm_tryMergeNodes(loc[c].ptr, loc[c].node)
    /\ pc' = [pc EXCEPT ![c] = "free_release"]
    /\ UNCHANGED <<index, head, holder, owner, loc, committed, ret>>

FreeRelease(c) ==
    /\ pc[c] = "free_release"
    /\ Lock!Release(c)
    /\ owner' = [p \in Pages |->
                    IF p \in Chunk(loc[c].ptr, loc[c].size) THEN Nobody ELSE owner[p]]
    /\ committed' = CurrentList
    /\ ret' = NoCall
    /\ pc' = [pc EXCEPT ![c] = "idle"]
    /\ loc' = [loc EXCEPT ![c] = NoLocals]
    /\ UNCHANGED <<index, mem, head>>

\* The steps a context takes by itself once it has called the manager.
Step(c) ==
    \/ AllocAcquire(c) \/ AllocSearch(c) \/ AllocTake(c) \/ AllocRelease(c)
    \/ FreeAcquire(c) \/ FreeSearch(c) \/ FreeLink(c)
    \/ FreeMergePrevious(c) \/ FreeMergeNext(c) \/ FreeRelease(c)

Next ==
    \/ InitEntry
    \/ \E c \in Contexts :
        \/ \E p \in Pages : UsePage(c, p)
        \/ \E size \in 1 .. MaxRequest : CallAlloc(c, size)
        \/ \E ptr \in Pages, size \in 1 .. MaxRequest : CallFree(c, ptr, size)
        \/ Step(c)

Spec == Init /\ [][Next]_vars

\* A core that is inside the manager keeps executing; calls are not obligatory.
LiveSpec == Spec /\ \A c \in Contexts : WF_vars(Step(c))

-----------------------------------------------------------------------------
NodeType == [next : {Null} \cup Pages, ptr : 0 .. MaxPage, size : 0 .. MaxPage]

TypeOK ==
    /\ index \in 0 .. Len(MemoryMap)
    /\ mem \in [Pages -> NodeType]
    /\ head \in {Null} \cup Pages
    /\ holder \in Contexts \cup {Nobody}
    /\ owner \in [Pages -> Contexts \cup {Nobody}]
    /\ DOMAIN pc = Contexts /\ DOMAIN loc = Contexts

\* While the lock is free the list in memory is the one its last holder left:
\* neither the words pmm_free writes before it takes the lock, nor what owners
\* write into their pages, nor the write to a node that was just merged away,
\* reaches a node of the list.
ListIntact == holder = Nobody => CurrentList = committed

\* The list and the words of memory it is made of.
ListInv == TypeOK /\ ListIntact

\* Two contexts are never handed the same page: a page becomes owned only when
\* nobody owns it, and changes hands only through the manager.
NoStolenPage ==
    [][\A p \in Pages : owner[p] # owner'[p] => owner[p] = Nobody \/ owner'[p] = Nobody]_vars

Manager == INSTANCE Pmm WITH
    PageSize <- 1, Word <- MaxPage + 3,
    freeList <- committed, owned <- {p \in Pages : owner[p] # Nobody}

\* Every operation takes effect atomically when its context releases the lock.
ImplementsPmm == Manager!Spec

-----------------------------------------------------------------------------
(* The inductive invariant, from which the properties above follow. *)

End(node) == node.ptr + node.size
Node == [ptr : Pages, size : Pages]

\* In address order, without overlaps, inside the memory.
Sound(list) ==
    /\ list \in Seq(Node)
    /\ \A i \in 1 .. Len(list) : End(list[i]) <= MaxPage + 1
    /\ \A i, j \in 1 .. Len(list) : i < j => End(list[i]) <= list[j].ptr

Covers(list, p) == \E i \in 1 .. Len(list) : list[i].ptr <= p /\ p < End(list[i])

\* Where the link of node i leads; link 0 is the head.
LinkOf(list, i) == IF i < Len(list) THEN list[i + 1].ptr ELSE Null

\* The words of memory and the head hold the list: each node lies at the start
\* of its range.
StoredIn(words, first, list) ==
    /\ first = LinkOf(list, 0)
    /\ \A i \in 1 .. Len(list) :
        words[list[i].ptr] =
            [next |-> LinkOf(list, i), ptr |-> list[i].ptr, size |-> list[i].size]

Stored(list) == StoredIn(mem, head, list)

AllocInside == {"alloc_search", "alloc_take", "alloc_release"}
FreeInside ==
    {"free_search", "free_link", "free_merge_previous", "free_merge_next", "free_release"}
Inside == AllocInside \cup FreeInside
InAlloc == AllocInside \cup {"alloc_acquire"}
InFree == FreeInside \cup {"free_acquire"}
Labels == {"idle"} \cup InAlloc \cup InFree

Locals == [ptr : Nat, size : Nat, prev : {Null} \cup Pages, node : {Null} \cup Pages, ret : Nat]

Freed(c) == [ptr |-> loc[c].ptr, size |-> loc[c].size]

\* What a context has to itself during a call: its parameters, and the pages that
\* it frees, in the first of which it has written their range.
CallInv(c) ==
    /\ pc[c] \in Inside <=> holder = c
    /\ pc[c] = "alloc_acquire" => loc[c].ret = Null /\ loc[c].prev = Null
    /\ pc[c] = "free_acquire" => loc[c].prev = Null
    /\ pc[c] \in InAlloc \cup InFree => loc[c].size \in 1 .. MaxRequest
    /\ pc[c] \in InFree =>
        /\ Freed(c) \in Node
        /\ End(Freed(c)) <= MaxPage + 1
        /\ \A p \in Chunk(loc[c].ptr, loc[c].size) : owner[p] = c
    /\ pc[c] \in InFree \ {"free_release"} =>
        mem[loc[c].ptr].ptr = loc[c].ptr /\ mem[loc[c].ptr].size = loc[c].size

\* Where the holder of the lock is in the list, and what it knows of it: the two
\* pointers of its search stand before and at place k of the list that it found.
Found(c, k) ==
    /\ loc[c].prev = (IF k = 1 THEN Null ELSE committed[k - 1].ptr)
    /\ loc[c].node = LinkOf(committed, k - 1)
    /\ pc[c] \in AllocInside =>
        /\ \A j \in 1 .. k - 1 : committed[j].size < loc[c].size
        /\ pc[c] = "alloc_take" => k <= Len(committed)
        /\ pc[c] # "alloc_search" /\ k <= Len(committed) =>
            committed[k].size >= loc[c].size
        /\ loc[c].ret = IF pc[c] = "alloc_release" /\ k <= Len(committed)
                         THEN End(committed[k]) - loc[c].size ELSE Null
    /\ pc[c] \in FreeInside =>
        /\ \A j \in 1 .. k - 1 : committed[j].ptr < loc[c].ptr
        /\ pc[c] # "free_search" /\ k <= Len(committed) =>
            committed[k].ptr >= loc[c].ptr

\* The list that is in memory while the lock is held, stage by stage.
Linked(c, k) == Manager!InsertAt(committed, k, Freed(c))
Merged(c, k) ==
    IF k > 1 THEN Manager!pmm_tryMergeNodes(Linked(c, k), k - 1) ELSE Linked(c, k)

StageList(c, k) ==
    CASE pc[c] = "alloc_release" /\ k <= Len(committed) -> Manager!Take(k, loc[c].size)
      [] pc[c] = "free_merge_previous" -> Linked(c, k)
      [] pc[c] = "free_merge_next" -> Merged(c, k)
      [] pc[c] = "free_release" -> Manager!GiveBack(k, Freed(c))
      [] OTHER -> committed

\* Before pmm_init is over nobody has called, and the nodes of the list lie above
\* the entries that it has still to look at.
BootInv ==
    index > 0 =>
        /\ pc = [c \in Contexts |-> "idle"]
        /\ owner = [p \in Pages |-> Nobody]
        /\ ret = NoCall
        /\ \A i \in 1 .. Len(committed), j \in 1 .. index :
            End(MemoryMap[j]) <= committed[i].ptr

\* While a context is inside, memory holds the list of its stage.
StageInv(c) ==
    pc[c] \in Inside =>
        \E k \in 1 .. Len(committed) + 1 : Found(c, k) /\ Stored(StageList(c, k))

LockedInv ==
    /\ TypeOK
    /\ pc \in [Contexts -> Labels] /\ loc \in [Contexts -> Locals]
    /\ BootInv
    /\ Sound(committed)
    /\ \A p \in Pages : Covers(committed, p) => owner[p] = Nobody
    /\ holder = Nobody => Stored(committed)
    /\ \A c \in Contexts : CallInv(c) /\ StageInv(c)

\* No walk of the list goes round in circles: whoever is inside the lock comes
\* out again.
CriticalSectionEnds == \A c \in Contexts : holder = c ~> holder # c
=============================================================================
