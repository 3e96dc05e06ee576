------------------------------- MODULE MmList -------------------------------
(***************************************************************************)
(* The generic list of memory ranges of kernel/src/arch/amd64/mm/mm.c.  It *)
(* is used twice: for the free virtual memory of a paging context, whose   *)
(* nodes are kept elsewhere (module VmmHeap), and for the pool of malloc,  *)
(* whose nodes lie at the start of the range they describe (module         *)
(* Malloc).  An entry is [node, ptr, size]: the address of the node and    *)
(* the range in it.                                                        *)
(***************************************************************************)
EXTENDS Integers, Sequences, SequencesExt

CONSTANT PageSize   \* C_MM_PAGE_SIZE

ASSUME PageSizeAssumption == PageSize \in Nat \ {0}

Null == 0

mm_roundDownPage(x) == x - (x % PageSize)

\* Without the wrap at the end of the address space, which Pmm is about.
mm_roundUpPage(x) ==
    IF mm_roundDownPage(x) # x THEN mm_roundDownPage(x) + PageSize ELSE x

\* Mutant: only the start is aligned, the size stays as it was.
mm_alignRange_KeepsSize(range) ==
    [ptr |-> mm_roundDownPage(range.ptr), size |-> range.size]

\* The smallest range of whole pages around the given one.
mm_alignRange(range) ==
    LET offset == range.ptr % PageSize
    IN  [ptr |-> range.ptr - offset, size |-> mm_roundUpPage(range.size + offset)]

mm_getEntryEndAddress(e) == e.ptr + e.size

Chunk(ptr, size) == ptr .. (ptr + size - 1)

\* The memory a list describes.
Memory(list) == UNION {Chunk(list[i].ptr, list[i].size) : i \in DOMAIN list}

-----------------------------------------------------------------------------
(***************************************************************************)
(* Each operation returns the new list; mm_alloc also the pointer, and     *)
(* mm_addNodeToMap the nodes it passed to the p_freeNode callback, in      *)
(* order.                                                                  *)
(***************************************************************************)

\* Mutant: the node is not shrunk.
mm_alloc_KeepsSize(list, size) ==
    LET i == SelectInSeq(list, LAMBDA e : e.size >= size)
    IN  IF i = 0
        THEN [list |-> list, ptr |-> Null]
        ELSE IF list[i].size = size
        THEN [list |-> RemoveAt(list, i), ptr |-> list[i].node]
        ELSE [list |-> list, ptr |-> mm_getEntryEndAddress(list[i]) - size]

\* First fit, taken from the end of the node.  On an exact fit the node is
\* unlinked and the NODE's address is what is returned.
mm_alloc(list, size) ==
    LET i == SelectInSeq(list, LAMBDA e : e.size >= size)
    IN  IF i = 0
        THEN [list |-> list, ptr |-> Null]
        ELSE IF list[i].size = size
        THEN [list |-> RemoveAt(list, i), ptr |-> list[i].node]
        ELSE [list |-> [list EXCEPT ![i].size = @ - size],
              ptr |-> mm_getEntryEndAddress(list[i]) - size]

\* Mutant: neighbours are merged whether or not they touch.
mm_tryMergeNodes_NoTest(list, i) ==
    IF i < Len(list)
    THEN [list |-> RemoveAt([list EXCEPT ![i].size = @ + list[i + 1].size], i + 1),
          freed |-> <<list[i + 1].node>>]
    ELSE [list |-> list, freed |-> <<>>]

\* Merges node i with its successor when the range of node i ends where the
\* NODE that follows is stored.
mm_tryMergeNodes(list, i) ==
    IF i < Len(list) /\ mm_getEntryEndAddress(list[i]) = list[i + 1].node
    THEN [list |-> RemoveAt([list EXCEPT ![i].size = @ + list[i + 1].size], i + 1),
          freed |-> <<list[i + 1].node>>]
    ELSE [list |-> list, freed |-> <<>>]

\* Links the node in address order, then tries to merge the next node with it
\* and, if there is one, the previous node with its successor.
mm_addNodeToMap(list, e) ==
    LET above == SelectInSeq(list, LAMBDA x : x.ptr >= e.ptr)
        k == IF above = 0 THEN Len(list) + 1 ELSE above
        next == mm_tryMergeNodes(InsertAt(list, k, e), k)
        previous == IF k > 1
                    THEN mm_tryMergeNodes(next.list, k - 1)
                    ELSE [list |-> next.list, freed |-> <<>>]
    IN  [list |-> previous.list, freed |-> next.freed \o previous.freed]
=============================================================================
