------------------------------- MODULE Paging -------------------------------
(***************************************************************************)
(* The page tables of the kernel context, kernel/src/arch/amd64/mm/vmm.c:  *)
(* the four-level walk of vmm_map, which takes a page from the physical    *)
(* memory manager for each missing table, vmm_unmap with the recursion     *)
(* that gives empty tables back, and the translation that                  *)
(* vmm_getPhysicalAddress2 (and the processor) reads off the tables.       *)
(*                                                                         *)
(* Tables have Fanout slots (512 in the code); masks and shifts are % and  *)
(* \div by powers of Fanout.  Each call holds the context's spinlock       *)
(* throughout, so it is one step, but for the error path of vmm_map, which *)
(* calls vmm_unmap while it holds the lock.                                *)
(***************************************************************************)
EXTENDS MmList, PageAttributes, FiniteSetsExt

CONSTANTS
    Fanout,         \* entries of a paging structure
    TableFrames,    \* the physical pages that pmm_alloc can hand out
    BootMappings,   \* what vmm_initHHDM and then vmm_mapKernel map, in order
    HeapPages,      \* virtual pages that callers map and unmap
    DataFrames,     \* the physical pages that callers map
    CallerFlags,    \* [prot, cache] of their mappings
    MapSizes,       \* how many bytes callers map at once
    UnmapSizes      \* how many bytes callers unmap at once

Slots == 0 .. (Fanout - 1)
s_vmm_kernelPml4 == 1
Frames == TableFrames \cup {s_vmm_kernelPml4}

\* The physical pages that the boot mappings lead to.
BootFrames ==
    UNION {(BootMappings[i].pptr \div PageSize) ..
               ((BootMappings[i].pptr + BootMappings[i].size) \div PageSize) :
             i \in DOMAIN BootMappings}

ASSUME PagingAssumption ==
    /\ Fanout \in Nat \ {0, 1}
    /\ TableFrames \subseteq Nat \ {0, s_vmm_kernelPml4}
    /\ TableFrames \cap DataFrames = {}

VARIABLES
    boot,       \* boot mappings still to be made
    mem,        \* the contents of each page that is or was a table
    pmmFree,    \* what pmm_alloc can still return (external)
    pml4,       \* m_pagingContext
    lock,       \* m_spinlock between two steps: "open" or "taken"
    rollback,   \* the range that vmm_map has still to unmap after an error
    freedTwice, \* history: pmm_free was given a page that was free
    strayed,    \* history: tables that stayed in use while the table above
                \* them was given back
    call        \* history: the last call, in pages

vars == <<boot, mem, pmmFree, pml4, lock, rollback, freedTwice, strayed, call>>

Absent == [to |-> Null, bits |-> {}]
\* What a page holds that nobody has cleared: here, entries that look present.
Junk == [i \in Slots |-> [to |-> s_vmm_kernelPml4, bits |-> {"RW"}]]
Empty == [i \in Slots |-> Absent]
NoRange == [ptr |-> Null, size |-> 0]

Init ==
    /\ boot = BootMappings
    /\ mem = [f \in Frames |-> IF f = s_vmm_kernelPml4 THEN Empty ELSE Junk]
    /\ pmmFree = TableFrames
    /\ pml4 = s_vmm_kernelPml4
    /\ lock = "open"
    /\ rollback = NoRange
    /\ freedTwice = FALSE
    /\ strayed = {}
    /\ call = [op |-> "none"]

\* The slot of page v in a table of the given level; the root has level 4.
Index(v, level) == (v \div Fanout^(level - 1)) % Fanout

Lookup(table, i) == IF table \in Frames THEN mem[table][i] ELSE Absent

\* What vmm_getPhysicalAddress2 goes down: where the slots of some tables lead,
\* with the numbers of the pages, or of the tables of pages, that they are for.
Down(places) ==
    {p \in {[page |-> p.page * Fanout + i, entry |-> Lookup(p.entry.to, i)] :
               p \in places, i \in Slots} : p.entry # Absent}

LowestTables == Down(Down(Down({[page |-> 0, entry |-> [to |-> pml4]]})))
MappedPages == Down(LowestTables)

\* The pages of an aligned range.
Run(range) == (range.ptr \div PageSize) .. ((range.ptr + range.size) \div PageSize - 1)

\* The tables of each level that the root leads to, as the processor sees it.
Below(tables) == {Lookup(t, i).to : t \in tables, i \in Slots} \ {Null}
UpperTables == LET pdpts == Below({pml4}) IN {pml4} \cup pdpts \cup Below(pdpts)
Tables == {pml4} \cup Below(UpperTables)
Links == {<<t, i>> \in UpperTables \X Slots : Lookup(t, i).to # Null}

-----------------------------------------------------------------------------
(* vmm_map *)

\* Goes down from table s.at through slot i, with a new, cleared table if the
\* slot is not present.  Which page pmm_alloc returns makes no difference.
NextTable(s, i) ==
    LET entry == s.mem[s.at][i]
        new == CHOOSE f \in s.free : TRUE
    IN  IF s.error THEN s
        ELSE IF entry.to # Null THEN [s EXCEPT !.at = entry.to]
        ELSE IF s.free = {} THEN [s EXCEPT !.error = TRUE]
        ELSE [s EXCEPT !.mem[new] = Empty,
                       !.mem[s.at][i] = [to |-> new, bits |-> {"RW", "US", "PWT"}],
                       !.free = @ \ {new}, !.at = new]

\* Mutant: the indices of the page directory and of its pointer table are
\* exchanged.
MapPage_SwappedIndices(s, v, entry) ==
    LET pt == NextTable(NextTable(NextTable([s EXCEPT !.at = pml4],
                  Index(v, 4)), Index(v, 2)), Index(v, 3))
    IN  IF pt.error THEN pt
        ELSE [pt EXCEPT !.mem[pt.at][Index(v, 1)] = entry, !.done = @ + 1]

\* One iteration of the loop of vmm_map.  The code keeps the tables of the page
\* before while the indices do not carry, which leads to the same tables.
MapPage(s, v, entry) ==
    LET pt == NextTable(NextTable(NextTable([s EXCEPT !.at = pml4],
                  Index(v, 4)), Index(v, 3)), Index(v, 2))
    IN  IF pt.error THEN pt
        ELSE [pt EXCEPT !.mem[pt.at][Index(v, 1)] = entry, !.done = @ + 1]

\* What the loop leaves behind: the tables, how many pages it mapped, and
\* whether pmm_alloc failed.
MapPages(v, frame, count, bits) ==
    LET Walk[n \in 0 .. count] ==
            IF n = 0
            THEN [mem |-> mem, free |-> pmmFree, at |-> pml4, error |-> FALSE, done |-> 0]
            ELSE MapPage(Walk[n - 1], v + n - 1, [to |-> frame + n - 1, bits |-> bits])
    IN  Walk[count]

\* How a caller wants to use the pages.
Attribute(flags) ==
    [writable |-> "READ_WRITE" \in flags.prot, type |-> flags.cache]

\* When a table cannot be allocated, vmm_map goes on to vmm_unmap with the lock
\* in its hands.
vmm_map(vptr, pptr, size, flags) ==
    /\ lock = "open"
    /\ vptr % PageSize = pptr % PageSize    \* or EINVAL
    /\ LET virtual == mm_alignRange([ptr |-> vptr, size |-> size])
           physical == mm_alignRange([ptr |-> pptr, size |-> size])
           v == virtual.ptr \div PageSize
           loop == MapPages(v, physical.ptr \div PageSize, physical.size \div PageSize,
                       PteBits(flags.prot, flags.cache, Index(v, 4) < Fanout \div 2))
       IN  /\ mem' = loop.mem
           /\ pmmFree' = loop.free
           /\ IF loop.error
              THEN /\ lock' = "taken"
                   /\ rollback' = [ptr |-> vptr, size |-> loop.done * PageSize]
              ELSE UNCHANGED <<lock, rollback>>
           /\ call' = [op |-> "map", first |-> v, count |-> loop.done,
                       frame |-> physical.ptr \div PageSize, attr |-> Attribute(flags)]
    /\ UNCHANGED <<pml4, freedTwice, strayed>>

\* vmm_initHHDM and vmm_mapKernel: one vmm_map per entry.
BootMap ==
    /\ boot # <<>>
    /\ boot' = Tail(boot)
    /\ LET m == Head(boot) IN vmm_map(m.vptr, m.pptr, m.size, m.flags)

CallMap(vptr, pptr, size, flags) ==
    /\ boot = <<>>
    /\ vmm_map(vptr, pptr, size, flags)
    /\ UNCHANGED boot

-----------------------------------------------------------------------------
(* vmm_unmap.  s is [mem, free, twice]: the memory, the free pages, and     *)
(* whether a page was freed twice.                                          *)

\* pmm_free of one page: the manager keeps a list node in it.
pmm_free(s, f) ==
    [mem |-> [s.mem EXCEPT ![f] = Junk], free |-> s.free \cup {f},
     twice |-> s.twice \/ f \in s.free]

\* The end of vmm_unmapRecursive: the slots between first and last are taken to
\* be empty.  One of them is not when the call covered its table end to end.
FreeIfEmpty(s, table, first, last) ==
    IF \E i \in (0 .. first) \cup (last .. Fanout - 1) : s.mem[table][i].to # Null
    THEN [s |-> s, freed |-> FALSE]
    ELSE [s |-> pmm_free(s, table), freed |-> TRUE]

\* Mutant: the pages are unmapped and the table is never looked at again.
UnmapPages_KeepsTable(s, table, index, count) ==
    [s |-> [s EXCEPT !.mem[table] =
               [i \in Slots |-> IF i \in index .. (index + count - 1)
                                THEN Absent ELSE @[i]]],
     freed |-> FALSE]

\* Level 1.  The count was masked to less than Fanout: a call that covers the
\* whole table unmaps none of its pages.
UnmapPages(s, table, index, count) ==
    LET cleared == [s EXCEPT !.mem[table] =
                       [i \in Slots |-> IF i \in index .. (index + count - 1)
                                        THEN Absent ELSE @[i]]]
    IN  FreeIfEmpty(cleared, table, index, index)

RECURSIVE vmm_unmapRecursive(_, _, _, _, _), UnmapSlots(_, _, _, _, _, _)

\* Mutant: the slot of a table that was given back is not cleared.
UnmapSlots_KeepsLink(s, table, index, count, level, modified) ==
    IF count = 0
    THEN [s |-> s, modified |-> modified, last |-> (index - 1) \div Fanout^(level - 1)]
    ELSE LET below == index % Fanout^(level - 1)
             n == Min({Fanout^(level - 1) - below, count})
             slot == index \div Fanout^(level - 1)
             sub == vmm_unmapRecursive(s, s.mem[table][slot].to, below, n, level - 1)
         IN  UnmapSlots(sub.s, table, index + n, count - n, level, modified \/ sub.freed)

\* The loop of the upper levels: [s, modified, last slot].
UnmapSlots(s, table, index, count, level, modified) ==
    IF count = 0
    THEN [s |-> s, modified |-> modified, last |-> (index - 1) \div Fanout^(level - 1)]
    ELSE LET below == index % Fanout^(level - 1)
             n == Min({Fanout^(level - 1) - below, count})
             slot == index \div Fanout^(level - 1)
             sub == vmm_unmapRecursive(s, s.mem[table][slot].to, below, n, level - 1)
         IN  UnmapSlots(IF sub.freed THEN [sub.s EXCEPT !.mem[table][slot] = Absent] ELSE sub.s,
                 table, index + n, count - n, level, modified \/ sub.freed)

\* vmm_unmapRecursive(table, index, count, level): the new state and whether
\* the table was given back.
vmm_unmapRecursive(s, table, pageIndex, pageCount, level) ==
    LET index == pageIndex % Fanout^level
        count == pageCount % Fanout^level
        loop == UnmapSlots(s, table, index, count, level, FALSE)
    IN  IF level = 1 THEN UnmapPages(s, table, index, count)
        ELSE IF loop.modified
             THEN FreeIfEmpty(loop.s, table, index \div Fanout^(level - 1), loop.last)
             ELSE [s |-> loop.s, freed |-> FALSE]

\* vmm_unmap after spinlock_acquire.  When the root is given back it is freed
\* once more.
vmm_unmap(ptr, size) ==
    LET range == mm_alignRange([ptr |-> ptr, size |-> size])
        walk == vmm_unmapRecursive([mem |-> mem, free |-> pmmFree, twice |-> freedTwice],
                    pml4, range.ptr \div PageSize, range.size \div PageSize, 4)
        after == IF walk.freed THEN pmm_free(walk.s, pml4) ELSE walk.s
        wholeTables ==
            {p.entry.to : p \in {q \in LowestTables :
                (q.page * Fanout) .. (q.page * Fanout + Fanout - 1) \subseteq Run(range)}}
    IN  /\ lock = "open"
        /\ mem' = after.mem
        /\ pmmFree' = after.free
        /\ freedTwice' = after.twice
        /\ pml4' = IF walk.freed THEN Null ELSE pml4
        /\ strayed' = strayed \cup (wholeTables \ (pmmFree' \cup Tables'))
        /\ call' = [op |-> "unmap", first |-> range.ptr \div PageSize,
                    count |-> range.size \div PageSize]
        /\ UNCHANGED lock

\* Nothing checks that an entry is present on the way down: callers unmap what
\* they have mapped.
CallUnmap(ptr, size) ==
    /\ boot = <<>>
    /\ Run(mm_alignRange([ptr |-> ptr, size |-> size])) \subseteq {p.page : p \in MappedPages}
    /\ vmm_unmap(ptr, size)
    /\ UNCHANGED <<boot, rollback>>

\* The vmm_unmap in the error path of vmm_map.
Rollback ==
    /\ rollback # NoRange
    /\ vmm_unmap(rollback.ptr, rollback.size)
    /\ rollback' = NoRange
    /\ UNCHANGED boot

HeapBytes == {v * PageSize + offset : v \in HeapPages, offset \in 0 .. (PageSize - 1)}
DataBytes == {f * PageSize + offset : f \in DataFrames, offset \in 0 .. (PageSize - 1)}

Next ==
    \/ BootMap
    \/ \E vptr \in HeapBytes, pptr \in DataBytes, size \in MapSizes, flags \in CallerFlags :
        /\ Chunk(vptr, size) \subseteq HeapBytes
        /\ Chunk(pptr, size) \subseteq DataBytes
        /\ CallMap(vptr, pptr, size, flags)
    \/ \E ptr \in HeapBytes, size \in UnmapSizes :
        /\ Chunk(ptr, size) \subseteq HeapBytes
        /\ CallUnmap(ptr, size)

Spec == Init /\ [][Next]_vars

\* vmm_map goes on with its error path as soon as it can.
LiveSpec == Init /\ [][Next \/ Rollback]_vars /\ WF_vars(Rollback)

-----------------------------------------------------------------------------
TypeOK ==
    /\ DOMAIN mem = Frames
    /\ \A f \in Frames : mem[f] \in
        [Slots -> [to : {Null} \cup Frames \cup DataFrames \cup BootFrames,
                   bits : SUBSET {"RW", "US", "PWT", "PCD", "PAT"}]]
    /\ pmmFree \subseteq Frames
    /\ pml4 \in {s_vmm_kernelPml4, Null}
    /\ lock \in {"open", "taken"}
    /\ strayed \subseteq TableFrames

\* The tables form a tree of pages that belong to the context: each is reached
\* through one slot, and pmm_alloc can hand out none of them.  Otherwise a
\* mapping would change the tables of another address.  None was given back
\* twice, and the root stays, since the kernel's own mappings keep it in use.
TablesFormTree ==
    /\ Tables \cap pmmFree = {}
    /\ Cardinality(Links) = Cardinality(Tables \ {pml4})
    /\ ~freedTwice /\ pml4 = s_vmm_kernelPml4

\* What pmm_alloc handed out for a table is a table of the context until it is
\* given back.  The code loses a page in one case only: an unmapping covers a
\* table end to end, which unmaps nothing in it (vmm.c:639), and gives back the
\* directory above, in which it does not look at the slots between the first
\* and the last (vmm.c:693-704).  Such a table is no longer linked from anywhere.
NoTableLost ==
    /\ TableFrames \subseteq pmmFree \cup Tables \cup strayed
    /\ strayed \cap (pmmFree \cup Tables) = {}

\* Unmapping the last page of a table gives the table back, level by level.
NoEmptyTable ==
    lock = "open" => \A t \in Tables : t = pml4 \/ \E i \in Slots : Lookup(t, i).to # Null

\* The pages of the tables through mappings, failures, and unmappings of whole
\* tables and of parts of them: each is in use, given back, or lost as above.
TablesInv == TypeOK /\ NoTableLost /\ NoEmptyTable

\* What the processor makes of the tables.
Translation ==
    {[page |-> p.page, to |-> p.entry.to,
      attr |-> [writable |-> "RW" \in p.entry.bits, type |-> MemoryType(p.entry.bits)]] :
        p \in MappedPages}

Space == INSTANCE AddressSpace WITH
    VirtualPages <- 0 .. (Fanout^4 - 1),
    PhysicalPages <- DataFrames \cup BootFrames,
    Attributes <- {Attribute(flags) : flags \in CallerFlags}
                     \cup {Attribute(BootMappings[i].flags) : i \in DOMAIN BootMappings},
    TablePages <- Fanout,
    space <- Translation

\* The tables implement an address space: a call changes the translation of
\* the pages it is about and of no other page.  A mapping makes each of them
\* lead where the call says, writable and cached as the bits of its flags ask;
\* in the flags that vmm.c:552 "Map .text as RX" asks with, the bit for writable is set
\* (vmm.h:14).  An unmapping removes each page of the tables that it covers in
\* part, but may leave what it was told to remove, against vmm.h:110, in the
\* tables that it covers end to end (vmm.c:639).
ImplementsAddressSpace == Space!Spec

\* vmm.c:290 "Unmap pages": a vmm_map that runs out of memory undoes what it
\* did and comes back.
ErrorPathEnds == rollback # NoRange ~> rollback = NoRange
=============================================================================
