# TLA+ models of the AnkeOS kernel

This directory models the parts of the kernel in `kernel/src` that carry its
own logic - memory management, interrupt entry and handlers, ACPI tables and their
namespace, the file system tree, formatted output - checks them with TLC and proves the most important results with TLAPS. Paths and line numbers below are
relative to the root of the repository.

## The system

AnkeOS is an amd64 kernel in C and assembly, loaded by Limine. One core is
configured, but the allocators are written for several (spinlocks, one task
state segment per core). There is no scheduler yet: what runs concurrently are
interrupts and exceptions over the code they interrupt, and, by design, the
contexts that contend for the spinlocks. The repository has no tests.

| part | state | operations | used by |
|---|---|---|---|
| spinlock (`spinlock.asm`) | one word | acquire, release | pmm, every paging context |
| physical memory manager (`mm/pmm.c`) | ordered list of free ranges, its nodes inside the free pages | `pmm_init`, `pmm_alloc`, `pmm_free` | vmm (tables, list nodes), malloc |
| range lists (`mm/mm.c`) | a list of ranges | `mm_alloc`, `mm_addNodeToMap`, `mm_tryMergeNodes`, `mm_alignRange` | vmm, malloc |
| address space of a context (`mm/vmm.c`) | `m_map`, the pool `m_mapEntryPool`, `m_memoryAllocations` | `vmm_alloc`, `vmm_free`, refill of the pool | malloc |
| page tables (`mm/vmm.c`) | four levels of tables | `vmm_map`, `vmm_unmap`, `vmm_getPhysicalAddress` | boot, malloc |
| heap (`stdlib.c`) | pool of free ranges, nodes at the start of each | `malloc`, `free`, refill | list, irq, vfs |
| interrupt controllers (`pic.c`, `irq.asm`) | masks, lines in service | init, enable, disable, end of interrupt | interrupt entry |
| interrupt entry (`idt.c`, `isr.asm`, `isr.c`, `task.asm`, `irq.c`) | `g_task_currentTaskContext` | save, serve, resume, dump | everything |
| handler registry (`irq.c`, `list.c`) | a list per line | add, remove, serve | nobody yet |
| boot (`bootstrap.c`, `arch.c`, `main.c`) | copy of the boot loader's answers | the order of the init calls | - |
| ACPI tables (`acpi/`) | `s_rsdp`, `s_acpi` | set the root pointer, init, register a table | nobody yet |
| AML interpreter (`acpi/aml.c`) | namespace | parse | ACPI tables |
| VFS (`vfs/vfs.c`) | root, file systems | mount, register, look up | nobody yet |
| output (`sprintf.c`, `printk.c`, `vprintk.c`) | a context per call | formatting, the port of the debug console | everything |
| strings (`string.c`) | none | copies and comparisons | everything |

What is hard here, and to be modelled rather than tested:

* allocators whose lists lie in the memory they manage, so that a wrong link
  shows many calls later, as memory that is lost or handed out twice;
* a page that changes owner while another context walks the list it was in;
* allocators that call each other: `vmm_free` needs a page from `pmm_alloc` when
  its pool is dry, `vmm_map` for every table, `malloc` both, and each of those
  calls can fail half way;
* tables that are given back level by level when they become empty;
* interrupts that nest over exceptions while both save into one global context;
* interrupts that walk a list of handlers between two stores of the code that adds one;
* calls that allocate twice and fail the second time, and a caller that then looks at
  the wrong variable;
* a parser that believes the lengths in the bytes it parses;
* widths and edges: `size_t` that wraps, masks that turn a full table into 0, the last
  byte of a buffer.

`PROJECT.json` lists each hazard at its line with the properties that watch it.

## Modules

| module | what it is | maps to |
|---|---|---|
| `Mutex` | abstract lock: one holder at most | what users of `spinlock.h` rely on |
| `Spinlock` | the instructions of the lock | `spinlock.asm`; implements `Mutex` |
| `PageAllocator` | abstract allocator of byte sets | the contract in `pmm.h` |
| `Pmm` | the free list, one step per call | `pmm.c`, roundings of `mm.c`; implements `PageAllocator` |
| `Bootstrap` | the copy of the boot loader's memory map that `Pmm` starts from | `bootstrap.c` |
| `PmmProofs` | theorems about `Pmm`, `Bootstrap` and `Spinlock` | |
| `PmmLocked` | the same, one step per loop iteration or group of stores, several contexts, nodes in the pages | `pmm.c`; uses `Mutex`, implements `Pmm` |
| `PmmLockedProofs` | theorems about `PmmLocked`, the refinement of `Pmm` among them | |
| `MmList` | the range list as pure operators | `mm.c` |
| `VmmHeap` | address space of the kernel context and its pool of nodes | `vmm.c` |
| `VmmHeapProofs` | lemmas about `MmList`, theorems about `VmmHeap` | |
| `AddressSpace` | abstract translation: a call changes its pages only | the contract in `vmm.h` |
| `PageAttributes` | flags to bits of an entry, bits to memory types | `vmm.h`, `vmm.c` |
| `Paging` | four levels of tables | `vmm.c`; implements `AddressSpace` |
| `Malloc` | heap and refill | `stdlib.c`, on `MmList` |
| `MallocProofs` | theorems about `Malloc` | |
| `Pic` | the bytes of `pic.c` and the two 8259 | `pic.c`, `irq.asm` |
| `Interrupts` | processor, gates, entry code, saved context | `idt.c`, `isr.asm`, `isr.c`, `task.asm`, `irq.c`, `arch.c` |
| `InterruptsProofs` | theorems about `Interrupts` and `Printf` | |
| `Acpi` | validation and registration of the firmware's tables | `acpi.c`, `rsdp.c`, `rsdt.c`, `xsdt.c`, `sdt.c`, `table.c`, `fadt.c`, end of `dsdt.c` |
| `AcpiProofs` | theorems about `Acpi` | |
| `Aml` | the parser of AML scopes and the namespace | `aml.c` |
| `AmlProofs` | theorems about `Aml` | |
| `List` | list nodes and the blocks of a small heap | `list.c` |
| `IrqHandlers` | handlers of each line, added store by store and called by interrupts | `irq.c`, on `List` |
| `Vfs` | root of the file system tree, list of file systems | `vfs.c`, on `List` |
| `Services` | `IrqHandlers` and `Vfs` on one heap | |
| `ServicesProofs` | theorems about `Services`, `IrqHandlers`, `Vfs` and `List` | |
| `Printf` | conversion of a format, character by character | `sprintf.c`, `vprintk.c` |
| `MCPmm`, `MCPmmLocked`, `MCPaging`, `MCAcpi`, `MCAml`, `MCServices`, `MCPrintf` | instances for TLC | |

The chain of refinements is: `Spinlock` implements `Mutex`; `PmmLocked`, which
uses the abstract lock, implements `Pmm`; `Pmm` implements `PageAllocator`. So
the calls of the physical memory manager may be treated as single steps on a
set of bytes, which is how the other modules see it (a set of free pages,
marked external). In the same way `Paging` implements `AddressSpace`.

### How state and actions correspond

* **Spinlock.** `word` is bit 0 of the lock word, `pc` the place of each context
  in `spinlock_acquire`. One action per access: `Test` (line 12), `BitTestAndSet`
  (16), `Pause` (22), `Release` (28).
* **Pmm.** `freeList` is `s_freeMemoryEntryList` as a sequence of ranges, `owned`
  the bytes callers hold. `InitEntry` is one iteration of the loop of `pmm_init`;
  its offset wraps as in the code. `pmm_free` includes both merge attempts: when
  the first one swallows the new node, the second works on a node that has left
  the list and does not change it. The guard of `pmm_free` is the callers' duty:
  whole pages they own.
* **PmmLocked.** `mem` holds the node in each page; `loc` are locals. `UsePage` is
  an owner that writes into its page something that looks like a node. `committed` is the
  list when the lock was last released, which is what `Pmm`'s list is mapped to.
* **VmmHeap.** `map`, `pool`, `allocations` are the three lists of the context. A
  refill leaves one usable node per page, as the loop of `vmm_refillEntryPool`
  does. `misreturned` records that an exact fit has returned a node's address
  (see the findings): from then on zones are not in the heap, and the properties
  that are about zones say nothing. The one about nodes goes on.
* **Paging.** `mem` is the contents of the pages used as tables; a page that nobody has
  cleared holds entries that look present. The loop of `vmm_map` keeps the
  tables of the previous page while indices do not carry; the model walks down
  again, which leads to the same tables. `vmm_unmapRecursive` is translated as it
  is, masks included: a call that covers a table end to end unmaps nothing in it, and the end of the
  recursion does not look at the slots between the first and the last, so that the directory of such a table can be given
  back over its head. `strayed` keeps the tables lost in this way. When `vmm_map` runs out of tables it keeps the lock and
  `Rollback` stands for the `vmm_unmap` it then calls.
* **Malloc.** The pool's node lies at the start of its range (`node = ptr`), which is
  what makes the merge test of `mm.c` right here. `RefillChunk` and `RefillRetry`
  are the two outcomes of `pmm_alloc` in the loop. `vmm_map` takes pages for tables and directories from the same `pmmFree`
  (`NewTables`); without enough of them it does not come back (`hung`, see `Paging`). A refill that fails has either mapped something,
  and ends in a page fault (`fault`), or nothing, and ends in the panic of `vmm_free`, which gets no page for a list node (`panic`).
  So the giving back of chunks by the rollback never happens, in the model as in the code. `vmm_alloc` takes
  the end of the first range of the heap, so refills go downwards. The real heap has 510 GiB:
  its exhaustion, where an exact fit could occur, is `VmmHeap`'s subject.
* **Interrupts.** A context has registers, interrupt flag and position. `saved` is
  `g_task_currentTaskContext`; `stack` is history, what was interrupted. The
  gates decide about the flag (`GateClearsIf`). Each controller takes its initialization byte by byte
  (`Pic`): the 255 that should mask the slave is what it takes for its mode, with automatic end of interrupt.
* **Acpi.** `fw` is what lies in the firmware's memory and never changes: tables with
  the sum of their bytes, so that checksums are taken modulo 256, and root pointers with
  two sums, one for each checksum. `acpi` is the pointers of `s_acpi`, by signature. A root
  table has a list of entries, as many as its length says. `acpi_tableRegister` calls
  itself, through `acpi_fadtInit`, as the last thing it does, so `pending` is a queue. The pointer to
  the DSDT in a FADT is not null. The AML interpreter, which is given the table built into `dsdt.c`, answers anything; what is said of the
  DSDT is said of the pointer `m_dsdt`.
* **Bootstrap.** `LoaderMap` is the boot loader's answer; `bootstrap_init` selects the three types that are
  copied, cuts the copy at `MaxEntries` and makes everything but usable memory reserved. `Pmm`'s
  constant `MemoryMap` is the result.
* **Aml.** `nodes` are the nodes in the order of allocation, each with its parent and its children in list order;
  `lists` is the recursion of `acpi_amlParseTermList` through `acpi_amlParseDefScope`, with the position in
  each list. A path is its segments, since only the dots between them matter to the code that takes it
  apart. A failed allocation leaves `l_node` uninitialised: the model then picks null, a wild
  address or any node, and `garbage` says that it did. Bytes behind the table are part of the input, because the
  parser reads them.
* **IrqHandlers, Vfs, Services.** `mem` is the heap as a few equal blocks; `malloc` takes any free one or fails.
  `AddCall`, `AddNode`, `AddLink` and `AddPublish` are `irq_addHandler` between its stores; `ServiceStart`,
  `ServiceCall` and `ServiceEnd` are an interrupt, which holds up the task on one processor. The
  file system's `m_mount` is whatever happens between `MountRoot` or `MountOn` and `MountDone` or `MountFailed`;
  handlers may be added meanwhile. `list_remove` frees all nodes it passes: `broken` says that a
  list with more than one node was treated so, and nothing is modelled after that. `orphans` are the blocks of removed
  handlers, which the code forgets.
* **Printf.** Each step reads one more character of a format that is chosen as it goes, and the argument of a
  conversion when there is one. `ctx` is `ts_vsprintf_context`, `buffer` the text written so far. `full`, `spec` and `last`
  are history: the text without a limit, the characters of the conversion, the last number. `undefined`
  says that the code has left what C defines; nothing is modelled after that.

An operator named `Definition_Something`, with a comment that begins with
`Mutant:`, is a variant of the definition with a plausible bug. None of the
specifications uses them; they document which bug each property would catch.

## Runs

All bounds are constants in the `.cfg` files.

| run | instance | distinct states | shows |
|---|---|---|---|
| `Spinlock` | 4 contexts | 511 | exclusion, refinement of `Mutex`, somebody gets in |
| `Pmm` | 2-byte pages, 32-byte address space, 7 entries of which 5 are copied, requests up to 7 bytes | 3 631 | exactly the usable pages, order, exclusiveness, whole pages, nothing lost, refinement of `PageAllocator` |
| `PmmLocked` | 2 contexts, 3 free pages, requests up to 2 pages | 193 818 | refinement of `Pmm`, intact list, no stolen page, critical sections end |
| `VmmHeap` | 3 physical pages, heap of 6 pages, zones up to 5 bytes | 435 668 | zones disjoint, heap conserved, nodes used once |
| `Paging` | 3 slots per table, 11 pages for tables, 5 virtual pages: a whole table and a page on either side; mappings of 2 and 3 bytes, unmappings of 2, 4 and 8, with 2-byte pages | 59 967 | tree of tables, empty tables given back once and lost in one case only, refinement of `AddressSpace` |
| `Malloc` | 16-byte pages, heap of 5 pages, 6 physical pages for it and its tables, requests of 3, 7, 20 and 40 bytes | 85 098 | disjoint blocks, pool conserved and ordered, pages backed once, refill ends |
| `Interrupts` | lines 0, 1 and 8, three nested contexts | 16 115 | saved context, lines in service on either controller, interrupts end |
| `Acpi` | 9 tables, 2 root pointers, 1536 firmwares | 40 088 | only valid tables, all from the root pointer in use; the DSDT pointer is that of the first FADT; discovery ends |
| `Aml` | 14 tables, up to 4 nodes | 40 964 | the namespace is a forest, scopes with relative paths nest, lookups are stable, the parser ends |
| `Services` | 6 blocks (symmetric), 2 lines, 2 handlers, 3 file systems of 2 names | 49 404 | interrupts call what was added, blocks accounted for, newest file system found, root kept |
| `Printf` | formats of up to 5 of 13 characters, 6 numbers, 2 strings, 7-bit `int`, 8-bit `long` | 3 235 889 | numbers read back, text cut off at the limit |
| `Paging_error` | as `Paging` | - | must be violated, see below |

Why the bounds are enough to make the interesting cases happen: the map of `Pmm` has
two touching runs, a run with a partial page, a hole with the kernel in it, an entry that is not copied, and a usable one
beyond the length of the array; three pages in a row are what
freeing between two free neighbours takes; 2-byte pages make every rounding
happen; in `Paging` the heap is the last page of a table, a whole table and the first page of the next, so that one unmapping of four
pages covers a table end to end and parts of its neighbours, and mappings carry from table to table; the boot mapping of the HHDM carries from
directory to directory; eleven pages are too few for all mappings after a table has been lost, so that the error path is taken; in `VmmHeap` the
pool is dry at the first `vmm_free` after boot; in `Malloc` the four sizes give
one, two and three pages, so that chunks come whole, in halves, and with an
unaligned second half, and six physical pages for data and tables run out in every place; in
`Interrupts` a slave line, two master lines and depth three allow an interrupt
over an exception over an interrupt; in `Acpi` there are 1536 firmwares: one damaged table or
none, four lists for either root table (usual; two FADTs; a FADT twice with another root
table; a DSDT listed), a FADT that names itself or not, and root pointers with every
combination of version and checksums, next to a second root pointer that leads elsewhere. The tables of `Aml` have scopes side by side and in each other, all forms of a
path, lengths that are short, long and 0, a table shorter than its header and one with a scope behind its end;
four nodes run out. The blocks of `Services` are enough for a root, two handlers or several file systems, never for
all. In `Printf` five characters are two conversions, or one with every flag; `3`, `33` and `333` are lengths below and beyond the
scratch buffer of 32 and beyond an `int`, and the numbers are the edges of both widths. Beyond the bounds of `Paging` are mappings
from one slot of the root to the next and unmappings that cover a directory end to end: the second mask of `vmm_unmapRecursive` treats
them as the first one treats tables.

Deadlock is not an error in `VmmHeap` (panic), `Paging` (the error path of
`vmm_map` never returns), `Malloc` (a fault or a panic halts the machine, and `vmm_map` may never return), `Interrupts`
(`isr_exception` halts), `Aml` (a wild pointer), `Services` (a broken list) and `Printf` (the format ends).

### Fairness

Weak fairness of the steps a processor takes by itself: the instructions of the
lock and the end of critical sections (`Spinlock`), the steps of a context that
is inside the manager (`PmmLocked`), the refill under way (`Malloc`), the entry
code, and interrupts that may be taken (`Interrupts`), and `acpi_init` once it has been
called (`Acpi`), and the parser once it runs (`Aml`). A core keeps executing, so
the code justifies it. Calls, devices and page use are never obligatory. No strong
fairness is assumed: the spinlock has no queue and a single waiter may starve.

## Where the code and its comments disagree

The run `Paging_error` must end in a violation: the error path of `vmm_map` calls `vmm_unmap`, which waits
for the lock that `vmm_map` holds (`vmm.c:291`, comment at 290 "Unmap pages").

Six more disagree with a comment and are treated in the models as what they are:

* after a free between two free neighbours, two nodes of the list touch (`pmm.c:147`, comment at 145 "Try
  to merge with the next node."): the second merge works on a node that has left the list. Harmless
  but for fragmentation: requests that span the two fail. `Pmm` translates both merges, and `ListInv` shows that the write
  to the lost node reaches no node of the list;
* an exact fit returns the address of the list node (`mm.c:66`, against `vmm.h:62` "The pointer to the
  allocated zone."): `misreturned` in `VmmHeap`;
* unmapping all pages of a table at once does nothing in it (`vmm.c:639`, against `vmm.h:110` "The size of the
  zone that will be unmapped."): the mask turns the count into 0. When the call covers neighbours of the table as well, the directory
  above may be given back while the table is still linked in it (`vmm.c:693-704`): the table is lost. The space that `Paging` implements
  allows for what stays mapped, and `TablesInv` says that tables are lost in this case only;
* `.text` is mapped writable (`vmm.c:552` "Map .text as RX"): `C_VMM_PROT_RX` contains the bit for writable (`vmm.h:14`).
  `PageAttributes` has the flags as they are, and `ImplementsAddressSpace` says that the page is writable as the bits of its flags ask;
* the slave controller is not masked by `pic_init` (`pic.c:44`, comment at 42 "Mask all interrupts"): line 39 writes the fourth
  initialization word to the master a second time, and the slave takes the mask for its own. It is unmasked after that, and ends its interrupts by itself;
  `ServiceInv` says so for the slave;
* a scope whose path begins with `\` or `^` is looked up in the scope around it, and created there (`aml.c:343`, comments at 349 "Get the existing
  node, and if it does not exist, create it." and, in the unused `acpi_getNode`, at 674 "Go back to the root node"). `Aml` translates the lookup as it is;
  `ScopesNest` speaks of relative paths only, for which both readings agree.

Noted while modelling, without a comment that says otherwise: `mm_roundUpPage` wraps in
the last page (`mm.c:14`); `pmm_init` skips an entry that does not start on a
page boundary (`pmm.c:34`); `mm_tryMergeNodes` compares with the place of the node,
so a paging context's map is never merged (`mm.c:38`); `m_memoryAllocations` is
never assigned (`vmm.c:431`); mask 5 of `s_vmm_maskPAT` does not select
write-combining (`vmm.c:63`); the rollback of a refill reads page
tables at their physical addresses, which the kernel context does not map
(`stdlib.c:117`, `vmm.c:350`) - the model ends in state `fault` there; without a page for a table `vmm_map` never returns to the
refill (`stdlib.c:99`), and without a page for a list node its rollback panics (`stdlib.c:128`, `vmm.c:417`); the refill loop does not
end for a number of pages that is no power of two when memory is short
(`stdlib.c:93`); nor need halving stay within the zone for more pages than a page has bytes (16 MiB): half of an odd number of pages
is rounded down and may come to whole pages again far below (16385 pages, 64 MiB, end at 2), which do not divide the zone, so the last chunk is mapped over what lies
above it (nobody in the kernel asks for as much); `malloc` may leave a node smaller than itself (`stdlib.c:30`); exceptions go through
trap gates, so an interrupt may overwrite `g_task_currentTaskContext` while `isr_exception` prints it
(`idt.c:48`); a DSDT listed in the root table replaces the FADT's, since the test for several DSDTs
does not return (`table.c:71`); `acpi_dsdtParse` checks the DSDT and then interprets
the built-in one (`dsdt.c:471`); a FADT that names itself as its DSDT makes `acpi_tableRegister` recurse
without end (`fadt.c:13`); `acpi_amlParseTermList` reads a term behind the end of every list, so that
`acpi_parseAml` succeeds for no table (`aml.c:573`: `ListEnd` is never reached); a failed `acpi_createNode` leaves its caller with
an uninitialised pointer (`aml.c:353`); `l_name` is never filled in `acpi_getParentByPath`, and a path without a dot
names its node "" (`aml.c:764`, `aml.c:725`); paths of more than about 50 segments overflow `l_name`
(`aml.c:327`); `list_remove` frees nodes that stay linked (`list.c:37`) and `irq_removeHandler` leaks the handler's block
(`irq.c:68`); `%%` does not end a conversion, so that the character after it is taken for a directive (`sprintf.c:190`); a minimum length beyond 32 leaves the scratch
buffer (`sprintf.c:229`), and nothing keeps a length in the format from overflowing its `int` (`sprintf.c:147`); `vsnprintf` with a size of 0 has no limit (`sprintf.c:83`); `strncmp` compares the
character after the length, and `strcpy` reads behind an empty string (`string.c:82`, `string.c:60`); memory of the firmware is not in
the copied map, so the tables of ACPI are not mapped by `vmm_initHHDM` (`bootstrap.c:63`).

## Proofs

Proved with TLAPS, for every value of the constants that the assumptions allow:

* `PmmProofs` (assumes `SizeAssumption` and `MapAssumption`: pages divide the word, the
  memory map is sorted, without overlaps, and stays clear of page 0 and of the
  last page). The inductive invariant `PmmInv` adds to the checked properties that
  ranges lie in the address space, and `BootFrontier`: while `pmm_init` walks the map
  downwards, everything in the list lies above what is still to come, and nothing
  is handed out. Order needs it during boot; exclusiveness needs order and whole pages, because
  a free must fall between two nodes. The lemmas say what taking from a node, inserting a
  node and merging two nodes do to the order, to the bytes and to the
  alignment of a list. From it: `FreeListStaysSound`, `NoSharing`,
  `Conservation`, `PmmImplementsPageAllocator`, and `AllocGivesChunk`, which also assumes that
  requests stay a page below the word size (without it the wrap of `mm_roundUpPage` refutes it).
  * About `Bootstrap` (assumes also `LoaderAssumption`, of which Limine promises the alignment, and `MapIsCopied`, which is what
    `bootstrap_getInformation` returns): `UsableIsManaged`. That the copy has exactly the entries counted by `UsableEntries`, in order, is an
    induction over the loop (`CopyFacts`: after n entries the copy is as long as the copied ones among them, or full). Then each
    iteration of `pmm_init` adds the whole pages of one entry (`InitEntryManages`): the alignment is needed because `pmm_init` skips
    an entry that does not start on a page boundary. `Conservation` carries the equality from there on.
  * About `Spinlock` (assumes only that `Nobody` is no context): the inductive invariant `LockInv` is types, exclusion, and `word = 1` exactly
    while somebody holds the lock; exclusion alone is not inductive, since the bit-set relies on the word. From it:
    `Exclusion`, and `SpinlockImplementsMutex` with the holder as witness.

* `AcpiProofs` (assumes `FirmwareAssumption`: pointers lead to tables, of any contents).
  `Validated` is inductive with the types; `FromRootInUse` is not, since a table in the
  queue may be the DSDT of a FADT. `PathKnown` adds that everything in the queue is listed in
  the root table or named by `m_fadt`, and that `m_fadt` is itself listed: a second FADT,
  whose DSDT would not be reachable, is refused before `acpi_fadtInit` is called. From it:
  `TablesValidated`, `TablesFromRoot`. `DsdtIsOfFirstFadt` needs more: `QueueKnown` says how far the loop has come in the list
  (the queue is the rest of it, with the DSDT of `m_fadt` in front while that one is still to be registered) and that `m_fadt` is the first valid FADT
  of the part behind it. The queue may hold that DSDT twice over when a FADT is listed twice or names itself: it changes nothing.
* `AmlProofs` (assumes `AmlAssumption`: tables are bytes, of any contents and length). `NamespaceInv` is inductive; that scopes
  nest (`ListsNest`, for paths of any kind, as the code treats them) needs it, since a node that is found is below the node it was looked up from only because children and parents agree. A node is above
  another if it is in every set of nodes that holds that one and its parents (`Above`), so that no induction over the
  tree is needed; that `acpi_getParentByPath` stays or goes down is an induction over the dots of the path. A new node comes last among its
  parent's children, so the first child of a name stays the first. From it: `NamespaceIsForest`, `ScopesAreNested`, `LookupsAreStable`.

* `PmmLockedProofs` (assumes `PagesAssumption`: a memory map in order within the pages there are, and `Nobody`
  no context). `LockedInv` says, for the holder of the lock, where it is in the list that it found (`Found`: the two
  pointers of its search stand before and at some place, and what the nodes it passed were like) and
  which list the words in the pages hold at that stage (`StageList`: the committed list, with the node linked, with the first
  merge done, with both, or with the block taken). `CallInv` is what a context keeps to itself outside the lock: the pages
  it is about to free, with their range written in the first of them; without it, the node that is linked could have been
  overwritten by somebody else. `Stored` ties words to a list: an owner's write cannot
  reach a node because nodes lie in pages that nobody owns. That a walk along the links gives back the list that is stored
  (`ListIntact`) is an induction over the list. From it: `ListIsIntact`, `NoPageIsStolen`,
  and `LockedImplementsPmm`: every step of a context is a stutter of `Pmm` but the release of the lock, which is the whole call.
* `InterruptsProofs` (assumes only which lines there are). `ResumesInterrupted` is not inductive: it
  needs that the service of an interrupt runs with the flag clear and so is interrupted by a fault alone, which is never
  resumed (`NestingInv`), that nothing happens before `asm_sti` (`BootInv`), and which line is in service
  (`ServedInv`); that no line of the slave is ever in service after its initialization is `SlaveInv`. From it: `ServiceIsAccounted`, `InterruptedIsResumed`.
  * About `Printf` (assumes `PrintfAssumption`: sizes of `int` and `long`, arguments within a `long`, and texts that are
    sequences; any format, buffer and length of it). `PrintfFacts` says that the buffer is the part of the text that fits, that the last number
    is right, and, what makes it inductive, that the context holds what the characters since the `%` say (`ParsedFacts`). A
    text's value is read by going through it once, so one more character is one more step (`ValueAppend`), two readings that see the
    same digits agree (`ReadingsAgree`), and filler counts for nothing (`LeadingZeros`); that the digits of a number give the number back
    (`NumberFacts`) is an induction over the number. From it: `NumbersAreRead`, `BufferIsTruncated`.
* `ServicesProofs` (assumes a finite heap with `Null` no block of it). `ServicesInv` has the lists as sequences of blocks,
  `chains` and `files`, that the links in memory follow (`IsChain`); they share no node and no handler, the blocks of a call
  under way are its own until the head of the list is written (`AddingInv`), and an interrupt stands at some place of a list and has called
  the handlers before it (`ServingInv`). Each store writes one block, so that the lists through other blocks stay. From it:
  `InterruptServesRegistered`, `RootIsWhole`, `NewestIsFound`, `BlocksHaveOnePlace`.
* `VmmHeapProofs` (assumes `PageSizeAssumption` and `HeapAssumption`: whole pages, and a heap above the
  physical pages). `HeapInv` adds to the checked properties that ranges and zones are whole pages of the heap: a zone is freed as it
  was cut off, rounding changes nothing, and it falls between two ranges. Since nodes lie below
  the heap, no range ends at a node: nothing is merged, and an exact fit, which returns a node, is what sets `misreturned`. The
  proof works with intervals (`HeapFacts`: `Ranges` and `Whole`, address by address) and turns to sets of addresses at
  the end. `NodesDistinct` needs no such condition: it is proved through merges and after an exact fit as well. From it: `MapIsWhole`,
  `ZonesAreDisjoint`, `NodesHaveOneUse`.
* `MallocProofs` (assumes `PageSizeAssumption`, `MallocAssumption`: pages are whole words and hold a node, the heap is whole pages and does not
  begin at 0, and `HalvingAssumption`: `PageSize` is a power of two, said as "every factor but 1 is even", and no request needs more pages
  than a page has bytes). Both hold in the kernel: pages have 4096 bytes, and the callers of `malloc` (`irq.c:38`, `list.c:6`,
  `aml.c:615`, `vfs.c:33` and `39`) ask for the size of a structure. None of the three properties is inductive. `MallocFacts` adds, address by
  address, what is in use outside a refill (`IdleFacts`: what is mapped) and during one (`RefillFacts`: that, but for the range
  of the refill, which lies below everything in use and is mapped as far as `loc.got`), and `ChunkFacts`, why the chunks end
  where the range does. As long as a chunk is whole pages, it divides what is left of the range (`Exact`). Once an odd number of pages
  has been halved (`Skewed`), the chunk ends more than a page before the end of the range and no further half is whole pages again, so that after
  one more chunk the next is off a page boundary (`Cut`), where `vmm_map` refuses it and the rollback faults: such a refill never adds its range to the pool. Without
  the bound on requests `Skewed` is not preserved (see the note on `stdlib.c:93`). The lemmas about the list are
  those of `mm.c` for lists whose nodes lie at the start of their ranges, where two touching ranges are merged. From it: `PoolInvariant`,
  `BlocksNeverOverlap`, `PagesAreBackedOnce`.

Some of these proofs need induction over numbers or the value of a recursive function. The library's theorems take an operator as a
parameter, so the modules that need it prove the least-number principle from the well-foundedness of `<` (`LeastNumber`), and
from it induction for a set of numbers and the equation of a recursive function.

The type invariants of these modules are part of their inductive invariants and proved with them; those of the other modules
are checked in the runs. Each inductive invariant was checked with TLC on the instance of its run before it was proved.

Only model-checked: liveness (out of the prover's reach), and `Paging` (it uses recursive
operators, which the prover's arithmetic backend does not accept).

## Not modelled

Segment descriptors and the task state (bits that are written once), string functions (loops over bytes
without state), huge pages (the kernel context has none), the processor's translation buffer (the code does not
treat it), creation and destruction of contexts (empty in the code), `acpi_rsdpLocate`, `acpi_getNode`
and `acpi_getRootNode` (never called), the byte table in `dsdt.c`. Of the boot loader only its
guarantees about the memory map are assumed. Handlers and file systems that call back into the registry or the VFS are left out:
the kernel has none.

## Plan

1. Handlers that add and remove handlers while their line is being served, once the kernel has one.
2. Translation buffer as a variable of `Paging`, once the code invalidates entries.
