----------------------------- MODULE Bootstrap -----------------------------
(***************************************************************************)
(* What bootstrap_init (bootstrap/limine/bootstrap.c) makes of the memory  *)
(* map of the boot loader, and what the physical memory manager, which     *)
(* knows only that copy, then owns.  A missing answer of the boot loader   *)
(* halts the machine before anything else, so there is a map here.         *)
(***************************************************************************)
EXTENDS Pmm, FiniteSets

CONSTANTS
    LoaderMap,  \* g_memoryMapRequest.response->entries
    MaxEntries  \* C_MAX_MEMORY_MAP_ENTRIES, the length of s_memoryMap

\* The types of entries that are copied; all others are passed over.
Copied == {"USABLE", "BOOTLOADER_RECLAIMABLE", "EXECUTABLE_AND_MODULES"}

\* What Limine promises of its map (external): usable entries start on a page
\* boundary.
ASSUME LoaderAssumption ==
    /\ MaxEntries \in Nat
    /\ LoaderMap \in Seq([ptr : Nat, size : Nat, type : STRING])
    /\ \A i \in DOMAIN LoaderMap :
        LoaderMap[i].type = "USABLE" => LoaderMap[i].ptr % PageSize = 0

\* Mutant: what the boot loader still uses counts as free.
EntryType_Reclaims(type) == IF type # "EXECUTABLE_AND_MODULES" THEN "FREE" ELSE "RESERVED"

\* l_type2: the kernel and what the boot loader has left in memory are no free
\* memory.
EntryType(type) == IF type = "USABLE" THEN "FREE" ELSE "RESERVED"

\* One iteration of the loop of bootstrap_init: the array with an entry added,
\* unless the entry is passed over or the array is full.
AddEntry(copied, entry) ==
    IF entry.type \in Copied /\ Len(copied) < MaxEntries
    THEN Append(copied, [entry EXCEPT !.type = EntryType(@)])
    ELSE copied

\* The loop.  Once the array is full, the entries that remain are dropped.
bootstrap_init(loaderMap) ==
    LET copied[n \in 0 .. Len(loaderMap)] ==
            IF n = 0 THEN <<>> ELSE AddEntry(copied[n - 1], loaderMap[n])
    IN  copied[Len(loaderMap)]

\* pmm_init reads the map through bootstrap_getInformation.
ASSUME MapIsCopied == MemoryMap = bootstrap_init(LoaderMap)

-----------------------------------------------------------------------------
\* The usable entries that come before the array is full.
UsableEntries ==
    {i \in DOMAIN LoaderMap :
        /\ LoaderMap[i].type = "USABLE"
        /\ Cardinality({j \in 1 .. i : LoaderMap[j].type \in Copied}) <= MaxEntries}

WholePagesOf(entry) ==
    UNION {page \in {Chunk(p * PageSize, PageSize) : p \in 0 .. (Word \div PageSize)} :
               page \subseteq Chunk(entry.ptr, entry.size)}

\* From the end of pmm_init on, the manager and its callers have exactly the
\* whole pages of the memory that the boot loader calls usable: none of the
\* kernel, of the boot loader's tables or of the firmware, and all others, the
\* last one before a partial page included.  (Entries beyond the length of the
\* array are lost.)
ManagesUsable ==
    index = 0 =>
        Bytes(freeList) \cup owned
            = UNION {WholePagesOf(LoaderMap[i]) : i \in UsableEntries}
=============================================================================
