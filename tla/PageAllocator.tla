--------------------------- MODULE PageAllocator ---------------------------
(***************************************************************************)
(* What kernel/include/mm/pmm.h promises the rest of the kernel, whatever  *)
(* data structure keeps the free memory: a chunk handed out is made of     *)
(* bytes that nobody else has, an allocation may fail only by changing     *)
(* nothing, and freeing gives back bytes that the caller had.  Modules Pmm *)
(* and (through it) PmmLocked are shown to implement this specification.   *)
(***************************************************************************)
EXTENDS Integers

CONSTANT Addresses  \* the addresses of the machine, and the sizes of ranges

VARIABLES
    avail,      \* the set of bytes the allocator may hand out
    owned       \* the set of bytes handed out and not yet given back

vars == <<avail, owned>>

Chunk(ptr, size) == ptr .. (ptr + size - 1)

Init == avail = {} /\ owned = {}

\* Boot: memory nobody has seen yet is handed over to the allocator.
Donate(bytes) ==
    /\ bytes \cap (avail \cup owned) = {}
    /\ avail' = avail \cup bytes
    /\ UNCHANGED owned

\* A successful allocation of the given chunk.
Alloc(ptr, size) ==
    /\ Chunk(ptr, size) \subseteq avail
    /\ avail' = avail \ Chunk(ptr, size)
    /\ owned' = owned \cup Chunk(ptr, size)

Free(ptr, size) ==
    /\ Chunk(ptr, size) \subseteq owned
    /\ avail' = avail \cup Chunk(ptr, size)
    /\ owned' = owned \ Chunk(ptr, size)

Next ==
    \E ptr, size \in Addresses :
        Donate(Chunk(ptr, size)) \/ Alloc(ptr, size) \/ Free(ptr, size)

Spec == Init /\ [][Next]_vars
=============================================================================
