--------------------------- MODULE PageAttributes ---------------------------
(***************************************************************************)
(* How vmm.c turns the C_VMM_PROT_* and C_VMM_CACHE_* flags of a mapping   *)
(* into bits of a page table entry, and what a processor makes of them.    *)
(* An entry is [to, bits]: the physical page, and the set of bits that are *)
(* on among RW, US, PWT, PCD and PAT.                                      *)
(***************************************************************************)
EXTENDS Integers, Sequences

CONSTANT PatSupported   \* CPUID says that the processor has a PAT

\* C_VMM_CACHE_*, as (p_flags >> 3) & 7
Cache == [WRITEBACK |-> 0, WRITETHROUGH |-> 1, UNCACHED_MTRR |-> 2, UNCACHED |-> 3,
          WRITEPROTECT |-> 4, WRITECOMBINING |-> 5]

s_vmm_maskPAT ==
    <<{}, {"PWT"}, {"PCD"}, {"PWT", "PCD"}, {"PAT"}, {"PAT", "PCD"}, {"PAT", "PWT"},
      {"PAT", "PCD", "PWT"}>>

s_vmm_maskNonPAT ==
    <<{}, {"PWT"}, {"PCD"}, {"PWT", "PCD"}, {}, {"PWT"}, {"PCD"}, {"PWT", "PCD"}>>

\* vmm_initPAT
s_vmm_pteMask == IF PatSupported THEN s_vmm_maskPAT ELSE s_vmm_maskNonPAT

\* The value vmm_initPAT writes to IA32_PAT, entry 0 first.
PatEntries ==
    <<"WRITEBACK", "WRITETHROUGH", "UNCACHED_MTRR", "UNCACHED",
      "WRITEPROTECT", "WRITECOMBINING", "UNCACHED", "UNCACHED">>

\* The processor (external): the three bits select an entry of IA32_PAT, whose
\* first four entries are what a processor without PAT does.
MemoryType(bits) ==
    PatEntries[1 + (IF "PAT" \in bits THEN 4 ELSE 0)
                 + (IF "PCD" \in bits THEN 2 ELSE 0)
                 + (IF "PWT" \in bits THEN 1 ELSE 0)]

\* C_VMM_PROT_*
PROT_RO == {}
PROT_RW == {"READ_WRITE"}
PROT_RX == {"READ_WRITE", "EXEC"}

\* l_ptFlags of vmm_map; EXECUTE_DISABLE is never set, so EXEC makes no
\* difference.
PteBits(prot, cache, isUser) ==
    s_vmm_pteMask[1 + Cache[cache]]
        \cup (IF "READ_WRITE" \in prot THEN {"RW"} ELSE {})
        \cup (IF isUser THEN {"US"} ELSE {})
=============================================================================
