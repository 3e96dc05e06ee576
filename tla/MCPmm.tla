------------------------------- MODULE MCPmm -------------------------------
(***************************************************************************)
(* A boot loader's memory map for model checking Pmm, with pages of two    *)
(* bytes.                                                                  *)
(***************************************************************************)
EXTENDS Bootstrap

Entry(ptr, size, type) == [ptr |-> ptr, size |-> size, type |-> type]

\* Two usable runs that touch, the second with a partial page at its end, a
\* hole with the kernel in it, and a third run, tables of the firmware, memory
\* of the boot loader, and, beyond the length of the array, a last run.
MapWithHoles ==
    << Entry(2, 6, "USABLE"), Entry(8, 5, "USABLE"),
       Entry(14, 2, "EXECUTABLE_AND_MODULES"), Entry(16, 6, "USABLE"),
       Entry(22, 2, "ACPI_RECLAIMABLE"), Entry(24, 2, "BOOTLOADER_RECLAIMABLE"),
       Entry(26, 4, "USABLE") >>

CopiedMap == bootstrap_init(MapWithHoles)
=============================================================================
