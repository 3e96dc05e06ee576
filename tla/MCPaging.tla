------------------------------ MODULE MCPaging ------------------------------
(***************************************************************************)
(* Instances of Paging: three slots per table, two bytes per page, a heap  *)
(* of five virtual pages: the last page of a table, a whole table, and the *)
(* first page of the table after it, all in one directory.                 *)
(***************************************************************************)
EXTENDS Paging

RW == [prot |-> PROT_RW, cache |-> "WRITEBACK"]
Text == [prot |-> PROT_RX, cache |-> "WRITEPROTECT"]
Rodata == [prot |-> PROT_RO, cache |-> "WRITEPROTECT"]
Heap == [prot |-> PROT_RX, cache |-> "WRITEBACK"]

\* One range of the HHDM, which does not start on a page boundary and goes on
\* from the last page of a directory to the first of the next, then the code of
\* the kernel and its constants.
HhdmThenText ==
    <<[vptr |-> 143, pptr |-> 61, size |-> 2, flags |-> RW],
      [vptr |-> 156, pptr |-> 70, size |-> 3, flags |-> Text],
      [vptr |-> 160, pptr |-> 74, size |-> 1, flags |-> Rodata]>>

HeapFlags == {Heap}
=============================================================================
