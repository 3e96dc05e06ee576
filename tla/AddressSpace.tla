---------------------------- MODULE AddressSpace ----------------------------
(***************************************************************************)
(* What a paging context promises: for each virtual page, the physical     *)
(* page it leads to and how it may be used.  Mapping and unmapping a run   *)
(* of pages change those pages and no other.  All pages of the run are     *)
(* mapped; of the pages of a table that an unmapping covers end to end,    *)
(* all or none are unmapped.                                               *)
(***************************************************************************)
EXTENDS Integers

CONSTANTS
    VirtualPages,   \* numbers of virtual pages
    PhysicalPages,  \* numbers of physical pages
    Attributes,     \* how a page may be used
    TablePages      \* how many pages share a lowest table

VARIABLES
    space,          \* the pages that are mapped: [page, to, attr]
    call            \* the last call and its arguments

Calls ==
    [op : {"map"}, first : VirtualPages, count : Nat, frame : PhysicalPages,
     attr : Attributes]
    \cup [op : {"unmap"}, first : VirtualPages, count : Nat]

Run(c) == c.first .. (c.first + c.count - 1)

\* The pages of the tables that a call covers end to end, table by table.
WholeTables(c) ==
    {pages \in {(n * TablePages) .. ((n + 1) * TablePages - 1) :
                   n \in {v \div TablePages : v \in Run(c)}} :
        pages \subseteq Run(c)}

Init ==
    /\ space = {}
    /\ call = [op |-> "none"]

Map(c) ==
    /\ c.op = "map"
    /\ space' = {p \in space : p.page \notin Run(c)}
                   \cup {[page |-> v, to |-> c.frame + (v - c.first), attr |-> c.attr] :
                             v \in Run(c)}

Unmap(c) ==
    /\ c.op = "unmap"
    /\ \E kept \in SUBSET WholeTables(c) :
        space' = {p \in space : p.page \notin Run(c) \/ p.page \in UNION kept}

Next ==
    /\ call' \in Calls
    /\ Map(call') \/ Unmap(call')

Spec == Init /\ [][Next]_<<space, call>>
=============================================================================
