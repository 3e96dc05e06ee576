-------------------------------- MODULE List --------------------------------
(***************************************************************************)
(* kernel/src/list.c, and the blocks on the heap that its users keep in    *)
(* lists.  A block is a cell; malloc gives any free cell, or fails.        *)
(***************************************************************************)
EXTENDS Naturals, Sequences, FiniteSets, SequencesExt

CONSTANTS
    Cells,      \* the blocks there are on the heap
    Null

ASSUME CellAssumption == Null \notin Cells /\ IsFiniteSet(Cells)

VARIABLE mem    \* what is in each block: its kind, and up to two fields

Free == [kind |-> "free", next |-> Null, data |-> Null]
Raw == [kind |-> "raw", next |-> Null, data |-> Null]      \* allocated, not yet written

\* What malloc may return: a block or NULL.
malloc == {c \in Cells : mem[c] = Free} \cup {Null}

Node(next, data) == [kind |-> "node", next |-> next, data |-> data]

\* The nodes reached from each block, following at most n links.
Walk[n \in 0 .. Cardinality(Cells)] ==
    [c \in Cells \cup {Null} |->
        IF n = 0 \/ c = Null \/ mem[c].kind # "node"
        THEN <<>>
        ELSE <<c>> \o Walk[n - 1][mem[c].next]]

\* The nodes of a list, from its head on.
Chain(head) == Walk[Cardinality(Cells)][head]

\* What a list holds.
Items(head) == [i \in DOMAIN Chain(head) |-> mem[Chain(head)[i]].data]

\* Mutant: the new node is linked to nothing.
Linked_Alone(head, data) == Node(Null, data)

\* list_insertBeginning links a new node to the head that it finds; the list
\* starts with the node once the head is written.
Linked(head, data) == Node(head, data)

\* What list_remove leaves of the heap: it frees every node of the list that it is
\* given, whether it unlinks it or not.
list_remove(head) == [c \in Cells |-> IF c \in Range(Chain(head)) THEN Free ELSE mem[c]]
=============================================================================
