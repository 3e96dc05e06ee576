----------------------------- MODULE MCServices -----------------------------
(***************************************************************************)
(* Services with three file systems, two of them of one name.              *)
(***************************************************************************)
EXTENDS Services

MCFileSystems == {"ext2", "ext2 of a driver", "fat"}
MCNames == [fs \in MCFileSystems |-> IF fs = "fat" THEN "fat" ELSE "ext2"]

\* Blocks are interchangeable.
BlockSymmetry == Permutations(Cells)
=============================================================================
