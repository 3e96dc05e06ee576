---------------------------- MODULE MCPmmLocked ----------------------------
(***************************************************************************)
(* A machine with three free pages below a reserved one: enough for a page *)
(* to be freed between two free neighbours.                                *)
(***************************************************************************)
EXTENDS PmmLocked

ThreeFreePages ==
    << [ptr |-> 1, size |-> 3, type |-> "FREE"],
       [ptr |-> 4, size |-> 1, type |-> "RESERVED"] >>
=============================================================================
