------------------------------- MODULE Mutex -------------------------------
(***************************************************************************)
(* What a lock promises its callers: at any moment at most one execution   *)
(* context is inside, and only the context inside can open it again.  This *)
(* is the abstract specification that kernel/src/arch/amd64/spinlock.asm   *)
(* is shown to implement (module Spinlock).                                *)
(***************************************************************************)

CONSTANTS
    Contexts,   \* the execution contexts that contend for the lock
    Nobody      \* the value of holder while the lock is free

VARIABLE holder

Init == holder = Nobody

Acquire(c) ==
    /\ holder = Nobody
    /\ holder' = c

Release(c) ==
    /\ holder = c
    /\ holder' = Nobody

Next == \E c \in Contexts : Acquire(c) \/ Release(c)

Spec == Init /\ [][Next]_holder
=============================================================================
