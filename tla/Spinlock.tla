------------------------------ MODULE Spinlock ------------------------------
(***************************************************************************)
(* kernel/src/arch/amd64/spinlock.asm, one step per instruction that reads *)
(* or writes the lock word.  The physical memory manager and every paging  *)
(* context keep one such lock; an execution context (a core, or a thread   *)
(* of control on a core) calls spinlock_acquire, works on the protected    *)
(* list or table, and calls spinlock_release.                              *)
(*                                                                         *)
(* The acquire path is the test-and-test-and-set loop of the source: a     *)
(* plain read of the word first (so that waiting does not keep the bus     *)
(* locked), then the atomic "lock bts".  Another context may take the lock *)
(* between the two, which is why the carry flag is looked at again.        *)
(***************************************************************************)
EXTENDS Naturals

CONSTANTS
    Contexts,   \* the execution contexts that contend for the lock
    Nobody      \* not a context

ASSUME NobodyAssumption == Nobody \notin Contexts

VARIABLES
    word,       \* bit 0 of the lock word: 0 (open) or 1 (taken)
    pc          \* where each context is in the routines

lockVars == <<word, pc>>

(***************************************************************************)
(* "idle": outside the lock; "test": about to execute the plain test;      *)
(* "bts": the test read 0, about to execute lock bts; "pause": at          *)
(* .alreadyLocked; "held": spinlock_acquire has returned.                  *)
(***************************************************************************)
Labels == {"idle", "test", "bts", "pause", "held"}

\* spinlock_init stores 0; the static lock of pmm.c starts as 0 as well.
LockInit ==
    /\ word = 0
    /\ pc = [c \in Contexts |-> "idle"]

Goto(c, from, to) ==
    /\ pc[c] = from
    /\ pc' = [pc EXCEPT ![c] = to]

CallAcquire(c) ==
    /\ Goto(c, "idle", "test")
    /\ UNCHANGED word

\* test qword [rdi], 1 / jnz .alreadyLocked
Test(c) ==
    /\ Goto(c, "test", IF word = 1 THEN "pause" ELSE "bts")
    /\ UNCHANGED word

\* Mutant: the carry flag is not looked at; the plain test is trusted.
BitTestAndSet_TrustsTest(c) ==
    /\ Goto(c, "bts", "held")
    /\ word' = 1

\* lock bts qword [rdi], 0 / jc .alreadyLocked / ret
BitTestAndSet(c) ==
    /\ Goto(c, "bts", IF word = 1 THEN "pause" ELSE "held")
    /\ word' = 1

\* Mutant: the loop jumps back to .alreadyLocked and never tests again.
Pause_NeverRetries(c) ==
    /\ Goto(c, "pause", "pause")
    /\ UNCHANGED word

\* pause / jmp spinlock_acquire
Pause(c) ==
    /\ Goto(c, "pause", "test")
    /\ UNCHANGED word

\* Mutant: a waiter that gives up clears the word on its way out.
Release_WhileWaiting(c) ==
    /\ \E from \in {"held", "pause"} : Goto(c, from, "idle")
    /\ word' = 0

\* mov qword [rdi], 0 / ret
Release(c) ==
    /\ Goto(c, "held", "idle")
    /\ word' = 0

LockNext ==
    \E c \in Contexts :
        \/ CallAcquire(c)
        \/ Test(c)
        \/ BitTestAndSet(c)
        \/ Pause(c)
        \/ Release(c)

LockSpec == LockInit /\ [][LockNext]_lockVars

(***************************************************************************)
(* A core keeps executing instructions, and the critical sections of pmm.c *)
(* and vmm.c end (module PmmLocked checks that for pmm.c).  Calling        *)
(* spinlock_acquire is never obligatory.                                   *)
(***************************************************************************)
LockFairness ==
    \A c \in Contexts :
        WF_lockVars(Test(c) \/ BitTestAndSet(c) \/ Pause(c) \/ Release(c))

LockLiveSpec == LockSpec /\ LockFairness

-----------------------------------------------------------------------------
LockTypeOK ==
    /\ word \in {0, 1}
    /\ pc \in [Contexts -> Labels]

\* Two contexts are never both between the return of spinlock_acquire and
\* their spinlock_release, however their tests and bit-sets interleave.
MutualExclusion ==
    \A c, d \in Contexts : pc[c] = "held" /\ pc[d] = "held" => c = d

\* The lock word is set exactly while some context holds the lock: it is never
\* left set by a context that lost the race (the lock would stay shut for
\* ever), and never cleared under a holder.
WordMeansHeld ==
    word = 1 <=> \E c \in Contexts : pc[c] = "held"

\* The strengthening of MutualExclusion that each instruction preserves.
LockInv == LockTypeOK /\ MutualExclusion /\ WordMeansHeld

Trying(c) == pc[c] \in {"test", "bts", "pause"}

\* The loop never ends with everybody waiting: while some context is trying,
\* the lock is taken again.  (Which waiter gets it is not promised: the loop
\* keeps no queue, so a context may starve.)
SomebodyGetsIn ==
    (\E c \in Contexts : Trying(c)) ~> (\E c \in Contexts : pc[c] = "held")

\* The context between acquire and release, for the refinement mapping.
Holder ==
    IF \E c \in Contexts : pc[c] = "held"
    THEN CHOOSE c \in Contexts : pc[c] = "held"
    ELSE Nobody

Lock == INSTANCE Mutex WITH holder <- Holder

\* The instruction sequences implement the abstract lock.
ImplementsMutex == Lock!Spec
=============================================================================
