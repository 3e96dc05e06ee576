----------------------------- MODULE Interrupts -----------------------------
(***************************************************************************)
(* Interrupts and exceptions on one processor: the gates of idt.c, the     *)
(* entry code of isr.asm, irq_service, isr_exception and task_resume.  All *)
(* of them keep the context they interrupted in one place,                 *)
(* g_task_currentTaskContext.                                              *)
(*                                                                         *)
(* What runs is a context [code, irq, step, regs, if]: the kind of code,   *)
(* the interrupt it serves, how far it is, what is in its registers, and   *)
(* whether interrupts are enabled.                                         *)
(***************************************************************************)
EXTENDS Pic, SequencesExt

CONSTANTS
    Irqs,       \* the interrupts that devices raise
    Values,     \* what the registers of the interrupted code can hold
    MaxDepth    \* bound on the contexts that are interrupted at one time

ASSUME IrqAssumption == Irqs \subseteq (0 .. 15) \ {2} /\ MaxDepth \in Nat

VARIABLES
    boot,       \* what arch_init has still to do: the writes of pic_init, then sti
    chips,      \* the two interrupt controllers
    running,    \* the context that is running
    saved,      \* g_task_currentTaskContext
    stack       \* history: the contexts that were interrupted, oldest first

vars == <<boot, chips, running, saved, stack>>

Booting == [code |-> "task", irq |-> 0, step |-> "work", regs |-> 0, if |-> FALSE]

Init ==
    /\ boot = pic_init \o <<<<0, "sti", 0>>>>
    /\ chips = [i \in {1, 2} |-> Reset]
    /\ running = Booting
    /\ saved = Booting      \* a static variable; nothing reads it before it is written
    /\ stack = <<>>

\* arch_init: one write of pic_init, and at last asm_sti.
ArchInit ==
    /\ boot # <<>>
    /\ boot' = Tail(boot)
    /\ IF Head(boot)[2] = "sti"
       THEN running' = [running EXCEPT !.if = TRUE] /\ UNCHANGED chips
       ELSE chips' = Write(chips, Head(boot)) /\ UNCHANGED running
    /\ UNCHANGED <<saved, stack>>

InTask == boot = <<>> /\ running.code = "task"

\* The interrupted code goes on.
Work(value) ==
    /\ InTask
    /\ running' = [running EXCEPT !.regs = value]
    /\ UNCHANGED <<boot, chips, saved, stack>>

SetMask(irq) ==
    /\ InTask
    /\ \/ chips' = pic_enableIrq(chips, irq)
       \/ chips' = pic_disableIrq(chips, irq)
    /\ UNCHANGED <<boot, running, saved, stack>>

\* A device asks for service.
Raise(irq) ==
    /\ boot = <<>>
    /\ chips' = [chips EXCEPT ![Chip(irq)].irr = @ \cup {irq % 8}]
    /\ UNCHANGED <<boot, running, saved, stack>>

-----------------------------------------------------------------------------
\* Mutant: the gates of the interrupts are trap gates too.
GateClearsIf_Never(code) == FALSE

\* idt_init: interrupts go through interrupt gates, which clear IF; exceptions
\* through trap gates, which do not.
GateClearsIf(code) == code = "irq"

Enter(code, irq) ==
    /\ stack' = Append(stack, running)
    /\ running' = [code |-> code, irq |-> irq, step |-> "save", regs |-> 0,
                   if |-> running.if /\ ~GateClearsIf(code)]

\* The processor acknowledges an interrupt at an instruction boundary.
TakeIrq ==
    LET slaveLine == Signals(chips[2], chips[2].irr)
        line == Signals(chips[1], chips[1].irr \cup (IF slaveLine = 8 THEN {} ELSE {2}))
        first == [chips EXCEPT ![1] = Acknowledge(@, line)]
    IN  /\ running.if
        /\ Len(stack) < MaxDepth
        /\ line # 8
        /\ IF line = 2
           THEN /\ chips' = [first EXCEPT ![2] = Acknowledge(@, slaveLine)]
                /\ Enter("irq", 8 + slaveLine)
           ELSE /\ chips' = first
                /\ Enter("irq", line)
        /\ UNCHANGED <<boot, saved>>

\* An instruction of the running code faults.
Fault ==
    /\ boot = <<>>
    /\ running.step \in {"work", "handlers"}
    /\ Len(stack) < MaxDepth
    /\ Enter("exception", 0)
    /\ UNCHANGED <<boot, chips, saved>>

\* isr_irqCommon and isr_exceptionCommon: the registers and the frame that the
\* processor pushed go to g_task_currentTaskContext.
SaveContext ==
    /\ running.step = "save"
    /\ saved' = Last(stack)
    /\ running' = [running EXCEPT !.step = IF running.code = "irq" THEN "handlers" ELSE "dump"]
    /\ UNCHANGED <<boot, chips, stack>>

\* irq_service: the handlers run, then irq_endOfInterrupt.
irq_service ==
    /\ running.step = "handlers"
    /\ chips' = irq_endOfInterrupt(chips, running.irq)
    /\ running' = [running EXCEPT !.step = "resume"]
    /\ UNCHANGED <<boot, saved, stack>>

task_resume ==
    /\ running.step = "resume"
    /\ running' = saved
    /\ stack' = Front(stack)
    /\ UNCHANGED <<boot, chips, saved>>

\* isr_exception prints the context and halts for good.
isr_exception ==
    /\ running.step = "dump"
    /\ running' = [running EXCEPT !.step = "halted", !.if = FALSE]
    /\ UNCHANGED <<boot, chips, saved, stack>>

CpuStep == SaveContext \/ irq_service \/ task_resume \/ isr_exception

Next ==
    \/ ArchInit
    \/ \E value \in Values : Work(value)
    \/ \E irq \in Irqs : SetMask(irq) \/ Raise(irq)
    \/ SetMask(2)
    \/ TakeIrq
    \/ Fault
    \/ CpuStep

Spec == Init /\ [][Next]_vars

\* The processor executes instructions, and takes interrupts when it may.
LiveSpec == Spec /\ WF_vars(CpuStep) /\ WF_vars(TakeIrq)

-----------------------------------------------------------------------------
Context ==
    [code : {"task", "irq", "exception"}, irq : 0 .. 15,
     step : {"work", "save", "handlers", "resume", "dump", "halted"},
     regs : {0} \cup Values, if : BOOLEAN]

TypeOK ==
    /\ running \in Context /\ saved \in Context
    /\ \A i \in DOMAIN stack : stack[i] \in Context
    /\ \A i \in {1, 2} : chips[i].mask \subseteq Lines /\ chips[i].isr \subseteq Lines

\* When an interrupt is over, the code that it interrupted goes on with its own
\* registers, flags and position: nothing that ran in between has overwritten
\* the one saved context.
ResumesInterrupted ==
    running.code = "irq" /\ running.step # "save" => saved = Last(stack)

\* The contexts that serve an interrupt and have not signalled its end.
Serving ==
    LET active == Append(stack, running)
    IN  {i \in DOMAIN active : active[i].code = "irq" /\ active[i].step # "resume"}

\* The line of the master through which an interrupt comes.
MasterLine(irq) == IF irq >= 8 THEN 2 ELSE irq

\* The lines of each controller that are served.
ServedLines ==
    LET irqs == {Append(stack, running)[i].irq : i \in Serving}
    IN  <<{MasterLine(irq) : irq \in irqs}, {irq - 8 : irq \in irqs \cap (8 .. 15)}>>

\* A controller that waits for the end of interrupt has a line in service while
\* its handlers run and at no other time: one that stayed in service would hold
\* back all those after it.  That is the master.  The slave takes the 255 of
\* pic.c:44, meant as its mask, for its ICW4, since pic.c:39 sends that word to the
\* master again; from then on it ends its interrupts itself, and none of its lines
\* is ever in service.
InServiceWhileServing ==
    \A n \in {1, 2} : chips[n].isr = IF chips[n].aeoi THEN {} ELSE ServedLines[n]

\* Contexts and controllers: their types, and that they agree on what is served.
ServiceInv == TypeOK /\ InServiceWhileServing

-----------------------------------------------------------------------------
(* The inductive invariant, from which the two invariants above follow. *)

\* Where the master is in its initialization sequence when so many writes are left.
MasterStep(left) ==
    CASE left \in {9, 10} -> "icw2"
      [] left \in {7, 8} -> "icw3"
      [] left \in {5, 6} -> "icw4"
      [] OTHER -> "ready"

BootSequence == pic_init \o <<<<0, "sti", 0>>>>

\* Until asm_sti nothing can interrupt arch_init.
BootInv ==
    /\ boot \in Seq({BootSequence[i] : i \in 1 .. 11}) /\ Len(boot) <= 11
    /\ \A i \in 1 .. Len(boot) : boot[i] = BootSequence[11 - Len(boot) + i]
    /\ chips[1].step = MasterStep(Len(boot))
    /\ boot # <<>> => running = Booting

Controller ==
    [step : {"ready", "icw2", "icw3", "icw4"}, mask : SUBSET Lines, aeoi : BOOLEAN,
     irr : SUBSET Lines, isr : SUBSET Lines]

\* The master waits for the end of each interrupt, and its line 2 is the slave's.
ChipsInv ==
    /\ chips \in [{1, 2} -> Controller]
    /\ ~chips[1].aeoi /\ 2 \notin chips[1].irr

Steps(code) ==
    CASE code = "task" -> {"work"}
      [] code = "irq" -> {"save", "handlers", "resume"}
      [] OTHER -> {"save", "dump", "halted"}

\* The task is interrupted first.  The service of an interrupt is interrupted by
\* nothing but a fault of one of its handlers, which is never resumed.
NestingInv ==
    /\ stack \in Seq(Context)
    /\ running \in Context /\ running.step \in Steps(running.code)
    /\ \A i \in 1 .. Len(stack) :
        stack[i].step \in Steps(stack[i].code) /\ (stack[i].code = "task" <=> i = 1)
    /\ stack = <<>> <=> running.code = "task"
    /\ running.code = "irq" => ~running.if
    /\ \A i \in 1 .. Len(stack) : stack[i].code = "irq" =>
        /\ i = Len(stack) /\ stack[i].step = "handlers"
        /\ running.code = "exception" /\ ~running.if

\* The one interrupt that is served, if any.
ServedInv ==
    chips[1].isr =
        IF running.code = "irq"
        THEN IF running.step = "resume" THEN {} ELSE {MasterLine(running.irq)}
        ELSE IF stack # <<>> /\ stack[Len(stack)].code = "irq"
             THEN {MasterLine(stack[Len(stack)].irq)}
             ELSE {}

\* The slave, too, goes through its initialization with the writes of pic_init,
\* and comes out of it with the automatic end of interrupt.
SlaveInv ==
    /\ chips[2].isr = {}
    /\ Len(boot) \in {8, 9} => chips[2].step = "icw2"
    /\ Len(boot) \in {6, 7} => chips[2].step = "icw3"
    /\ Len(boot) \in {2, 3, 4, 5} => chips[2].step = "icw4"
    /\ Len(boot) \in {0, 1} => chips[2].aeoi

InterruptInv ==
    /\ BootInv /\ ChipsInv /\ NestingInv /\ ServedInv
    /\ saved \in Context /\ ResumesInterrupted

-----------------------------------------------------------------------------
\* Every interrupt that is taken ends, unless the kernel has halted.
InterruptsEnd == chips[1].isr # {} ~> chips[1].isr = {} \/ running.step = "halted"
=============================================================================
