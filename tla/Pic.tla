-------------------------------- MODULE Pic --------------------------------
(***************************************************************************)
(* kernel/src/arch/amd64/pic.c and irq.asm, and the pair of 8259           *)
(* controllers they program.  The controllers are external: they are       *)
(* modelled as far as the kernel relies on them.  A controller is          *)
(* [step, mask, aeoi, irr, isr]: where it is in its initialization         *)
(* sequence, the masked lines, automatic end of interrupt, the requested   *)
(* lines and those in service.  Number 1 is the master, 2 the slave on its *)
(* line 2.                                                                 *)
(***************************************************************************)
EXTENDS Integers, Sequences, FiniteSetsExt

Lines == 0 .. 7
Bits(byte) == {i \in Lines : (byte \div 2^i) % 2 = 1}

Reset == [step |-> "ready", mask |-> {}, aeoi |-> FALSE, irr |-> {}, isr |-> {}]

\* ICW1 starts the initialization sequence and clears the masks.
StartInit(chip) == [Reset EXCEPT !.step = "icw2"]

\* A byte at the data port: the next initialization word (ICW4 is the third one,
\* since ICW1 announces it), or else the mask.
WriteData(chip, byte) ==
    CASE chip.step = "icw2" -> [chip EXCEPT !.step = "icw3"]
      [] chip.step = "icw3" -> [chip EXCEPT !.step = "icw4"]
      [] chip.step = "icw4" -> [chip EXCEPT !.step = "ready", !.aeoi = 1 \in Bits(byte)]
      [] OTHER -> [chip EXCEPT !.mask = Bits(byte)]

\* The line the controller signals: the first that is requested, not masked and
\* not held back by one in service; none is 8.
Signals(chip, requested) ==
    Min({8} \cup {i \in requested \ chip.mask : \A j \in chip.isr : i < j})

Acknowledge(chip, line) ==
    [chip EXCEPT !.irr = @ \ {line}, !.isr = IF chip.aeoi THEN @ ELSE @ \cup {line}]

\* The non-specific end of interrupt ends the first line in service.
EndOfInterrupt(chip) == [chip EXCEPT !.isr = @ \ {Min({8} \cup @)}]

-----------------------------------------------------------------------------
\* The writes of pic_init: controller, port, byte.
pic_init ==
    <<<<1, "command", 17>>, <<2, "command", 17>>, <<1, "data", 32>>, <<2, "data", 40>>,
      <<1, "data", 4>>, <<2, "data", 2>>, <<1, "data", 1>>, <<1, "data", 1>>,
      <<1, "data", 255>>, <<2, "data", 255>>>>

Write(chips, w) ==
    [chips EXCEPT ![w[1]] = IF w[2] = "command" THEN StartInit(@) ELSE WriteData(@, w[3])]

Chip(irq) == IF irq >= 8 THEN 2 ELSE 1

\* Reads the mask, changes one bit and writes it back.
pic_enableIrq(chips, irq) == [chips EXCEPT ![Chip(irq)].mask = @ \ {irq % 8}]

pic_disableIrq(chips, irq) == [chips EXCEPT ![Chip(irq)].mask = @ \cup {irq % 8}]

\* Mutant: the slave alone gets the end of interrupt of its lines.
irq_endOfInterrupt_SlaveOnly(chips, irq) ==
    [chips EXCEPT ![Chip(irq)] = EndOfInterrupt(@)]

\* irq_endOfInterrupt, and pic_endOfInterrupt
irq_endOfInterrupt(chips, irq) ==
    LET slave == IF irq >= 8 THEN [chips EXCEPT ![2] = EndOfInterrupt(@)] ELSE chips
    IN  [slave EXCEPT ![1] = EndOfInterrupt(@)]
=============================================================================
