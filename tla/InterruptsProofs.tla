-------------------------- MODULE InterruptsProofs --------------------------
(***************************************************************************)
(* Proofs about module Interrupts, for any lines, register contents and    *)
(* depth of nesting: the one saved context is enough, and the controllers  *)
(* agree with the kernel on what is served.                                *)
(* And about module Printf, with which isr_exception says what has         *)
(* happened, for any format and arguments: what has been cut off, and      *)
(* what a number that has been put out means.                              *)
(***************************************************************************)
EXTENDS Interrupts, Printf, SequenceTheorems, WellFoundedInduction, TLAPS

\* A set of lines, or of lines and the number 8, has a least element.
LEMMA LeastLine ==
    ASSUME NEW S \in SUBSET (0 .. 8), S # {}
    PROVE  Min(S) \in S /\ \A j \in S : Min(S) <= j
<1>1. \E i \in S : \A j \in S : i <= j
  <2>1. \A j \in S : j = 0 \/ j = 1 \/ j = 2 \/ j = 3 \/ j = 4 \/ j = 5 \/ j = 6 \/ j = 7 \/ j = 8
      OBVIOUS
  <2>2. CASE 0 \in S
      BY <2>1, <2>2
  <2>3. CASE 0 \notin S /\ 1 \in S
      BY <2>1, <2>3
  <2>4. CASE 0 \notin S /\ 1 \notin S /\ 2 \in S
      BY <2>1, <2>4
  <2>5. CASE 0 \notin S /\ 1 \notin S /\ 2 \notin S /\ 3 \in S
      BY <2>1, <2>5
  <2>6. CASE 0 \notin S /\ 1 \notin S /\ 2 \notin S /\ 3 \notin S /\ 4 \in S
      BY <2>1, <2>6
  <2>7. CASE 0 \notin S /\ 1 \notin S /\ 2 \notin S /\ 3 \notin S /\ 4 \notin S
    <3>1. \A j \in S : j = 5 \/ j = 6 \/ j = 7 \/ j = 8
        BY <2>1, <2>7
    <3>2. CASE 5 \in S
        BY <3>1, <3>2
    <3>3. CASE 5 \notin S /\ 6 \in S
        BY <3>1, <3>3
    <3>4. CASE 5 \notin S /\ 6 \notin S /\ 7 \in S
        BY <3>1, <3>4
    <3>5. CASE 5 \notin S /\ 6 \notin S /\ 7 \notin S
      <4>1. 8 \in S
          BY <3>1, <3>5
      <4> QED
          BY <3>1, <3>5, <4>1
    <3> QED
        BY <3>2, <3>3, <3>4, <3>5
  <2> QED
      BY <2>2, <2>3, <2>4, <2>5, <2>6, <2>7
<1> QED
    BY <1>1 DEF Min

\* What a controller signals: a requested line that is not masked and precedes
\* those in service, or 8.
LEMMA SignalledLine ==
    ASSUME NEW chip \in Controller, NEW requested \in SUBSET Lines
    PROVE  /\ Signals(chip, requested) \in requested \cup {8}
           /\ Signals(chip, requested) # 8 =>
                \A j \in chip.isr : Signals(chip, requested) < j
<1> DEFINE S == {8} \cup {i \in requested \ chip.mask : \A j \in chip.isr : i < j}
<1>1. \A i \in S : i \in 0 .. 8
    BY DEF Lines
<1>2. Min(S) \in S
    BY <1>1, LeastLine
<1> QED
    BY <1>2 DEF Signals

\* The end of interrupt ends the one line in service.
LEMMA EndsTheLine ==
    ASSUME NEW chip \in Controller
    PROVE  /\ EndOfInterrupt(chip) \in Controller
           /\ EndOfInterrupt(chip) = [chip EXCEPT !.isr = EndOfInterrupt(chip).isr]
           /\ \A line \in Lines : chip.isr = {line} => EndOfInterrupt(chip).isr = {}
           /\ chip.isr = {} => EndOfInterrupt(chip).isr = {}
<1>1. EndOfInterrupt(chip) = [chip EXCEPT !.isr = chip.isr \ {Min({8} \cup chip.isr)}]
    BY DEF EndOfInterrupt, Controller
<1>2. ASSUME NEW line \in Lines, chip.isr = {line} PROVE Min({8} \cup chip.isr) = line
  <2>1. {8} \cup {line} \in SUBSET (0 .. 8) /\ line < 8
      BY DEF Lines
  <2>2. Min({8} \cup {line}) \in {8} \cup {line} /\ Min({8} \cup {line}) <= line
      BY <2>1, LeastLine
  <2> QED
      BY <1>2, <2>1, <2>2
<1> QED
    BY <1>1, <1>2 DEF Controller

-----------------------------------------------------------------------------
\* The steps of arch_init in order.
LEMMA BootSteps ==
    /\ BootSequence[1] = <<1, "command", 17>> /\ BootSequence[2] = <<2, "command", 17>>
    /\ BootSequence[3] = <<1, "data", 32>> /\ BootSequence[4] = <<2, "data", 40>>
    /\ BootSequence[5] = <<1, "data", 4>> /\ BootSequence[6] = <<2, "data", 2>>
    /\ BootSequence[7] = <<1, "data", 1>> /\ BootSequence[8] = <<1, "data", 1>>
    /\ BootSequence[9] = <<1, "data", 255>> /\ BootSequence[10] = <<2, "data", 255>>
    /\ BootSequence[11] = <<0, "sti", 0>>
    /\ Len(BootSequence) = 11
BY DEF BootSequence, pic_init

\* The initial state satisfies the invariant.
LEMMA InitInterrupts == Init => InterruptInv
<1> SUFFICES ASSUME Init PROVE InterruptInv
    OBVIOUS
<1>1. BootInv
  <2>1. boot = BootSequence
      BY DEF Init, BootSequence
  <2> DEFINE Writes == {BootSequence[i] : i \in 1 .. 11}
  <2>2. BootSequence \in Seq(Writes)
    <3> DEFINE All == (0 .. 2) \X {"command", "data", "sti"} \X (0 .. 255)
    <3>1. pic_init \in Seq(All) /\ <<<<0, "sti", 0>>>> \in Seq(All)
        BY DEF pic_init
    <3> HIDE DEF All
    <3>2. BootSequence \in Seq(All)
        BY <3>1 DEF BootSequence
    <3>3. \A i \in 1 .. Len(BootSequence) : BootSequence[i] \in Writes
        BY BootSteps
    <3> HIDE DEF Writes
    <3> QED
        BY <3>2, <3>3
  <2>3. chips[1].step = "ready" /\ running = Booting
      BY DEF Init, Reset
  <2> QED
      BY <2>1, <2>2, <2>3, BootSteps DEF BootInv, MasterStep
<1> USE DEF Init
<1>2. ChipsInv
    BY DEF ChipsInv, Controller, Reset, Lines
<1>3. NestingInv
    BY DEF NestingInv, Context, Booting, Steps
<1>4. ServedInv
    BY DEF ServedInv, Booting, Reset
<1>5. saved \in Context /\ ResumesInterrupted
    BY DEF Context, Booting, ResumesInterrupted
<1> QED
    BY <1>1, <1>2, <1>3, <1>4, <1>5 DEF InterruptInv

-----------------------------------------------------------------------------
\* The third initialization word decides about the automatic end of interrupt.
LEMMA ThirdWord ==
    ASSUME NEW chip \in Controller, NEW b \in BOOLEAN
    PROVE  /\ [chip EXCEPT !.step = "ready", !.aeoi = b] \in Controller
           /\ [chip EXCEPT !.step = "ready", !.aeoi = b].step = "ready"
           /\ [chip EXCEPT !.step = "ready", !.aeoi = b].aeoi => b
           /\ [chip EXCEPT !.step = "ready", !.aeoi = b].irr = chip.irr
           /\ [chip EXCEPT !.step = "ready", !.aeoi = b].isr = chip.isr
BY DEF Controller

LEMMA ThirdWordSets ==
    ASSUME NEW chip \in Controller, NEW b \in BOOLEAN, b
    PROVE  [chip EXCEPT !.step = "ready", !.aeoi = b].aeoi
BY DEF Controller

\* What a write of pic_init does to a controller.
LEMMA ControllerWrites ==
    ASSUME NEW chip \in Controller, NEW byte \in Nat
    PROVE  /\ StartInit(chip) \in Controller /\ StartInit(chip).step = "icw2"
           /\ ~StartInit(chip).aeoi /\ StartInit(chip).irr = {} /\ StartInit(chip).isr = {}
           /\ WriteData(chip, byte) \in Controller
           /\ WriteData(chip, byte).irr = chip.irr /\ WriteData(chip, byte).isr = chip.isr
           /\ chip.step = "icw2" => WriteData(chip, byte).step = "icw3"
           /\ chip.step = "icw3" => WriteData(chip, byte).step = "icw4"
           /\ chip.step \in {"icw4", "ready"} => WriteData(chip, byte).step = "ready"
           /\ WriteData(chip, byte).aeoi =>
                IF chip.step = "icw4" THEN 1 \in Bits(byte) ELSE chip.aeoi
           /\ chip.step = "icw4" /\ 1 \in Bits(byte) => WriteData(chip, byte).aeoi
<1>1. Bits(byte) \in SUBSET Lines
    BY DEF Bits
<1>2. /\ StartInit(chip) \in Controller /\ StartInit(chip).step = "icw2"
      /\ ~StartInit(chip).aeoi /\ StartInit(chip).irr = {} /\ StartInit(chip).isr = {}
    BY DEF StartInit, Reset, Controller
<1>3. CASE chip.step = "icw2"
    BY <1>2, <1>3 DEF WriteData, Controller
<1>4. CASE chip.step = "icw3"
    BY <1>2, <1>4 DEF WriteData, Controller
<1>5. CASE chip.step = "icw4"
  <2>1. (1 \in Bits(byte)) \in BOOLEAN
      OBVIOUS
  <2>2. WriteData(chip, byte) = [chip EXCEPT !.step = "ready", !.aeoi = 1 \in Bits(byte)]
      BY <1>5, Zenon DEF WriteData
  <2>3. /\ WriteData(chip, byte) \in Controller /\ WriteData(chip, byte).step = "ready"
        /\ WriteData(chip, byte).aeoi => 1 \in Bits(byte)
        /\ WriteData(chip, byte).irr = chip.irr /\ WriteData(chip, byte).isr = chip.isr
      BY <2>1, <2>2, ThirdWord, Zenon
  <2>4. 1 \in Bits(byte) => WriteData(chip, byte).aeoi
      BY <2>1, <2>2, ThirdWordSets, Zenon
  <2> QED
      BY <1>2, <1>5, <2>3, <2>4
<1>6. CASE chip.step = "ready"
    BY <1>1, <1>2, <1>6 DEF WriteData, Controller
<1>7. chip.step \in {"icw2", "icw3", "icw4", "ready"}
    BY DEF Controller
<1> QED
    BY <1>3, <1>4, <1>5, <1>6, <1>7

\* A step of arch_init: the third initialization word of the master announces no
\* automatic end of interrupt, and nothing is in service yet.
LEMMA ArchInitStep ==
    ASSUME InterruptInv, ArchInit
    PROVE  InterruptInv'
<1> DEFINE n == Len(boot)
           w == BootSequence[12 - n]
<1>1. /\ boot \in Seq({BootSequence[i] : i \in 1 .. 11}) /\ n <= 11
      /\ \A i \in 1 .. n : boot[i] = BootSequence[11 - n + i]
      /\ chips[1].step = MasterStep(n) /\ boot # <<>>
      /\ boot' = Tail(boot) /\ running = Booting /\ saved' = saved /\ stack' = stack
    BY DEF InterruptInv, BootInv, ArchInit
<1>2. n \in 1 .. 11 /\ Len(boot') = n - 1 /\ boot' \in Seq({BootSequence[i] : i \in 1 .. 11})
  <2> DEFINE Writes == {BootSequence[i] : i \in 1 .. 11}
  <2> HIDE DEF Writes
  <2>1. boot \in Seq(Writes)
      BY <1>1 DEF Writes
  <2>2. n \in Nat /\ n # 0
      BY <1>1, <2>1
  <2>3. Len(boot') = n - 1 /\ boot' \in Seq(Writes)
      BY <1>1, <2>1
  <2> HIDE DEF n
  <2> QED
      BY <1>1, <2>2, <2>3 DEF Writes
<1>3. \A i \in 1 .. n - 1 : boot'[i] = boot[i + 1]
    BY <1>1, <1>2
<1>4. Head(boot) = w /\ \A i \in 1 .. n - 1 : boot'[i] = BootSequence[11 - (n - 1) + i]
    BY <1>1, <1>2, <1>3
<1>5. stack = <<>> /\ saved \in Context /\ chips \in [{1, 2} -> Controller]
      /\ ~chips[1].aeoi /\ 2 \notin chips[1].irr /\ chips[1].isr = {}
    BY <1>1 DEF InterruptInv, NestingInv, ServedInv, ChipsInv, Booting
<1>6. CASE n = 1
  <2>1. w[2] = "sti" /\ boot' = <<>>
      BY <1>1, <1>2, <1>6, BootSteps
  <2>2. running' = [running EXCEPT !.if = TRUE] /\ chips' = chips
      BY <1>4, <2>1 DEF ArchInit
  <2>3. BootInv'
    <3>1. Len(boot') = 0 /\ chips'[1].step = "ready"
        BY <1>1, <1>2, <1>6, <2>2 DEF MasterStep
    <3>2. MasterStep(0) = "ready"
        BY DEF MasterStep
    <3>3. /\ boot' \in Seq({BootSequence[i] : i \in 1 .. 11}) /\ Len(boot') <= 11
          /\ \A i \in 1 .. Len(boot') : boot'[i] = BootSequence[11 - Len(boot') + i]
      <4> HIDE DEF n
      <4>1. boot' \in Seq({BootSequence[i] : i \in 1 .. 11})
          BY <1>2
      <4>2. 1 .. Len(boot') = {} /\ Len(boot') <= 11
          BY <3>1
      <4> QED
          BY <4>1, <4>2
    <3>4. chips'[1].step = MasterStep(Len(boot'))
        BY <3>1, <3>2
    <3> QED
        BY <2>1, <3>3, <3>4 DEF BootInv
  <2>4. ChipsInv'
      BY <1>5, <2>2 DEF ChipsInv
  <2>5. running' \in Context /\ running'.code = "task" /\ running'.step = "work"
    <3>1. Booting \in Context /\ Booting.code = "task" /\ Booting.step = "work"
        BY DEF Booting, Context
    <3> QED
        BY <1>1, <2>2, <3>1 DEF Context
  <2>7. NestingInv'
      BY <1>1, <1>5, <2>5 DEF NestingInv, Steps
  <2>8. ServedInv'
      BY <1>1, <1>5, <2>2, <2>5 DEF ServedInv
  <2>6. (saved \in Context)' /\ ResumesInterrupted'
      BY <1>1, <1>5, <2>2 DEF ResumesInterrupted, Booting
  <2> QED
      BY <2>3, <2>4, <2>6, <2>7, <2>8 DEF InterruptInv
<1>7. CASE n # 1
  <2>1. /\ w[1] \in {1, 2} /\ w[2] \in {"command", "data"} /\ w[3] \in Nat
        /\ w[1] = 1 /\ w[2] = "command" => n = 11
        /\ w[1] = 1 /\ w[2] = "data" => n \in {9, 7, 5, 4, 3}
        /\ n = 11 => w[1] = 1 /\ w[2] = "command"
        /\ n \in {9, 7, 5, 4, 3} => w[1] = 1 /\ w[2] = "data"
        /\ n = 5 => w[3] = 1
    <3>1. n = 2 \/ n = 3 \/ n = 4 \/ n = 5 \/ n = 6 \/ n = 7 \/ n = 8 \/ n = 9 \/ n = 10 \/ n = 11
      <4> HIDE DEF n
      <4> QED
          BY <1>2, <1>7
    <3> HIDE DEF n
    <3> QED
        BY <3>1, BootSteps
  <2>2. running' = running /\ chips' = Write(chips, w)
      BY <1>4, <2>1 DEF ArchInit
  <2> DEFINE new == IF w[2] = "command" THEN StartInit(chips[w[1]])
                    ELSE WriteData(chips[w[1]], w[3])
  <2>3. chips' = [chips EXCEPT ![w[1]] = new]
      BY <1>5, <2>1, <2>2 DEF Write
  <2>4. new \in Controller
      BY <1>5, <2>1, ControllerWrites
  <2>5. 1 \notin Bits(1)
      BY DEF Bits
  <2>6. CASE w[1] = 2
    <3>1. chips' \in [{1, 2} -> Controller] /\ chips'[1] = chips[1]
        BY <1>5, <2>3, <2>4, <2>6
    <3>2. MasterStep(n - 1) = MasterStep(n)
      <4> HIDE DEF n, w
      <4>1. n \in {2, 6, 8, 10}
          BY <1>2, <1>7, <2>1, <2>6
      <4> QED
          BY <4>1 DEF MasterStep
    <3> HIDE DEF n, w, new
    <3>3. BootInv' /\ ChipsInv'
        BY <1>1, <1>2, <1>4, <1>5, <2>2, <3>1, <3>2 DEF BootInv, ChipsInv
    <3> QED
        BY <1>1, <1>5, <2>2, <3>1, <3>3
        DEF InterruptInv, NestingInv, ServedInv, ResumesInterrupted, Booting
  <2>7. CASE w[1] = 1
    <3>1. chips' \in [{1, 2} -> Controller] /\ chips'[1] = new
        BY <1>5, <2>3, <2>4, <2>7
    <3>2. chips[1] \in Controller
        BY <1>5
    <3> HIDE DEF n, w
    <3>3. ASSUME n = 11
          PROVE  new.step = MasterStep(n - 1) /\ ~new.aeoi /\ 2 \notin new.irr /\ new.isr = {}
      <4>1. new = StartInit(chips[1])
          BY <2>1, <2>7, <3>3
      <4> HIDE DEF new
      <4> QED
          BY <3>2, <3>3, <4>1, ControllerWrites DEF MasterStep
    <3>4. ASSUME n \in {9, 7, 5, 4, 3}
          PROVE  new.step = MasterStep(n - 1) /\ ~new.aeoi /\ 2 \notin new.irr /\ new.isr = {}
      <4>0. PICK byte \in Nat : byte = w[3]
          BY <2>1
      <4>1. new = WriteData(chips[1], byte)
          BY <2>1, <2>7, <3>4, <4>0
      <4> HIDE DEF new
      <4>2. new.irr = chips[1].irr /\ new.isr = chips[1].isr
          BY <3>2, <4>1, ControllerWrites
      <4>3. new.step = MasterStep(n - 1)
        <5>1. /\ chips[1].step = "icw2" => new.step = "icw3"
              /\ chips[1].step = "icw3" => new.step = "icw4"
              /\ chips[1].step \in {"icw4", "ready"} => new.step = "ready"
            BY <3>2, <4>1, ControllerWrites
        <5> QED
            BY <1>1, <3>4, <5>1 DEF MasterStep
      <4>4. chips[1].step = "icw4" => w[3] = 1
          BY <1>1, <2>1, <3>4 DEF MasterStep
      <4>5. ~new.aeoi
          BY <1>5, <2>5, <3>2, <4>0, <4>1, <4>4, ControllerWrites
      <4> QED
          BY <1>5, <4>2, <4>3, <4>5
    <3>5. new.step = MasterStep(n - 1) /\ ~new.aeoi /\ 2 \notin new.irr /\ new.isr = {}
        BY <2>1, <2>7, <3>3, <3>4
    <3> HIDE DEF new
    <3>6. BootInv'
      <4>1. chips'[1].step = MasterStep(Len(boot')) /\ Len(boot') <= 11
          BY <1>2, <3>1, <3>5
      <4>2. \A i \in 1 .. Len(boot') : boot'[i] = BootSequence[11 - Len(boot') + i]
          BY <1>2, <1>4
      <4> QED
          BY <1>1, <1>2, <2>2, <4>1, <4>2 DEF BootInv
    <3>7. ChipsInv'
        BY <3>1, <3>5 DEF ChipsInv
    <3>8. NestingInv'
        BY <1>1, <2>2 DEF InterruptInv, NestingInv
    <3>9. ServedInv'
        BY <1>1, <1>5, <2>2, <3>1, <3>5 DEF ServedInv, Booting
    <3> QED
        BY <1>1, <1>5, <2>2, <3>6, <3>7, <3>8, <3>9 DEF InterruptInv, ResumesInterrupted, Booting
  <2> QED
      BY <2>1, <2>6, <2>7
<1> QED
    BY <1>6, <1>7

-----------------------------------------------------------------------------
\* Interrupts are enabled, and something has been interrupted, only after arch_init.
LEMMA BootOver ==
    ASSUME InterruptInv
    PROVE  /\ running.if => boot = <<>>
           /\ running.code # "task" => boot = <<>>
BY DEF InterruptInv, BootInv, Booting

\* Nothing else takes the master out of its operation.
LEMMA BootStays ==
    ASSUME InterruptInv, boot = <<>>, boot' = boot, chips'[1].step = chips[1].step
    PROVE  BootInv'
BY DEF InterruptInv, BootInv

\* What a step has to keep that only touches the controllers.
LEMMA ChipsOnly ==
    ASSUME InterruptInv, boot = <<>>, UNCHANGED <<boot, running, saved, stack>>,
           chips' \in [{1, 2} -> Controller], chips'[1].step = chips[1].step,
           chips'[1].isr = chips[1].isr, ~chips'[1].aeoi, 2 \notin chips'[1].irr
    PROVE  InterruptInv'
<1>1. BootInv'
    BY BootStays
<1>2. NestingInv' /\ (saved \in Context)' /\ ResumesInterrupted'
    BY DEF InterruptInv, NestingInv, ResumesInterrupted
<1>3. ServedInv'
    BY DEF InterruptInv, ServedInv
<1> QED
    BY <1>1, <1>2, <1>3 DEF InterruptInv, ChipsInv

\* The interrupted code goes on.
LEMMA WorkStep ==
    ASSUME InterruptInv, NEW value \in Values, Work(value)
    PROVE  InterruptInv'
<1>1. /\ boot = <<>> /\ running.code = "task" /\ running \in Context
      /\ running' = [running EXCEPT !.regs = value]
      /\ boot' = boot /\ chips' = chips /\ saved' = saved /\ stack' = stack
    BY DEF Work, InTask, InterruptInv, NestingInv
<1>2. /\ running' \in Context /\ running'.code = "task"
      /\ running'.step = running.step
    BY <1>1 DEF Context
<1>3. BootInv' /\ ChipsInv'
    BY <1>1, BootStays DEF InterruptInv, ChipsInv
<1>4. stack = <<>> /\ Len(stack) = 0 /\ running.step \in Steps("task")
    BY <1>1 DEF InterruptInv, NestingInv
<1>5. NestingInv'
    BY <1>1, <1>2, <1>4 DEF NestingInv
<1>6. ServedInv'
    BY <1>1, <1>2, <1>4 DEF InterruptInv, ServedInv
<1> QED
    BY <1>1, <1>2, <1>3, <1>5, <1>6 DEF InterruptInv, ResumesInterrupted

\* Masks do not touch what is in service.
LEMMA SetMaskStep ==
    ASSUME InterruptInv, NEW irq \in 0 .. 15, SetMask(irq)
    PROVE  InterruptInv'
<1> DEFINE k == Chip(irq)
           line == irq % 8
<1>1. k \in {1, 2} /\ line \in Lines
    BY DEF Chip, Lines
<1>2. /\ boot = <<>> /\ UNCHANGED <<boot, running, saved, stack>>
      /\ chips \in [{1, 2} -> Controller] /\ ~chips[1].aeoi /\ 2 \notin chips[1].irr
      /\ \/ chips' = [chips EXCEPT ![k].mask = @ \ {line}]
         \/ chips' = [chips EXCEPT ![k].mask = @ \cup {line}]
    BY DEF SetMask, InTask, pic_enableIrq, pic_disableIrq, InterruptInv, ChipsInv
<1> HIDE DEF k, line
<1>3. PICK mask \in SUBSET Lines : chips' = [chips EXCEPT ![k].mask = mask]
  <2>1. chips[k].mask \in SUBSET Lines
      BY <1>1, <1>2 DEF Controller
  <2>2. chips[k].mask \ {line} \in SUBSET Lines /\ chips[k].mask \cup {line} \in SUBSET Lines
      BY <1>1, <2>1
  <2>3. \/ chips' = [chips EXCEPT ![k].mask = chips[k].mask \ {line}]
        \/ chips' = [chips EXCEPT ![k].mask = chips[k].mask \cup {line}]
      BY <1>1, <1>2
  <2> QED
      BY <2>2, <2>3
<1>4. chips' \in [{1, 2} -> Controller]
    BY <1>1, <1>2, <1>3 DEF Controller
<1>5. /\ chips'[1].step = chips[1].step /\ chips'[1].isr = chips[1].isr
      /\ chips'[1].irr = chips[1].irr
    BY <1>1, <1>2, <1>3 DEF Controller
<1>6. ~chips'[1].aeoi
    BY <1>1, <1>2, <1>3 DEF Controller
<1> QED
    BY <1>2, <1>4, <1>5, <1>6, ChipsOnly

\* A request changes nothing but the requests; none comes at line 2 of the master.
LEMMA RaiseStep ==
    ASSUME InterruptInv, NEW irq \in Irqs, Raise(irq)
    PROVE  InterruptInv'
<1> DEFINE k == Chip(irq)
           line == irq % 8
<1>1. k \in {1, 2} /\ line \in Lines /\ (k = 1 => line # 2)
    BY IrqAssumption DEF Chip, Lines
<1>2. /\ boot = <<>> /\ UNCHANGED <<boot, running, saved, stack>>
      /\ chips \in [{1, 2} -> Controller] /\ ~chips[1].aeoi /\ 2 \notin chips[1].irr
      /\ chips' = [chips EXCEPT ![k].irr = @ \cup {line}]
    BY DEF Raise, InterruptInv, ChipsInv
<1> HIDE DEF k, line
<1>3. chips[k].irr \in SUBSET Lines
    BY <1>1, <1>2 DEF Controller
<1> DEFINE irr == chips[k].irr \cup {line}
<1>4. irr \in SUBSET Lines /\ (k = 1 => 2 \notin irr)
    BY <1>1, <1>2, <1>3
<1>5. chips' = [chips EXCEPT ![k].irr = irr]
    BY <1>1, <1>2
<1> HIDE DEF irr
<1>6. chips' \in [{1, 2} -> Controller]
    BY <1>1, <1>2, <1>4, <1>5 DEF Controller
<1>7. chips'[1].step = chips[1].step /\ chips'[1].isr = chips[1].isr
    BY <1>1, <1>2, <1>5 DEF Controller
<1>8. 2 \notin chips'[1].irr
    BY <1>1, <1>2, <1>4, <1>5 DEF Controller
<1>9. ~chips'[1].aeoi
    BY <1>1, <1>2, <1>5 DEF Controller
<1> QED
    BY <1>2, <1>6, <1>7, <1>8, <1>9, ChipsOnly

-----------------------------------------------------------------------------
\* The context that the processor enters through a gate.
LEMMA EnteredContext ==
    ASSUME NEW code \in {"irq", "exception"}, NEW irq \in 0 .. 15, NEW b \in BOOLEAN
    PROVE  LET new == [code |-> code, irq |-> irq, step |-> "save", regs |-> 0, if |-> b]
           IN  /\ new \in Context /\ new.code = code /\ new.irq = irq
               /\ new.step = "save" /\ (new.if => b)
BY DEF Context

\* A task, or an exception, is interrupted only while interrupts are enabled; the
\* service of an interrupt, by a fault of a handler.
LEMMA EnterNests ==
    ASSUME InterruptInv, NEW code \in {"irq", "exception"}, NEW irq \in 0 .. 15,
           Enter(code, irq),
           \/ code = "irq" /\ running.if
           \/ code = "exception" /\ running.step \in {"work", "handlers"}
    PROVE  /\ NestingInv'
           /\ running'.code = code /\ running'.irq = irq /\ running'.step = "save"
           /\ stack' = Append(stack, running)
           /\ stack \in Seq(Context) /\ running \in Context
<1> DEFINE n == Len(stack)
<1>1. /\ stack \in Seq(Context) /\ running \in Context
      /\ running.step \in Steps(running.code)
      /\ \A i \in 1 .. n : stack[i].step \in Steps(stack[i].code)
      /\ \A i \in 1 .. n : stack[i].code = "task" <=> i = 1
      /\ stack = <<>> <=> running.code = "task"
    BY DEF InterruptInv, NestingInv
<1>2. /\ running.code = "irq" => ~running.if
      /\ \A i \in 1 .. n : stack[i].code = "irq" =>
            running.code = "exception" /\ ~running.if
    BY DEF InterruptInv, NestingInv
<1>3. stack' = Append(stack, running)
    BY DEF Enter
<1>4. (running.if /\ ~GateClearsIf(code)) \in BOOLEAN
    OBVIOUS
<1>5. running' = [code |-> code, irq |-> irq, step |-> "save", regs |-> 0,
                  if |-> running.if /\ ~GateClearsIf(code)]
    BY DEF Enter
<1>6. /\ running' \in Context /\ running'.code = code /\ running'.irq = irq
      /\ running'.step = "save" /\ (running'.if => running.if /\ ~GateClearsIf(code))
    BY <1>4, <1>5, EnteredContext, Zenon
<1>7. code = "irq" => ~running'.if
    BY <1>6 DEF GateClearsIf
<1>8. /\ stack' \in Seq(Context) /\ Len(stack') = n + 1 /\ n \in Nat /\ stack'[n + 1] = running
      /\ \A i \in 1 .. n : stack'[i] = stack[i]
    BY <1>1, <1>3
<1>9. "save" \in Steps(code)
    BY DEF Steps
<1>10. \A i \in 1 .. n : stack[i].code # "irq"
    BY <1>1, <1>2 DEF Steps
<1>11. running.code = "irq" => code = "exception" /\ running.step = "handlers" /\ ~running'.if
    BY <1>1, <1>2, <1>6 DEF Steps
<1>12. running.code = "task" <=> n = 0
    BY <1>1
<1>13. stack' # <<>> /\ code # "task"
    BY <1>8
<1> HIDE DEF n
<1>14. \A i \in 1 .. Len(stack') :
          stack'[i].step \in Steps(stack'[i].code) /\ (stack'[i].code = "task" <=> i = 1)
    BY <1>1, <1>8, <1>12
<1>15. \A i \in 1 .. Len(stack') : stack'[i].code = "irq" =>
          /\ i = Len(stack') /\ stack'[i].step = "handlers"
          /\ running'.code = "exception" /\ ~running'.if
    BY <1>6, <1>8, <1>10, <1>11
<1> QED
    BY <1>1, <1>3, <1>6, <1>7, <1>8, <1>9, <1>13, <1>14, <1>15 DEF NestingInv

\* Acknowledging a line.
LEMMA AcknowledgedLine ==
    ASSUME NEW chip \in Controller, NEW line \in Lines
    PROVE  LET new == Acknowledge(chip, line)
           IN  /\ new \in Controller /\ new.step = chip.step /\ (new.aeoi => chip.aeoi)
               /\ new.irr \subseteq chip.irr
               /\ ~chip.aeoi => new.isr = chip.isr \cup {line}
<1> DEFINE irr == chip.irr \ {line}
           isr == IF chip.aeoi THEN chip.isr ELSE chip.isr \cup {line}
<1>1. irr \in SUBSET Lines /\ isr \in SUBSET Lines
    BY DEF Controller
<1>2. Acknowledge(chip, line) = [chip EXCEPT !.irr = irr, !.isr = isr]
    BY DEF Acknowledge, Controller
<1>3. irr \subseteq chip.irr /\ (~chip.aeoi => isr = chip.isr \cup {line})
    OBVIOUS
<1> HIDE DEF irr, isr
<1>4. [chip EXCEPT !.irr = irr, !.isr = isr] \in Controller
    BY <1>1 DEF Controller
<1> QED
    BY <1>2, <1>3, <1>4 DEF Controller

\* When an interrupt is taken, none is served.
LEMMA TakeIrqStep ==
    ASSUME InterruptInv, TakeIrq
    PROVE  InterruptInv'
<1> DEFINE slaveLine == Signals(chips[2], chips[2].irr)
           cascade == IF slaveLine = 8 THEN {} ELSE {2}
           line == Signals(chips[1], chips[1].irr \cup cascade)
           master == Acknowledge(chips[1], line)
           slave == Acknowledge(chips[2], slaveLine)
           irq == IF line = 2 THEN 8 + slaveLine ELSE line
<1>1. /\ running.if /\ line # 8 /\ boot' = boot /\ saved' = saved
      /\ line = 2 => /\ chips' = [[chips EXCEPT ![1] = Acknowledge(@, line)]
                                      EXCEPT ![2] = Acknowledge(@, slaveLine)]
                     /\ Enter("irq", 8 + slaveLine)
      /\ line # 2 => /\ chips' = [chips EXCEPT ![1] = Acknowledge(@, line)]
                     /\ Enter("irq", line)
    BY DEF TakeIrq
<1>2. /\ chips \in [{1, 2} -> Controller] /\ ~chips[1].aeoi /\ 2 \notin chips[1].irr
      /\ chips[1] \in Controller /\ chips[2] \in Controller
    BY DEF InterruptInv, ChipsInv
<1>3. chips[1].irr \in SUBSET Lines /\ chips[2].irr \in SUBSET Lines /\ cascade \in SUBSET Lines
    BY <1>2 DEF Controller, Lines
<1>4. slaveLine \in chips[2].irr \cup {8} /\ line \in chips[1].irr \cup cascade \cup {8}
    BY <1>2, <1>3, SignalledLine
<1>5. line \in Lines /\ (line = 2 => slaveLine \in Lines)
    BY <1>1, <1>2, <1>3, <1>4
<1>6. irq \in 0 .. 15 /\ MasterLine(irq) = line
    BY <1>5 DEF Lines, MasterLine
<1>7. Enter("irq", irq)
    BY <1>1
<1>8. \/ chips' = [chips EXCEPT ![1] = master, ![2] = slave] /\ slaveLine \in Lines
      \/ chips' = [chips EXCEPT ![1] = master]
    BY <1>1, <1>2, <1>5
<1>9. /\ master \in Controller /\ master.step = chips[1].step /\ ~master.aeoi
      /\ 2 \notin master.irr /\ master.isr = chips[1].isr \cup {line}
    BY <1>2, <1>5, AcknowledgedLine
<1>10. slaveLine \in Lines => slave \in Controller
    BY <1>2, AcknowledgedLine
<1> HIDE DEF slaveLine, line, master, slave, irq
<1>11. chips' \in [{1, 2} -> Controller] /\ chips'[1] = master
    BY <1>2, <1>8, <1>9, <1>10
<1>12. boot = <<>>
    BY <1>1, BootOver
<1>13. BootInv' /\ ChipsInv'
    BY <1>1, <1>9, <1>11, <1>12, BootStays DEF ChipsInv
<1>14. chips[1].isr = {}
  <2>1. running.code # "irq"
      BY <1>1 DEF InterruptInv, NestingInv
  <2>2. stack # <<>> => stack[Len(stack)].code # "irq"
    <3>1. stack \in Seq(Context) /\ \A i \in 1 .. Len(stack) : stack[i].code # "irq"
        BY <1>1 DEF InterruptInv, NestingInv
    <3>2. stack # <<>> => Len(stack) \in 1 .. Len(stack)
        BY <3>1
    <3> QED
        BY <3>1, <3>2
  <2> QED
      BY <2>1, <2>2 DEF InterruptInv, ServedInv
<1>15. /\ NestingInv' /\ running'.code = "irq" /\ running'.irq = irq /\ running'.step = "save"
    BY <1>1, <1>6, <1>7, EnterNests
<1>16. ServedInv'
    BY <1>6, <1>9, <1>11, <1>14, <1>15 DEF ServedInv
<1>17. saved' \in Context /\ ResumesInterrupted'
    BY <1>1, <1>15 DEF InterruptInv, ResumesInterrupted
<1> QED
    BY <1>13, <1>15, <1>16, <1>17 DEF InterruptInv

\* A fault of the task or of a handler.
LEMMA FaultStep ==
    ASSUME InterruptInv, Fault
    PROVE  InterruptInv'
<1>1. /\ boot = <<>> /\ running.step \in {"work", "handlers"} /\ Enter("exception", 0)
      /\ boot' = boot /\ chips' = chips /\ saved' = saved
    BY DEF Fault
<1>2. /\ NestingInv' /\ running'.code = "exception" /\ running'.step = "save"
      /\ stack' = Append(stack, running) /\ stack \in Seq(Context) /\ running \in Context
    BY <1>1, EnterNests
<1>3. BootInv' /\ ChipsInv'
    BY <1>1, BootStays DEF InterruptInv, ChipsInv
<1>4. /\ stack' # <<>> /\ stack'[Len(stack')] = running
    BY <1>2
<1>5. running.code = "irq" => running.step # "resume"
    BY <1>1
<1>6. CASE running.code = "irq"
    BY <1>1, <1>2, <1>3, <1>4, <1>5, <1>6 DEF InterruptInv, ServedInv, ResumesInterrupted
<1>7. CASE running.code # "irq"
  <2>1. running.code = "task" /\ stack = <<>>
      BY <1>1, <1>7 DEF InterruptInv, NestingInv, Steps, Context
  <2>2. chips[1].isr = {}
      BY <2>1 DEF InterruptInv, ServedInv
  <2>3. ServedInv'
      BY <1>1, <1>2, <1>4, <1>7, <2>2 DEF ServedInv
  <2> QED
      BY <1>1, <1>2, <1>3, <2>3 DEF InterruptInv, ResumesInterrupted
<1> QED
    BY <1>6, <1>7

\* The entry code saves the context that was interrupted last.
LEMMA SaveContextStep ==
    ASSUME InterruptInv, SaveContext
    PROVE  InterruptInv'
<1> DEFINE step == IF running.code = "irq" THEN "handlers" ELSE "dump"
<1>1. /\ running.step = "save" /\ saved' = stack[Len(stack)]
      /\ running' = [running EXCEPT !.step = step]
      /\ boot' = boot /\ chips' = chips /\ stack' = stack
    BY DEF SaveContext, Last
<1>2. running.code \in {"irq", "exception"} /\ running \in Context /\ stack \in Seq(Context)
    BY <1>1 DEF InterruptInv, NestingInv, Steps, Context
<1>3. stack # <<>>
    BY <1>2 DEF InterruptInv, NestingInv
<1>4. Len(stack) \in 1 .. Len(stack) /\ saved' \in Context
    BY <1>1, <1>2, <1>3
<1>5. step \in Steps(running.code) /\ step \in {"handlers", "dump"}
    BY <1>2 DEF Steps
<1> HIDE DEF step
<1>6. /\ running' \in Context /\ running'.step = step /\ running'.code = running.code
      /\ running'.irq = running.irq
    BY <1>1, <1>2, <1>5 DEF Context
<1>7. running'.if => running.if
    BY <1>1, <1>2 DEF Context
<1>8. BootInv' /\ ChipsInv'
    BY <1>1, <1>2, BootOver, BootStays DEF InterruptInv, ChipsInv
<1>9. NestingInv'
    BY <1>1, <1>2, <1>5, <1>6, <1>7 DEF InterruptInv, NestingInv
<1>10. ServedInv'
    BY <1>1, <1>5, <1>6 DEF InterruptInv, ServedInv
<1>11. ResumesInterrupted'
    BY <1>1 DEF ResumesInterrupted, Last
<1> QED
    BY <1>4, <1>8, <1>9, <1>10, <1>11 DEF InterruptInv

\* The end of interrupt ends the interrupt that has been served.
LEMMA ServiceStep ==
    ASSUME InterruptInv, irq_service
    PROVE  InterruptInv'
<1> DEFINE irq == running.irq
           master == EndOfInterrupt(chips[1])
           slave == EndOfInterrupt(chips[2])
<1>1. /\ running.step = "handlers" /\ chips' = irq_endOfInterrupt(chips, irq)
      /\ running' = [running EXCEPT !.step = "resume"]
      /\ boot' = boot /\ saved' = saved /\ stack' = stack
    BY DEF irq_service
<1>2. running.code = "irq" /\ running \in Context /\ stack \in Seq(Context) /\ ~running.if
    BY <1>1 DEF InterruptInv, NestingInv, Steps, Context
<1>3. /\ chips \in [{1, 2} -> Controller] /\ ~chips[1].aeoi /\ 2 \notin chips[1].irr
      /\ chips[1] \in Controller /\ chips[2] \in Controller
    BY DEF InterruptInv, ChipsInv
<1>4. \/ chips' = [[chips EXCEPT ![2] = EndOfInterrupt(@)] EXCEPT ![1] = EndOfInterrupt(@)]
      \/ chips' = [chips EXCEPT ![1] = EndOfInterrupt(@)]
    BY <1>1 DEF irq_endOfInterrupt
<1>5. master \in Controller /\ slave \in Controller
    BY <1>3, EndsTheLine
<1>6. chips[1].isr = {MasterLine(irq)} /\ MasterLine(irq) \in Lines
    BY <1>1, <1>2 DEF InterruptInv, ServedInv, MasterLine, Lines, Context
<1>7. master.isr = {}
    BY <1>3, <1>6, EndsTheLine
<1>8. master = [chips[1] EXCEPT !.isr = master.isr]
    BY <1>3, EndsTheLine
<1>9. chips' \in [{1, 2} -> Controller] /\ chips'[1] = master
  <2> HIDE DEF irq
  <2>1. \/ chips' = [chips EXCEPT ![2] = slave, ![1] = master]
        \/ chips' = [chips EXCEPT ![1] = master]
      BY <1>3, <1>4
  <2> HIDE DEF master, slave
  <2> QED
      BY <1>3, <1>5, <2>1
<1> HIDE DEF master, slave
<1>10. master.step = chips[1].step /\ master.irr = chips[1].irr
    BY <1>3, <1>8 DEF Controller
<1>11. ~master.aeoi
    BY <1>3, <1>8 DEF Controller
<1>12. BootInv' /\ ChipsInv'
    BY <1>1, <1>2, <1>3, <1>9, <1>10, <1>11, BootOver, BootStays DEF ChipsInv
<1>13. running' \in Context /\ running'.step = "resume" /\ running'.code = "irq"
    BY <1>1, <1>2 DEF Context
<1>14. running'.if => running.if
    BY <1>1, <1>2 DEF Context
<1>15. "resume" \in Steps("irq")
    BY DEF Steps
<1>16. NestingInv'
    BY <1>1, <1>2, <1>13, <1>14, <1>15 DEF InterruptInv, NestingInv
<1>17. ServedInv'
    BY <1>7, <1>9, <1>13 DEF ServedInv
<1>18. (saved \in Context)' /\ ResumesInterrupted'
    BY <1>1, <1>2 DEF InterruptInv, ResumesInterrupted
<1> QED
    BY <1>12, <1>16, <1>17, <1>18 DEF InterruptInv

\* What is resumed is what was interrupted.
LEMMA ResumeStep ==
    ASSUME InterruptInv, task_resume
    PROVE  InterruptInv'
<1> DEFINE n == Len(stack)
<1>1. /\ running.step = "resume" /\ running' = saved /\ stack' = SubSeq(stack, 1, n - 1)
      /\ boot' = boot /\ chips' = chips /\ saved' = saved
    BY DEF task_resume, Front
<1>2. running.code = "irq" /\ stack \in Seq(Context) /\ saved \in Context
    BY <1>1 DEF InterruptInv, NestingInv, Steps, Context
<1>3. saved = stack[n] /\ stack # <<>>
    BY <1>1, <1>2 DEF InterruptInv, NestingInv, ResumesInterrupted, Last
<1>4. /\ \A i \in 1 .. n : stack[i].step \in Steps(stack[i].code)
      /\ \A i \in 1 .. n : stack[i].code = "task" <=> i = 1
      /\ \A i \in 1 .. n : stack[i].code # "irq"
    BY <1>2 DEF InterruptInv, NestingInv
<1>5. n \in Nat /\ n > 0 /\ n \in 1 .. n
    BY <1>2, <1>3
<1>6. stack' \in Seq(Context) /\ Len(stack') = n - 1 /\ \A i \in 1 .. n - 1 : stack'[i] = stack[i]
  <2>1. stack' = [i \in 1 .. n - 1 |-> stack[i]]
      BY <1>1, <1>2, <1>5
  <2>2. \A i \in 1 .. n - 1 : stack[i] \in Context
      BY <1>2, <1>5
  <2> HIDE DEF n
  <2>3. n - 1 \in Nat
      BY <1>5
  <2> QED
      BY <2>1, <2>2, <2>3
<1>7. chips[1].isr = {}
    BY <1>1, <1>2 DEF InterruptInv, ServedInv
<1>8. BootInv' /\ ChipsInv'
    BY <1>1, <1>2, BootOver, BootStays DEF InterruptInv, ChipsInv
<1> HIDE DEF n
<1>9. running'.code # "irq" /\ running'.step \in Steps(running'.code)
    BY <1>1, <1>3, <1>4, <1>5
<1>10. \A i \in 1 .. Len(stack') : /\ stack'[i].step \in Steps(stack'[i].code)
                                   /\ stack'[i].code = "task" <=> i = 1
                                   /\ stack'[i].code # "irq"
    BY <1>4, <1>5, <1>6
<1>11. stack' = <<>> <=> running'.code = "task"
  <2>1. running'.code = "task" <=> n = 1
      BY <1>1, <1>3, <1>4, <1>5
  <2>2. stack' = <<>> <=> n = 1
      BY <1>5, <1>6
  <2> QED
      BY <2>1, <2>2
<1>12. NestingInv'
    BY <1>1, <1>2, <1>6, <1>9, <1>10, <1>11 DEF NestingInv
<1>13. stack' # <<>> => stack'[Len(stack')].code # "irq"
  <2>1. stack' # <<>> => Len(stack') \in 1 .. Len(stack')
      BY <1>6
  <2> QED
      BY <1>10, <2>1
<1>14. ServedInv'
    BY <1>1, <1>7, <1>9, <1>13 DEF ServedInv
<1>15. (saved \in Context)' /\ ResumesInterrupted'
    BY <1>1, <1>2, <1>9 DEF ResumesInterrupted
<1> QED
    BY <1>8, <1>12, <1>14, <1>15 DEF InterruptInv

\* An exception ends in a processor that does nothing more.
LEMMA ExceptionStep ==
    ASSUME InterruptInv, isr_exception
    PROVE  InterruptInv'
<1>1. /\ running.step = "dump" /\ running' = [running EXCEPT !.step = "halted", !.if = FALSE]
      /\ boot' = boot /\ chips' = chips /\ saved' = saved /\ stack' = stack
    BY DEF isr_exception
<1>2. running.code = "exception" /\ running \in Context /\ stack \in Seq(Context)
    BY <1>1 DEF InterruptInv, NestingInv, Steps, Context
<1>3. running' \in Context /\ running'.step = "halted" /\ running'.code = "exception"
    BY <1>1, <1>2 DEF Context
<1>4. ~running'.if
    BY <1>1, <1>2 DEF Context
<1>5. BootInv' /\ ChipsInv'
    BY <1>1, <1>2, BootOver, BootStays DEF InterruptInv, ChipsInv
<1>6. "halted" \in Steps("exception")
    BY DEF Steps
<1>7. NestingInv'
    BY <1>1, <1>2, <1>3, <1>4, <1>6 DEF InterruptInv, NestingInv
<1>8. ServedInv' /\ ResumesInterrupted'
    BY <1>1, <1>2, <1>3 DEF InterruptInv, ServedInv, ResumesInterrupted
<1> QED
    BY <1>1, <1>5, <1>7, <1>8 DEF InterruptInv

\* Every step keeps the invariant.
LEMMA NextInterrupts == InterruptInv /\ [Next]_vars => InterruptInv'
<1> SUFFICES ASSUME InterruptInv, [Next]_vars PROVE InterruptInv'
    OBVIOUS
<1>1. CASE ArchInit
    BY <1>1, ArchInitStep
<1>2. ASSUME NEW value \in Values, Work(value) PROVE InterruptInv'
    BY <1>2, WorkStep
<1>3. ASSUME NEW irq \in Irqs, SetMask(irq) PROVE InterruptInv'
  <2>1. irq \in 0 .. 15
      BY <1>3, IrqAssumption
  <2> QED
      BY <1>3, <2>1, SetMaskStep
<1>4. ASSUME NEW irq \in Irqs, Raise(irq) PROVE InterruptInv'
    BY <1>4, RaiseStep
<1>5. CASE SetMask(2)
    BY <1>5, SetMaskStep
<1>6. CASE TakeIrq
    BY <1>6, TakeIrqStep
<1>7. CASE Fault
    BY <1>7, FaultStep
<1>8. CASE CpuStep
    BY <1>8, SaveContextStep, ServiceStep, ResumeStep, ExceptionStep DEF CpuStep
<1>9. CASE UNCHANGED vars
    BY <1>9 DEF vars, InterruptInv, BootInv, ChipsInv, NestingInv, ServedInv, ResumesInterrupted
<1> QED
    BY <1>1, <1>2, <1>3, <1>4, <1>5, <1>6, <1>7, <1>8, <1>9 DEF Next

\* One context at most is served, and it is the one that the master has in service.
LEMMA ServedIsServing == InterruptInv => chips[1].isr = ServedLines[1]
<1> SUFFICES ASSUME InterruptInv PROVE chips[1].isr = ServedLines[1]
    OBVIOUS
<1> DEFINE n == Len(stack)
           active == Append(stack, running)
           lines == {MasterLine(irq) : irq \in {active[i].irq : i \in Serving}}
<1>1. /\ stack \in Seq(Context) /\ running \in Context
      /\ stack = <<>> <=> running.code = "task"
    BY DEF InterruptInv, NestingInv
<1>2. \A i \in 1 .. n : stack[i].code = "irq" =>
          i = n /\ stack[i].step = "handlers" /\ running.code = "exception"
    BY DEF InterruptInv, NestingInv
<1>3. /\ n \in Nat /\ DOMAIN active = 1 .. n + 1 /\ active[n + 1] = running
      /\ \A i \in 1 .. n : active[i] = stack[i]
    BY <1>1
<1>4. Serving = {i \in 1 .. n + 1 : active[i].code = "irq" /\ active[i].step # "resume"}
    BY <1>3 DEF Serving
<1>5. ServedLines[1] = lines
    BY DEF ServedLines
<1> HIDE DEF n, active
<1>6. CASE running.code = "irq"
  <2>1. \A i \in 1 .. n : active[i].code # "irq"
      BY <1>2, <1>3, <1>6
  <2>2. CASE running.step = "resume"
    <3>1. Serving = {}
        BY <1>3, <1>4, <2>1, <2>2
    <3> QED
        BY <1>5, <1>6, <2>2, <3>1 DEF InterruptInv, ServedInv
  <2>3. CASE running.step # "resume"
    <3>1. Serving = {n + 1}
        BY <1>3, <1>4, <1>6, <2>1, <2>3
    <3>2. lines = {MasterLine(running.irq)}
        BY <1>3, <3>1
    <3> QED
        BY <1>5, <1>6, <2>3, <3>2 DEF InterruptInv, ServedInv
  <2> QED
      BY <2>2, <2>3
<1>7. CASE running.code # "irq" /\ stack # <<>> /\ stack[n].code = "irq"
  <2>1. n \in 1 .. n
      BY <1>1, <1>3, <1>7 DEF n
  <2>2. Serving = {n}
      BY <1>2, <1>3, <1>4, <1>7, <2>1
  <2>3. lines = {MasterLine(stack[n].irq)}
      BY <1>3, <2>1, <2>2
  <2> QED
      BY <1>5, <1>7, <2>3 DEF InterruptInv, ServedInv, n
<1>8. CASE running.code # "irq" /\ ~(stack # <<>> /\ stack[n].code = "irq")
  <2>1. \A i \in 1 .. n : stack[i].code # "irq"
    <3> SUFFICES ASSUME NEW i \in 1 .. n, stack[i].code = "irq" PROVE FALSE
        OBVIOUS
    <3>1. i = n
        BY <1>2
    <3>2. stack # <<>>
        BY <1>1, <3>1 DEF n
    <3> QED
        BY <1>8, <3>1, <3>2
  <2>2. Serving = {}
      BY <1>3, <1>4, <1>8, <2>1
  <2> QED
      BY <1>5, <1>8, <2>2 DEF InterruptInv, ServedInv, n
<1> QED
    BY <1>6, <1>7, <1>8

\* The invariant holds in every reachable state, however deep interrupts and faults
\* nest and whichever lines devices raise.
THEOREM InterruptInvariant == Spec => []InterruptInv
BY InitInterrupts, NextInterrupts, PTL DEF Spec

-----------------------------------------------------------------------------
(* The slave. *)

\* A controller that ends its interrupts itself has no line in service after it
\* has acknowledged one.
LEMMA SelfEnded ==
    ASSUME NEW chip \in Controller, NEW line \in Lines, chip.aeoi, chip.isr = {}
    PROVE  Acknowledge(chip, line).aeoi /\ Acknowledge(chip, line).isr = {}
<1>1. Acknowledge(chip, line) = [chip EXCEPT !.irr = chip.irr \ {line}, !.isr = chip.isr]
    BY DEF Acknowledge, Controller
<1> QED
    BY <1>1 DEF Controller

\* The writes of pic_init to the slave: its third initialization word is 255.
LEMMA SlaveBoots ==
    ASSUME InterruptInv, SlaveInv, ArchInit
    PROVE  SlaveInv'
<1>1. PICK n, w : n = Len(boot) /\ w = BootSequence[12 - n]
    OBVIOUS
<1>2. /\ boot \in Seq({BootSequence[i] : i \in 1 .. 11}) /\ boot # <<>> /\ n <= 11
      /\ \A i \in 1 .. n : boot[i] = BootSequence[11 - n + i]
      /\ boot' = Tail(boot)
    BY <1>1 DEF InterruptInv, BootInv, ArchInit
<1>3. n \in 1 .. 11 /\ Len(boot') = n - 1
  <2> DEFINE Writes == {BootSequence[i] : i \in 1 .. 11}
  <2>1. boot \in Seq(Writes)
      BY <1>2
  <2> HIDE DEF Writes
  <2>2. n \in Nat /\ n # 0 /\ Len(boot') = n - 1
      BY <1>1, <1>2, <2>1
  <2> QED
      BY <1>2, <2>2
<1>4. Head(boot) = w
  <2>1. Head(boot) = boot[1] /\ 1 \in 1 .. n /\ 11 - n + 1 = 12 - n
      BY <1>2, <1>3
  <2> QED
      BY <1>1, <1>2, <2>1
<1>5. /\ chips \in [{1, 2} -> Controller] /\ chips[2] \in Controller
      /\ w = BootSequence[12 - n]
    BY <1>1 DEF InterruptInv, ChipsInv
<1>6. \/ n = 1 \/ n = 2 \/ n = 3 \/ n = 4 \/ n = 5 \/ n = 6 \/ n = 7 \/ n = 8
      \/ n = 9 \/ n = 10 \/ n = 11
    BY <1>3
<1>7. CASE n = 1
  <2>1. w[2] = "sti"
      BY <1>1, <1>7, BootSteps
  <2>2. chips' = chips
      BY <1>4, <2>1 DEF ArchInit
  <2> QED
      BY <1>1, <1>3, <1>7, <2>2 DEF SlaveInv
<1>8. CASE n = 3 \/ n = 4 \/ n = 5 \/ n = 7 \/ n = 9 \/ n = 11
  <2>1. w[1] = 1 /\ w[2] # "sti"
    <3>1. \/ w = BootSequence[9] \/ w = BootSequence[8] \/ w = BootSequence[7]
          \/ w = BootSequence[5] \/ w = BootSequence[3] \/ w = BootSequence[1]
        BY <1>5, <1>8
    <3> QED
        BY <3>1, BootSteps
  <2>2. chips' = Write(chips, w)
      BY <1>4, <2>1 DEF ArchInit
  <2>3. chips'[2] = chips[2]
      BY <1>5, <2>1, <2>2 DEF Write
  <2>4. PICK m : m = Len(boot')
      OBVIOUS
  <2>5. m = 2 \/ m = 3 \/ m = 4 \/ m = 6 \/ m = 8 \/ m = 10
      BY <1>3, <1>8, <2>4
  <2>6. /\ n \in {9} => m = 8
        /\ n \in {7} => m = 6
        /\ m \in {2, 3, 4} => n \in {3, 4, 5}
        /\ m = 6 => n = 7
        /\ m = 8 => n = 9
      BY <1>3, <1>8, <2>4
  <2>7. /\ chips[2].isr = {}
        /\ n = 9 => chips[2].step = "icw2"
        /\ n = 7 => chips[2].step = "icw3"
        /\ n \in {3, 4, 5} => chips[2].step = "icw4"
      BY <1>1 DEF SlaveInv
  <2>8. /\ chips'[2].isr = {}
        /\ m \in {8, 9} => chips'[2].step = "icw2"
        /\ m \in {6, 7} => chips'[2].step = "icw3"
        /\ m \in {2, 3, 4, 5} => chips'[2].step = "icw4"
        /\ ~(m \in {0, 1})
      BY <2>3, <2>5, <2>6, <2>7
  <2> QED
      BY <2>4, <2>8 DEF SlaveInv
<1>9. CASE n = 2 \/ n = 6 \/ n = 8 \/ n = 10
  <2>1. /\ w[1] = 2 /\ w[3] \in Nat
        /\ w[2] = IF n = 10 THEN "command" ELSE "data"
        /\ n = 2 => w[3] = 255
    <3>1. \/ n = 2 /\ w = BootSequence[10]
          \/ n = 6 /\ w = BootSequence[6]
          \/ n = 8 /\ w = BootSequence[4]
          \/ n = 10 /\ w = BootSequence[2]
        BY <1>5, <1>9
    <3> QED
        BY <3>1, BootSteps
  <2>2. chips' = Write(chips, w)
      BY <1>4, <2>1 DEF ArchInit
  <2>3. chips'[2] = IF n = 10 THEN StartInit(chips[2]) ELSE WriteData(chips[2], w[3])
      BY <1>5, <2>1, <2>2 DEF Write
  <2>4. PICK byte \in Nat : byte = w[3]
      BY <2>1
  <2>5. CASE n = 10
      BY <1>3, <1>5, <2>3, <2>5, ControllerWrites DEF SlaveInv
  <2>6. CASE n # 10
    <3>1. chips'[2] = WriteData(chips[2], byte)
        BY <2>3, <2>4, <2>6
    <3>2. /\ chips'[2].isr = chips[2].isr
          /\ chips[2].step = "icw2" => chips'[2].step = "icw3"
          /\ chips[2].step = "icw3" => chips'[2].step = "icw4"
          /\ chips[2].step = "icw4" /\ 1 \in Bits(byte) => chips'[2].aeoi
        BY <1>5, <3>1, ControllerWrites
    <3>3. 1 \in Bits(255)
        BY DEF Bits, Lines
    <3>4. /\ n = 8 => chips[2].step = "icw2"
          /\ n = 6 => chips[2].step = "icw3"
          /\ n = 2 => chips[2].step = "icw4"
          /\ chips[2].isr = {}
        BY <1>1 DEF SlaveInv
    <3>5. PICK m : m = Len(boot')
        OBVIOUS
    <3>6. (n = 8 /\ m = 7) \/ (n = 6 /\ m = 5) \/ (n = 2 /\ m = 1)
        BY <1>3, <1>9, <2>6, <3>5
    <3>7. n = 2 => byte = 255
        BY <2>1, <2>4
    <3>8. /\ chips'[2].isr = {}
          /\ m = 7 => chips'[2].step = "icw3"
          /\ m = 5 => chips'[2].step = "icw4"
        BY <3>2, <3>4, <3>6
    <3>9. m = 1 => chips'[2].aeoi
        BY <3>2, <3>3, <3>4, <3>6, <3>7
    <3>10. /\ ~(m \in {8, 9}) /\ (m \in {6, 7} => m = 7) /\ (m \in {2, 3, 4, 5} => m = 5)
           /\ (m \in {0, 1} => m = 1)
        BY <3>6
    <3> QED
        BY <3>5, <3>8, <3>9, <3>10, Zenon DEF SlaveInv
  <2> QED
      BY <2>5, <2>6
<1> QED
    BY <1>6, <1>7, <1>8, <1>9

\* After that, what happens to the slave leaves no line of it in service.
LEMMA SlaveStays ==
    ASSUME SlaveInv, boot = <<>>, boot' = boot, chips'[2].isr = {}, chips'[2].aeoi
    PROVE  SlaveInv'
BY DEF SlaveInv

\* A step that changes a mask or the requests of one controller.
LEMMA SlaveKeeps ==
    ASSUME InterruptInv, SlaveInv, boot = <<>>, boot' = boot, NEW k \in {1, 2},
           NEW mask \in SUBSET Lines, NEW irr \in SUBSET Lines,
           \/ chips' = [chips EXCEPT ![k].mask = mask]
           \/ chips' = [chips EXCEPT ![k].irr = irr]
    PROVE  SlaveInv'
<1>1. chips \in [{1, 2} -> Controller] /\ chips[2].isr = {} /\ chips[2].aeoi
    BY DEF InterruptInv, ChipsInv, SlaveInv
<1>2. chips'[2].isr = {} /\ chips'[2].aeoi
    BY <1>1 DEF Controller
<1> QED
    BY <1>2, SlaveStays

\* The slave through every step.
LEMMA NextSlave == InterruptInv /\ SlaveInv /\ [Next]_vars => SlaveInv'
<1> SUFFICES ASSUME InterruptInv, SlaveInv, [Next]_vars PROVE SlaveInv'
    OBVIOUS
<1>1. chips \in [{1, 2} -> Controller] /\ chips[2] \in Controller
    BY DEF InterruptInv, ChipsInv
<1>2. ASSUME UNCHANGED <<boot, chips>> PROVE SlaveInv'
    BY <1>2 DEF SlaveInv
<1>3. boot = <<>> => chips[2].aeoi /\ chips[2].isr = {}
    BY DEF SlaveInv
<1>4. ASSUME NEW irq \in Irqs \cup {2}, SetMask(irq) PROVE SlaveInv'
  <2>1. irq \in 0 .. 15
      BY <1>4, IrqAssumption
  <2>2. PICK k, line : k = Chip(irq) /\ line = irq % 8
      OBVIOUS
  <2>3. k \in {1, 2} /\ line \in Lines
      BY <2>1, <2>2 DEF Chip, Lines
  <2>4. chips[k].mask \in SUBSET Lines
      BY <1>1, <2>3 DEF Controller
  <2>5. /\ boot = <<>> /\ boot' = boot
        /\ \/ chips' = [chips EXCEPT ![k].mask = chips[k].mask \ {line}]
           \/ chips' = [chips EXCEPT ![k].mask = chips[k].mask \cup {line}]
      BY <1>1, <1>4, <2>2, <2>3 DEF SetMask, InTask, pic_enableIrq, pic_disableIrq
  <2>6. PICK mask \in SUBSET Lines : chips' = [chips EXCEPT ![k].mask = mask]
      BY <2>3, <2>4, <2>5
  <2> QED
      BY <2>3, <2>5, <2>6, SlaveKeeps
<1>5. ASSUME NEW irq \in Irqs, Raise(irq) PROVE SlaveInv'
  <2>1. irq \in 0 .. 15
      BY IrqAssumption
  <2>2. PICK k, line : k = Chip(irq) /\ line = irq % 8
      OBVIOUS
  <2>3. k \in {1, 2} /\ line \in Lines
      BY <2>1, <2>2 DEF Chip, Lines
  <2>4. chips[k].irr \in SUBSET Lines
      BY <1>1, <2>3 DEF Controller
  <2>5. PICK irr \in SUBSET Lines : irr = chips[k].irr \cup {line}
      BY <2>3, <2>4
  <2>6. boot = <<>> /\ boot' = boot /\ chips' = [chips EXCEPT ![k].irr = irr]
      BY <1>1, <1>5, <2>2, <2>3, <2>5 DEF Raise
  <2> QED
      BY <2>3, <2>6, SlaveKeeps
<1>6. CASE TakeIrq
  <2>1. PICK slaveLine, line :
            /\ slaveLine = Signals(chips[2], chips[2].irr)
            /\ line = Signals(chips[1], chips[1].irr \cup (IF slaveLine = 8 THEN {} ELSE {2}))
      OBVIOUS
  <2>2. /\ boot' = boot /\ running.if
        /\ \/ /\ line = 2
              /\ chips' = [[chips EXCEPT ![1] = Acknowledge(@, line)]
                              EXCEPT ![2] = Acknowledge(@, slaveLine)]
           \/ chips' = [chips EXCEPT ![1] = Acknowledge(@, line)]
      BY <1>6, <2>1 DEF TakeIrq
  <2>3. chips'[2] \in {chips[2], Acknowledge(chips[2], slaveLine)}
      BY <1>1, <2>2
  <2>4. boot = <<>>
      BY <2>2, BootOver
  <2>5. CASE chips'[2] = chips[2]
      BY <1>3, <2>2, <2>4, <2>5, SlaveStays
  <2>6. CASE chips'[2] # chips[2]
    <3>1. line = 2 /\ chips'[2] = Acknowledge(chips[2], slaveLine)
        BY <1>1, <2>2, <2>3, <2>6
    <3>2. slaveLine \in chips[2].irr \cup {8} /\ chips[1] \in Controller
          /\ chips[1].irr \in SUBSET Lines /\ 2 \notin chips[1].irr
          /\ chips[2].irr \in SUBSET Lines
        BY <1>1, <2>1, SignalledLine DEF InterruptInv, ChipsInv, Controller
    <3>3. slaveLine # 8
      <4> SUFFICES ASSUME slaveLine = 8 PROVE FALSE
          OBVIOUS
      <4>1. line \in chips[1].irr \cup {8}
          BY <2>1, <3>2, SignalledLine
      <4> QED
          BY <3>1, <3>2, <4>1
    <3>4. slaveLine \in Lines
        BY <3>2, <3>3
    <3> QED
        BY <1>1, <1>3, <2>2, <2>4, <3>1, <3>4, SelfEnded, SlaveStays
  <2> QED
      BY <2>5, <2>6
<1>7. CASE irq_service
  <2>1. running.code = "irq" /\ boot' = boot
      BY <1>7 DEF irq_service, InterruptInv, NestingInv, Steps, Context
  <2>2. boot = <<>>
      BY <2>1, BootOver
  <2>3. chips'[2] \in {chips[2], EndOfInterrupt(chips[2])}
      BY <1>1, <1>7 DEF irq_service, irq_endOfInterrupt
  <2>4. EndOfInterrupt(chips[2]).isr = {} /\ EndOfInterrupt(chips[2]).aeoi
    <3>1. EndOfInterrupt(chips[2]) = [chips[2] EXCEPT !.isr = EndOfInterrupt(chips[2]).isr]
        BY <1>1, EndsTheLine
    <3>2. EndOfInterrupt(chips[2]).isr = {}
        BY <1>1, <1>3, <2>2, EndsTheLine
    <3> QED
        BY <1>1, <1>3, <2>2, <3>1, <3>2 DEF Controller
  <2> QED
      BY <1>3, <2>1, <2>2, <2>3, <2>4, SlaveStays
<1>8. ASSUME NEW value \in Values, Work(value) PROVE UNCHANGED <<boot, chips>>
    BY <1>8 DEF Work
<1>9. CASE Fault \/ SaveContext \/ task_resume \/ isr_exception \/ UNCHANGED vars
    BY <1>2, <1>9 DEF Fault, SaveContext, task_resume, isr_exception, vars
<1> QED
    BY <1>2, <1>4, <1>5, <1>6, <1>7, <1>8, <1>9, SlaveBoots DEF Next, CpuStep

\* The slave's initialization in every reachable state.
LEMMA SlaveAlways == Spec => []SlaveInv
<1>1. Init => SlaveInv
  <2> SUFFICES ASSUME Init PROVE SlaveInv
      OBVIOUS
  <2>1. Len(boot) = 11
      BY BootSteps DEF Init, BootSequence
  <2>2. chips[2].isr = {}
      BY DEF Init, Reset
  <2> QED
      BY <2>1, <2>2 DEF SlaveInv
<1> QED
    BY <1>1, NextSlave, InterruptInvariant, PTL DEF Spec

\* Before the slave ends its interrupts itself, none of them is served.
LEMMA SlaveIsServed == InterruptInv /\ SlaveInv => chips[2].aeoi \/ ServedLines[2] = {}
<1> SUFFICES ASSUME InterruptInv, SlaveInv, ~chips[2].aeoi PROVE ServedLines[2] = {}
    OBVIOUS
<1>1. boot # <<>>
    BY DEF SlaveInv
<1>2. running.code = "task" /\ stack = <<>>
    BY <1>1 DEF InterruptInv, BootInv, NestingInv, Booting
<1>3. Append(stack, running) = <<running>>
    BY <1>2
<1>4. Serving = {}
    BY <1>2, <1>3 DEF Serving
<1> QED
    BY <1>4 DEF ServedLines

\* The controllers and the entry code agree: a line of the master is in service exactly
\* while its handlers run; the slave, which ends its interrupts itself, has none in
\* service, and while it did not yet, none of its lines was served.
THEOREM ServiceIsAccounted == Spec => []ServiceInv
<1>1. InterruptInv => TypeOK
  <2> SUFFICES ASSUME InterruptInv PROVE TypeOK
      OBVIOUS
  <2>1. running \in Context /\ saved \in Context /\ stack \in Seq(Context)
      BY DEF InterruptInv, NestingInv
  <2>2. \A i \in {1, 2} : chips[i].mask \subseteq Lines /\ chips[i].isr \subseteq Lines
      BY DEF InterruptInv, ChipsInv, Controller
  <2> QED
      BY <2>1, <2>2 DEF TypeOK
<1>2. InterruptInv /\ SlaveInv => InServiceWhileServing
  <2> SUFFICES ASSUME InterruptInv, SlaveInv PROVE InServiceWhileServing
      OBVIOUS
  <2>1. chips[1].isr = ServedLines[1] /\ ~chips[1].aeoi
      BY ServedIsServing DEF InterruptInv, ChipsInv
  <2>2. chips[2].isr = {} /\ (chips[2].aeoi \/ ServedLines[2] = {})
      BY SlaveIsServed DEF SlaveInv
  <2> QED
      BY <2>1, <2>2 DEF InServiceWhileServing
<1>3. InterruptInv /\ SlaveInv => ServiceInv
    BY <1>1, <1>2 DEF ServiceInv
<1> QED
    BY <1>3, InterruptInvariant, SlaveAlways, PTL

\* One saved context is enough: whatever nests, the service of an interrupt returns to
\* the code that it interrupted.
THEOREM InterruptedIsResumed == Spec => []ResumesInterrupted
<1>1. InterruptInv => ResumesInterrupted
    BY DEF InterruptInv
<1> QED
    BY <1>1, InterruptInvariant, PTL

-----------------------------------------------------------------------------
(* Formatted output. *)

\* A set of numbers that is not empty has a least element.
LEMMA LeastNumber ==
    ASSUME NEW T, T \subseteq Nat, T # {}
    PROVE  \E x \in T : \A y \in T : x <= y
<1> DEFINE R == OpToRel(<, Nat)
<1>1. IsWellFoundedOn(R, Nat)
    BY NatLessThanWellFounded, Zenon
<1>2. \A x, y \in Nat : <<y, x>> \in R <=> y < x
    BY DEF OpToRel
<1> HIDE DEF R
<1>3. PICK x \in T : \A y \in T : ~(<<y, x>> \in R)
    BY <1>1, WFMin
<1>4. ASSUME NEW y \in T PROVE x <= y
  <2>1. x \in Nat /\ y \in Nat
      OBVIOUS
  <2>2. ~(y < x)
      BY <1>2, <1>3, <2>1
  <2> QED
      BY <2>1, <2>2
<1> QED
    BY <1>4

-----------------------------------------------------------------------------
(* The digits of numbers. *)

\* The digit of each value, and back.
LEMMA DigitFacts ==
    ASSUME NEW v \in 0 .. 15
    PROVE  /\ DigitChar[v + 1] \in Range(DigitChar)
           /\ DigitChar[v + 1] \notin {"-", "x", Blank}
           /\ DigitValue(DigitChar[v + 1]) = v
<1>1. /\ DigitChar[1] = "0" /\ DigitChar[2] = "1" /\ DigitChar[3] = "2" /\ DigitChar[4] = "3"
      /\ DigitChar[5] = "4" /\ DigitChar[6] = "5" /\ DigitChar[7] = "6" /\ DigitChar[8] = "7"
      /\ DigitChar[9] = "8" /\ DigitChar[10] = "9" /\ DigitChar[11] = "a" /\ DigitChar[12] = "b"
      /\ DigitChar[13] = "c" /\ DigitChar[14] = "d" /\ DigitChar[15] = "e" /\ DigitChar[16] = "f"
      /\ DOMAIN DigitChar = 1 .. 16
    BY DEF DigitChar
<1>2. v = 0 \/ v = 1 \/ v = 2 \/ v = 3 \/ v = 4 \/ v = 5 \/ v = 6 \/ v = 7 \/ v = 8 \/ v = 9
        \/ v = 10 \/ v = 11 \/ v = 12 \/ v = 13 \/ v = 14 \/ v = 15
    OBVIOUS
<1>3. DigitChar[v + 1] \notin {"-", "x", Blank}
  <2>1. PICK c : c = DigitChar[v + 1]
      OBVIOUS
  <2>2. \/ c = "0" \/ c = "1" \/ c = "2" \/ c = "3" \/ c = "4" \/ c = "5" \/ c = "6" \/ c = "7"
        \/ c = "8" \/ c = "9" \/ c = "a" \/ c = "b" \/ c = "c" \/ c = "d" \/ c = "e" \/ c = "f"
      BY <1>1, <1>2, <2>1
  <2>3. c # "-" /\ c # "x"
      BY <2>2
  <2>4. c # Blank
      BY <2>2, Zenon DEF Blank
  <2> QED
      BY <2>1, <2>3, <2>4
<1>4. DigitChar[v + 1] \in Range(DigitChar)
    BY <1>1 DEF Range
<1>5. ASSUME NEW w \in 0 .. 15, DigitChar[w + 1] = DigitChar[v + 1] PROVE w = v
  <2>1. w = 0 \/ w = 1 \/ w = 2 \/ w = 3 \/ w = 4 \/ w = 5 \/ w = 6 \/ w = 7 \/ w = 8 \/ w = 9
          \/ w = 10 \/ w = 11 \/ w = 12 \/ w = 13 \/ w = 14 \/ w = 15
      OBVIOUS
  <2> QED
      BY <1>1, <1>2, <1>5, <2>1
<1>6. DigitValue(DigitChar[v + 1]) = v
    BY <1>5 DEF DigitValue
<1> QED
    BY <1>3, <1>4, <1>6

\* Every digit is the digit of a value.
LEMMA DigitOfValue ==
    ASSUME NEW ch \in Range(DigitChar)
    PROVE  /\ \E v \in 0 .. 15 : ch = DigitChar[v + 1]
           /\ ch \notin {"-", "x", Blank} /\ DigitValue(ch) \in 0 .. 15
<1>1. DOMAIN DigitChar = 1 .. 16
    BY DEF DigitChar
<1>2. PICK i \in 1 .. 16 : ch = DigitChar[i]
    BY <1>1 DEF Range
<1>3. i - 1 \in 0 .. 15 /\ ch = DigitChar[(i - 1) + 1]
    BY <1>2
<1> QED
    BY <1>3, DigitFacts

\* The decimal digits are digits, and no directives.
LEMMA DecimalFacts ==
    /\ \A ch \in DecimalDigits : ch \in Range(DigitChar) /\ DigitValue(ch) \in 0 .. 9
    /\ "0" \in DecimalDigits /\ DigitValue("0") = 0
    /\ \A ch \in {"%", "#", ".", "l", "c", "s", "d", "p", "u", "x", "-"} : ch \notin DecimalDigits
<1>1. /\ DigitChar[1] = "0" /\ DigitChar[2] = "1" /\ DigitChar[3] = "2" /\ DigitChar[4] = "3"
      /\ DigitChar[5] = "4" /\ DigitChar[6] = "5" /\ DigitChar[7] = "6" /\ DigitChar[8] = "7"
      /\ DigitChar[9] = "8" /\ DigitChar[10] = "9"
    BY DEF DigitChar
<1>2. ASSUME NEW ch \in DecimalDigits
      PROVE  ch \in Range(DigitChar) /\ DigitValue(ch) \in 0 .. 9
  <2>1. PICK i \in 1 .. 10 : ch = DigitChar[i]
      BY DEF DecimalDigits
  <2>2. i - 1 \in 0 .. 9 /\ i - 1 \in 0 .. 15 /\ ch = DigitChar[(i - 1) + 1]
      BY <2>1
  <2> QED
      BY <2>2, DigitFacts
<1>3. "0" \in DecimalDigits /\ DigitValue("0") = 0
  <2>1. 0 \in 0 .. 15 /\ DigitChar[0 + 1] = "0"
      BY <1>1
  <2>2. DigitValue("0") = 0
      BY <2>1, DigitFacts
  <2> QED
      BY <1>1, <2>2 DEF DecimalDigits
<1>4. DecimalDigits = {"0", "1", "2", "3", "4", "5", "6", "7", "8", "9"}
  <2>1. \A i \in 1 .. 10 : i = 1 \/ i = 2 \/ i = 3 \/ i = 4 \/ i = 5 \/ i = 6 \/ i = 7 \/ i = 8
                             \/ i = 9 \/ i = 10
      OBVIOUS
  <2> QED
      BY <1>1, <2>1 DEF DecimalDigits
<1> QED
    BY <1>2, <1>3, <1>4

\* The digits of n, from those of the quotient that f has.
WriteStep(f, n, base) ==
    IF n < base THEN <<DigitChar[n + 1]>>
    ELSE Append(f[n \div base], DigitChar[(n % base) + 1])

\* f has what Number gives for the numbers up to k.
Writing(f, k, base) == f = [n \in 0 .. k |-> WriteStep(f, n, base)]

\* The quotient is smaller than the number.
LEMMA QuotientFacts ==
    ASSUME NEW n \in Nat, NEW base \in Nat, base > 1, n >= base
    PROVE  /\ n \div base \in Nat /\ n \div base < n /\ n % base \in 0 .. (base - 1)
           /\ n = base * (n \div base) + (n % base)
<1>1. PICK q, r : q = n \div base /\ r = n % base
    OBVIOUS
<1>2. q \in Nat /\ r \in 0 .. (base - 1) /\ n = base * q + r
    BY <1>1
<1>3. q < n
  <2>1. SUFFICES ASSUME q >= n PROVE FALSE
      BY <1>2
  <2>2. base * q >= 2 * q
    <3>1. base - 2 \in Nat /\ q \in Nat
        BY <1>2
    <3>2. (base - 2) * q >= 0
        BY <3>1
    <3>3. base * q = (base - 2) * q + 2 * q
        BY <3>1
    <3> QED
        BY <3>1, <3>2, <3>3
  <2>3. base * q \in Nat /\ 2 * q \in Nat /\ q >= 2 /\ r >= 0
      BY <1>2, <2>1
  <2> QED
      BY <1>2, <2>1, <2>2, <2>3
<1> QED
    BY <1>1, <1>2, <1>3

\* A step depends on the digits of the quotient alone.
LEMMA StepsAgree ==
    ASSUME NEW base \in Nat, base > 1, NEW n \in Nat, NEW f, NEW g,
           n >= base => f[n \div base] = g[n \div base]
    PROVE  WriteStep(f, n, base) = WriteStep(g, n, base)
<1>1. CASE n < base
    BY <1>1 DEF WriteStep
<1>2. CASE n >= base
  <2>1. f[n \div base] = g[n \div base] /\ ~(n < base)
      BY <1>2
  <2> QED
      BY <2>1, Zenon DEF WriteStep
<1> QED
    BY <1>1, <1>2

\* The digits of the numbers up to any k are well defined.
LEMMA WritingExists ==
    ASSUME NEW base \in Nat, base > 1
    PROVE  \A k \in Nat : \E f : Writing(f, k, base)
<1> DEFINE Bad == {k \in Nat : ~\E f : Writing(f, k, base)}
<1>1. SUFFICES ASSUME Bad # {} PROVE FALSE
    OBVIOUS
<1>2. PICK k \in Bad : \A y \in Bad : k <= y
    BY <1>1, LeastNumber
<1>3. k \in Nat /\ ~\E f : Writing(f, k, base)
    OBVIOUS
<1>4. CASE k = 0
  <2>1. PICK f : f = [n \in 0 .. 0 |-> <<DigitChar[n + 1]>>]
      OBVIOUS
  <2>2. \A n \in 0 .. 0 : WriteStep(f, n, base) = <<DigitChar[n + 1]>>
      BY DEF WriteStep
  <2>3. Writing(f, 0, base)
      BY <2>1, <2>2 DEF Writing
  <2> QED
      BY <1>3, <1>4, <2>3
<1>5. CASE k # 0
  <2>1. k - 1 \in Nat /\ k - 1 \notin Bad
      BY <1>2, <1>3, <1>5
  <2>2. PICK g : Writing(g, k - 1, base)
      BY <2>1
  <2>3. PICK f : f = [n \in 0 .. k |-> WriteStep(g, n, base)]
      OBVIOUS
  <2>4. ASSUME NEW n \in 0 .. (k - 1) PROVE f[n] = g[n]
    <3>1. n \in 0 .. k
        BY <1>3
    <3> QED
        BY <2>2, <2>3, <3>1 DEF Writing
  <2>5. ASSUME NEW n \in 0 .. k PROVE WriteStep(g, n, base) = WriteStep(f, n, base)
    <3>1. ASSUME n >= base PROVE g[n \div base] = f[n \div base]
      <4>1. n \in Nat /\ n \div base \in Nat /\ n \div base < n
          BY <1>3, <3>1, QuotientFacts
      <4>2. n \div base \in 0 .. (k - 1)
          BY <1>3, <4>1
      <4> QED
          BY <2>4, <4>2
    <3> QED
        BY <1>3, <3>1, StepsAgree
  <2>6. Writing(f, k, base)
      BY <2>3, <2>5 DEF Writing
  <2> QED
      BY <1>3, <2>6
<1> QED
    BY <1>4, <1>5

\* They do not depend on k.
LEMMA WritingsAgree ==
    ASSUME NEW base \in Nat, base > 1, NEW j \in Nat, NEW k \in Nat,
           NEW f, NEW g, Writing(f, j, base), Writing(g, k, base)
    PROVE  \A n \in Nat : n <= j /\ n <= k => f[n] = g[n]
<1> DEFINE Bad == {n \in Nat : n <= j /\ n <= k /\ f[n] # g[n]}
<1>1. SUFFICES ASSUME Bad # {} PROVE FALSE
    OBVIOUS
<1>2. PICK n \in Bad : \A y \in Bad : n <= y
    BY <1>1, LeastNumber
<1>3. n \in Nat /\ n <= j /\ n <= k /\ f[n] # g[n]
    OBVIOUS
<1>4. n \in 0 .. j /\ n \in 0 .. k
    BY <1>3
<1>5. f[n] = WriteStep(f, n, base) /\ g[n] = WriteStep(g, n, base)
    BY <1>4 DEF Writing
<1>6. ASSUME n >= base PROVE f[n \div base] = g[n \div base]
  <2>1. n \div base \in Nat /\ n \div base < n
      BY <1>3, <1>6, QuotientFacts
  <2>2. n \div base \notin Bad
      BY <1>2, <1>3, <2>1
  <2> QED
      BY <1>3, <2>1, <2>2
<1> QED
    BY <1>3, <1>5, <1>6, StepsAgree

\* The equation of the digits of a number.
LEMMA NumberStep ==
    ASSUME NEW base \in Nat, base > 1, NEW n \in Nat
    PROVE  Number(n, base) = IF n < base THEN <<DigitChar[n + 1]>>
                             ELSE Append(Number(n \div base, base), DigitChar[(n % base) + 1])
<1> DEFINE Upto(k) == CHOOSE f : Writing(f, k, base)
           All(f) == f = [k \in Nat |-> WriteStep(f, k, base)]
<1>1. \A k \in Nat : Writing(Upto(k), k, base)
    BY WritingExists
<1> HIDE DEF Upto
<1>2. PICK G : G = [k \in Nat |-> Upto(k)[k]]
    OBVIOUS
<1>3. ASSUME NEW k \in Nat PROVE G[k] = WriteStep(G, k, base)
  <2>1. Writing(Upto(k), k, base) /\ k \in 0 .. k
      BY <1>1
  <2>2. Upto(k)[k] = WriteStep(Upto(k), k, base)
      BY <2>1 DEF Writing
  <2>3. ASSUME k >= base PROVE Upto(k)[k \div base] = G[k \div base]
    <3>1. k \div base \in Nat /\ k \div base < k
        BY <2>3, QuotientFacts
    <3>2. k \div base <= k /\ k \div base <= k \div base
        BY <3>1
    <3>3. Upto(k)[k \div base] = Upto(k \div base)[k \div base]
        BY <1>1, <3>1, <3>2, WritingsAgree
    <3> QED
        BY <1>2, <3>1, <3>3
  <2> QED
      BY <1>2, <2>2, <2>3, StepsAgree
<1>4. All(G)
  <2>1. G = [k \in Nat |-> G[k]]
      BY <1>2
  <2> QED
      BY <1>3, <2>1
<1>5. PICK d : d = CHOOSE f : All(f)
    OBVIOUS
<1>6. All(d)
    BY <1>4, <1>5
<1>7. \A k : Number(k, base) = d[k]
    BY <1>5, Zenon DEF Number, WriteStep
<1>8. d[n] = WriteStep(d, n, base)
    BY <1>6
<1> QED
    BY <1>7, <1>8, Zenon DEF WriteStep

-----------------------------------------------------------------------------
(* Reading numbers back. *)

\* f has the values that the first 0 to k characters stand for.
Reading(f, k, text, places, base) ==
    /\ f[0] = 0
    /\ \A i \in 1 .. k :
          f[i] = IF i \in places THEN base * f[i - 1] + DigitValue(text[i]) ELSE f[i - 1]

ReadStep(f, i, text, places, base) ==
    IF i = 0 THEN 0
    ELSE IF i \in places THEN base * f[i - 1] + DigitValue(text[i])
    ELSE f[i - 1]

\* The values of the first characters are well defined.
LEMMA ReadingExists ==
    ASSUME NEW text, NEW places, NEW base
    PROVE  \A k \in Nat : \E f : f = [i \in 0 .. k |-> ReadStep(f, i, text, places, base)]
<1> DEFINE Good(f, k) == f = [i \in 0 .. k |-> ReadStep(f, i, text, places, base)]
           Bad == {k \in Nat : ~\E f : Good(f, k)}
<1>1. SUFFICES ASSUME Bad # {} PROVE FALSE
    OBVIOUS
<1>2. PICK k \in Bad : \A y \in Bad : k <= y
    BY <1>1, LeastNumber
<1>3. k \in Nat /\ ~\E f : Good(f, k)
    OBVIOUS
<1>4. CASE k = 0
  <2>1. PICK f : f = [i \in 0 .. 0 |-> 0]
      OBVIOUS
  <2>2. \A i \in 0 .. 0 : ReadStep(f, i, text, places, base) = 0
      BY DEF ReadStep
  <2>3. Good(f, 0)
      BY <2>1, <2>2
  <2> QED
      BY <1>3, <1>4, <2>3
<1>5. CASE k # 0
  <2>1. k - 1 \in Nat /\ k - 1 \notin Bad
      BY <1>2, <1>3, <1>5
  <2>2. PICK g : Good(g, k - 1)
      BY <2>1
  <2>3. PICK f : f = [i \in 0 .. k |-> ReadStep(g, i, text, places, base)]
      OBVIOUS
  <2>4. ASSUME NEW i \in 0 .. (k - 1) PROVE f[i] = g[i]
    <3>1. i \in 0 .. k
        BY <1>3
    <3> QED
        BY <2>2, <2>3, <3>1
  <2>5. ASSUME NEW i \in 0 .. k
        PROVE  ReadStep(g, i, text, places, base) = ReadStep(f, i, text, places, base)
    <3>1. CASE i = 0
        BY <3>1 DEF ReadStep
    <3>2. CASE i # 0
      <4>1. i - 1 \in 0 .. (k - 1)
          BY <1>3, <3>2
      <4>2. f[i - 1] = g[i - 1]
          BY <2>4, <4>1
      <4> QED
          BY <3>2, <4>2 DEF ReadStep
    <3> QED
        BY <3>1, <3>2
  <2>6. Good(f, k)
      BY <2>3, <2>5
  <2> QED
      BY <1>3, <2>6
<1> QED
    BY <1>4, <1>5

\* The value of a text is that of all its characters.
LEMMA ValueIsRead ==
    ASSUME NEW text, Len(text) \in Nat, NEW places, NEW base
    PROVE  \E f : /\ Reading(f, Len(text), text, places, base)
                  /\ ValueOf(text, places, base) = f[Len(text)]
<1> DEFINE Good(f) == f = [i \in 0 .. Len(text) |-> ReadStep(f, i, text, places, base)]
<1>1. PICK f : f = CHOOSE g : Good(g)
    OBVIOUS
<1>2. Good(f)
    BY <1>1, ReadingExists
<1>3. ValueOf(text, places, base) = f[Len(text)]
    BY <1>1, Zenon DEF ValueOf, ReadStep
<1>4. \A i \in 0 .. Len(text) : f[i] = ReadStep(f, i, text, places, base)
    BY <1>2
<1>5. Reading(f, Len(text), text, places, base)
  <2>1. f[0] = 0
      BY <1>4 DEF ReadStep
  <2>2. ASSUME NEW i \in 1 .. Len(text)
        PROVE  f[i] = IF i \in places THEN base * f[i - 1] + DigitValue(text[i]) ELSE f[i - 1]
    <3>1. i \in 0 .. Len(text) /\ i # 0
        OBVIOUS
    <3> QED
        BY <1>4, <3>1 DEF ReadStep
  <2> QED
      BY <2>1, <2>2 DEF Reading
<1> QED
    BY <1>3, <1>5

\* Where the first d characters stand for 0 and the others are those of a second
\* text, the values are the same.
LEMMA ReadingsAgree ==
    ASSUME NEW d \in Nat, NEW m \in Nat, NEW base,
           NEW f, NEW g, NEW text, NEW other, NEW places, NEW those,
           Reading(f, d + m, text, places, base), Reading(g, m, other, those, base),
           f[d] = 0,
           \A i \in 1 .. m : text[d + i] = other[i] /\ (d + i \in places <=> i \in those)
    PROVE  \A i \in 0 .. m : f[d + i] = g[i]
<1> DEFINE Bad == {i \in 0 .. m : f[d + i] # g[i]}
<1>1. SUFFICES ASSUME Bad # {} PROVE FALSE
    OBVIOUS
<1>2. PICK i \in Bad : \A y \in Bad : i <= y
  <2>1. Bad \subseteq Nat
      OBVIOUS
  <2> QED
      BY <1>1, <2>1, LeastNumber
<1>3. i \in 0 .. m /\ f[d + i] # g[i]
    OBVIOUS
<1>4. i # 0
    BY <1>3 DEF Reading
<1>5. /\ i \in 1 .. m /\ i - 1 \in 0 .. m /\ d + i \in 1 .. (d + m)
      /\ (d + i) - 1 = d + (i - 1)
    BY <1>3, <1>4
<1>6. f[d + (i - 1)] = g[i - 1]
  <2>1. i - 1 \notin Bad
      BY <1>2, <1>3
  <2> QED
      BY <1>5, <2>1
<1>7. f[d + i] = IF d + i \in places THEN base * f[d + (i - 1)] + DigitValue(text[d + i])
                 ELSE f[d + (i - 1)]
  <2>1. f[d + i] = IF d + i \in places THEN base * f[(d + i) - 1] + DigitValue(text[d + i])
                   ELSE f[(d + i) - 1]
      BY <1>5 DEF Reading
  <2> QED
      BY <1>5, <2>1
<1>8. g[i] = IF i \in those THEN base * g[i - 1] + DigitValue(other[i]) ELSE g[i - 1]
    BY <1>5 DEF Reading
<1>9. text[d + i] = other[i] /\ (d + i \in places <=> i \in those)
    BY <1>5
<1> QED
    BY <1>3, <1>6, <1>7, <1>8, <1>9

\* The first d characters are no digits, or zeros.
ZerosFirst(d, text, places) == \A i \in 1 .. d : i \in places => DigitValue(text[i]) = 0

\* Characters that are no digits, and zeros, stand for 0.
LEMMA LeadingZeros ==
    ASSUME NEW d \in Nat, NEW k \in Nat, d <= k, NEW base \in Nat, NEW f, NEW text, NEW places,
           Reading(f, k, text, places, base),
           ZerosFirst(d, text, places)
    PROVE  \A i \in 0 .. d : f[i] = 0
<1> DEFINE Bad == {i \in 0 .. d : f[i] # 0}
<1>1. SUFFICES ASSUME Bad # {} PROVE FALSE
    OBVIOUS
<1>2. PICK i \in Bad : \A y \in Bad : i <= y
  <2>1. Bad \subseteq Nat
      OBVIOUS
  <2> QED
      BY <1>1, <2>1, LeastNumber
<1>3. i \in 0 .. d /\ f[i] # 0
    OBVIOUS
<1>4. i # 0
    BY <1>3 DEF Reading
<1>5. i \in 1 .. d /\ i \in 1 .. k /\ i - 1 \in 0 .. d
    BY <1>3, <1>4
<1>6. f[i - 1] = 0
  <2>1. i - 1 \notin Bad
      BY <1>2, <1>3
  <2> QED
      BY <1>5, <2>1
<1>7. f[i] = IF i \in places THEN base * f[i - 1] + DigitValue(text[i]) ELSE f[i - 1]
    BY <1>5 DEF Reading
<1>8. i \in places => DigitValue(text[i]) = 0
    BY <1>5 DEF ZerosFirst
<1> QED
    BY <1>3, <1>6, <1>7, <1>8

\* A text with one more character.
IsNext(next, text, ch) == next = Append(text, ch)

\* Two sets of places agree on the first k characters.
SamePlaces(k, places, those) == \A i \in 1 .. k : i \in places <=> i \in those

\* What the character adds to the value.
ValueStep(next, text, ch, places, those, base) ==
    /\ Len(text) + 1 \in places =>
          ValueOf(next, places, base) = base * ValueOf(text, those, base) + DigitValue(ch)
    /\ Len(text) + 1 \notin places => ValueOf(next, places, base) = ValueOf(text, those, base)

\* The value of a text with one more character.
LEMMA ValueAppend ==
    ASSUME NEW S, NEW text \in Seq(S), NEW ch, NEW base, NEW next, IsNext(next, text, ch),
           NEW places, NEW those, SamePlaces(Len(text), places, those)
    PROVE  ValueStep(next, text, ch, places, those, base)
<1>1. PICK n : n = Len(text)
    OBVIOUS
<1>2. /\ n \in Nat /\ Len(next) = n + 1 /\ next[n + 1] = ch
      /\ \A i \in 1 .. n : next[i] = text[i]
    BY <1>1 DEF IsNext
<1>3. \A i \in 1 .. n : i \in places <=> i \in those
    BY <1>1 DEF SamePlaces
<1>4. PICK f : /\ Reading(f, n + 1, next, places, base)
               /\ ValueOf(next, places, base) = f[n + 1]
    BY ONLY <1>2, ValueIsRead
<1>5. PICK g : Reading(g, n, text, those, base) /\ ValueOf(text, those, base) = g[n]
    BY ONLY <1>1, <1>2, ValueIsRead
<1>6. f[n] = g[n]
  <2>1. Reading(f, 0 + n, next, places, base) /\ f[0] = 0 /\ 0 \in Nat /\ n \in 0 .. n
      BY <1>2, <1>4 DEF Reading
  <2>2. \A i \in 1 .. n : next[0 + i] = text[i] /\ (0 + i \in places <=> i \in those)
      BY <1>2, <1>3
  <2>3. f[0 + n] = g[n]
      BY ONLY <1>2, <1>5, <2>1, <2>2, ReadingsAgree
  <2> QED
      BY <1>2, <2>3
<1>7. f[n + 1] = IF n + 1 \in places THEN base * f[n] + DigitValue(ch) ELSE f[n]
  <2>1. n + 1 \in 1 .. (n + 1) /\ (n + 1) - 1 = n
      BY <1>2
  <2> QED
      BY <1>2, <1>4, <2>1 DEF Reading
<1> QED
    BY <1>1, <1>2, <1>4, <1>5, <1>6, <1>7 DEF ValueStep

\* A text without characters stands for 0.
LEMMA ValueOfNothing ==
    ASSUME NEW places, NEW base
    PROVE  ValueOf(<<>>, places, base) = 0
<1>1. Len(<<>>) = 0
    OBVIOUS
<1>2. PICK f : Reading(f, 0, <<>>, places, base) /\ ValueOf(<<>>, places, base) = f[0]
    BY <1>1, ValueIsRead
<1> QED
    BY <1>2 DEF Reading

\* The places of a text at which there are digits.
DigitPlaces(text) == {i \in DOMAIN text : text[i] \in Range(DigitChar)}

\* A text of digits with one more.
LEMMA OneMoreDigit ==
    ASSUME NEW text \in Seq(Range(DigitChar)), NEW v \in 0 .. 15, NEW base, NEW next,
           IsNext(next, text, DigitChar[v + 1])
    PROVE  /\ next \in Seq(Range(DigitChar)) /\ Len(next) = Len(text) + 1
           /\ ValueOf(next, DigitPlaces(next), base)
                  = base * ValueOf(text, DigitPlaces(text), base) + v
<1>1. DigitChar[v + 1] \in Range(DigitChar) /\ DigitValue(DigitChar[v + 1]) = v
    BY DigitFacts
<1>2. /\ next \in Seq(Range(DigitChar)) /\ Len(next) = Len(text) + 1
      /\ Len(text) \in Nat /\ DOMAIN text = 1 .. Len(text) /\ DOMAIN next = 1 .. (Len(text) + 1)
      /\ next[Len(text) + 1] = DigitChar[v + 1]
      /\ \A i \in 1 .. Len(text) : next[i] = text[i]
    BY <1>1 DEF IsNext
<1>3. SamePlaces(Len(text), DigitPlaces(next), DigitPlaces(text))
    BY <1>2 DEF DigitPlaces, SamePlaces
<1>4. Len(text) + 1 \in DigitPlaces(next)
    BY <1>1, <1>2 DEF DigitPlaces
<1>5. ValueOf(next, DigitPlaces(next), base)
          = base * ValueOf(text, DigitPlaces(text), base) + DigitValue(DigitChar[v + 1])
  <2>1. PICK S, ch, those : /\ S = Range(DigitChar) /\ ch = DigitChar[v + 1]
                            /\ those = DigitPlaces(text)
      OBVIOUS
  <2>2. text \in Seq(S) /\ IsNext(next, text, ch) /\ SamePlaces(Len(text), DigitPlaces(next), those)
      BY <1>3, <2>1
  <2>3. ValueOf(next, DigitPlaces(next), base) = base * ValueOf(text, those, base) + DigitValue(ch)
    <3>1. ValueStep(next, text, ch, DigitPlaces(next), those, base)
        BY ONLY <2>2, ValueAppend
    <3> QED
        BY ONLY <1>4, <3>1 DEF ValueStep
  <2> QED
      BY ONLY <2>1, <2>3
<1> QED
    BY <1>1, <1>2, <1>4, <1>5

\* The digits of a number, read back, are the number.
LEMMA NumberFacts ==
    ASSUME NEW base \in 2 .. 16
    PROVE  \A n \in Nat :
              /\ Number(n, base) \in Seq(Range(DigitChar)) /\ Len(Number(n, base)) > 0
              /\ ValueOf(Number(n, base), DigitPlaces(Number(n, base)), base) = n
<1> DEFINE Good(n, text) == /\ text \in Seq(Range(DigitChar)) /\ Len(text) > 0
                            /\ ValueOf(text, DigitPlaces(text), base) = n
           Bad == {n \in Nat : ~Good(n, Number(n, base))}
<1>1. SUFFICES ASSUME Bad # {} PROVE FALSE
    OBVIOUS
<1>2. PICK n \in Bad : \A y \in Bad : n <= y
    BY <1>1, LeastNumber
<1>3. n \in Nat /\ ~Good(n, Number(n, base))
    OBVIOUS
<1>4. base \in Nat /\ base > 1
    OBVIOUS
<1>5. CASE n < base
  <2>1. PICK empty, next : empty = <<>> /\ IsNext(next, empty, DigitChar[n + 1])
      BY DEF IsNext
  <2>2. Number(n, base) = next
    <3>1. Number(n, base) = <<DigitChar[n + 1]>>
        BY <1>3, <1>4, <1>5, NumberStep
    <3>2. Append(<<>>, DigitChar[n + 1]) = <<DigitChar[n + 1]>>
        OBVIOUS
    <3> QED
        BY <2>1, <3>1, <3>2 DEF IsNext
  <2>3. n \in 0 .. 15 /\ empty \in Seq(Range(DigitChar)) /\ Len(empty) = 0
      BY <1>3, <1>5, <2>1
  <2>4. /\ next \in Seq(Range(DigitChar)) /\ Len(next) = Len(empty) + 1
        /\ ValueOf(next, DigitPlaces(next), base)
               = base * ValueOf(empty, DigitPlaces(empty), base) + n
      BY <2>1, <2>3, OneMoreDigit
  <2>5. ValueOf(empty, DigitPlaces(empty), base) = 0
      BY <2>1, ValueOfNothing
  <2>6. Good(n, next)
      BY <1>3, <1>4, <2>3, <2>4, <2>5
  <2> QED
      BY <1>3, <2>2, <2>6
<1>6. CASE n >= base
  <2>1. PICK q, r : q = n \div base /\ r = n % base
      OBVIOUS
  <2>2. q \in Nat /\ q < n /\ r \in 0 .. (base - 1) /\ n = base * q + r
      BY <1>3, <1>4, <1>6, <2>1, QuotientFacts
  <2>3. Good(q, Number(q, base))
    <3>1. q \notin Bad
        BY <1>2, <1>3, <2>2
    <3> QED
        BY <2>2, <3>1
  <2>4. Number(n, base) = Append(Number(q, base), DigitChar[r + 1])
    <3>1. Number(n, base) = IF n < base THEN <<DigitChar[n + 1]>>
                            ELSE Append(Number(n \div base, base), DigitChar[(n % base) + 1])
        BY <1>3, <1>4, NumberStep
    <3>2. ~(n < base)
        BY <1>3, <1>4, <1>6
    <3> QED
        BY <2>1, <3>1, <3>2, Zenon
  <2>5. PICK text, next : text = Number(q, base) /\ next = Number(n, base)
      OBVIOUS
  <2>6. r \in 0 .. 15 /\ text \in Seq(Range(DigitChar)) /\ IsNext(next, text, DigitChar[r + 1])
      BY <2>2, <2>3, <2>4, <2>5 DEF IsNext
  <2>7. /\ next \in Seq(Range(DigitChar)) /\ Len(next) = Len(text) + 1
        /\ ValueOf(next, DigitPlaces(next), base)
               = base * ValueOf(text, DigitPlaces(text), base) + r
      BY <2>6, OneMoreDigit
  <2>8. Good(n, next)
      BY <2>2, <2>3, <2>5, <2>6, <2>7
  <2> QED
      BY <1>3, <2>5, <2>8
<1> QED
    BY <1>3, <1>4, <1>5, <1>6

\* A number behind a sign or prefix and filler.
Shown(sign, missing, fill, digits) == sign \o [i \in 1 .. missing |-> fill] \o digits

IsShown(text, sign, missing, fill, digits) == text = Shown(sign, missing, fill, digits)

\* Two texts one after the other.
IsJoined(c, a, b) == c = a \o b

\* What they hold.
LEMMA JoinedFacts ==
    ASSUME NEW S, NEW a \in Seq(S), NEW b \in Seq(S), NEW c, IsJoined(c, a, b)
    PROVE  /\ c \in Seq(S) /\ Len(c) = Len(a) + Len(b)
           /\ \A i \in 1 .. Len(a) : c[i] = a[i]
           /\ \A i \in 1 .. Len(b) : c[Len(a) + i] = b[i]
BY DEF IsJoined

\* The signs and prefixes.
Signs == {<<>>, <<"-">>, <<"0", "x">>}

\* What they are made of.
LEMMA SignFacts ==
    ASSUME NEW sign \in Signs
    PROVE  /\ sign \in Seq({"-", "0", "x"}) /\ Len(sign) \in 0 .. 2
           /\ sign = <<"-">> => Len(sign) = 1 /\ sign[1] = "-"
           /\ sign # <<"-">> => \A i \in 1 .. Len(sign) : sign[i] # "-"
<1>1. CASE sign = <<>>
    BY <1>1
<1>2. CASE sign = <<"-">>
    BY <1>2
<1>3. CASE sign = <<"0", "x">>
  <2>1. sign \in Seq({"-", "0", "x"}) /\ Len(sign) = 2 /\ sign[1] = "0" /\ sign[2] = "x"
      BY <1>3
  <2>2. \A i \in 1 .. 2 : i = 1 \/ i = 2
      OBVIOUS
  <2>3. sign # <<"-">>
    <3>1. Len(<<"-">>) = 1
        OBVIOUS
    <3> QED
        BY <2>1, <3>1
  <2> QED
      BY <2>1, <2>2, <2>3
<1> QED
    BY <1>1, <1>2, <1>3 DEF Signs

\* A text has the value n behind its sign and filler.
Shows(text, sign, missing, digits, base, n) ==
    /\ text \in Seq(Range(DigitChar) \cup {"-", "x", Blank})
    /\ Len(text) = Len(sign) + missing + Len(digits)
    /\ Head(text) = "-" <=> sign = <<"-">>
    /\ missing = 0 => Blank \notin Range(text)
    /\ ValueOf(text, DigitPlaces(text), base) = n

\* What a converted number looks like, and says when it is read back.
LEMMA ShownFacts ==
    ASSUME NEW sign \in Signs, NEW missing \in Nat,
           NEW fill \in {"0", Blank}, NEW base \in 2 .. 16, NEW n \in Nat, NEW text,
           IsShown(text, sign, missing, fill, Number(n, base))
    PROVE  Shows(text, sign, missing, Number(n, base), base, n)
<1>0. missing \in Nat /\ fill \in {"0", Blank} /\ base \in Nat /\ n \in Nat
    OBVIOUS
<1>1. PICK digits : digits = Number(n, base)
    OBVIOUS
<1>2. /\ digits \in Seq(Range(DigitChar)) /\ Len(digits) \in Nat \ {0}
      /\ ValueOf(digits, DigitPlaces(digits), base) = n
  <2>1. /\ digits \in Seq(Range(DigitChar)) /\ Len(digits) > 0
        /\ ValueOf(digits, DigitPlaces(digits), base) = n
      BY <1>1, NumberFacts
  <2>2. Len(digits) \in Nat
      BY <2>1, LenProperties
  <2> QED
      BY ONLY <2>1, <2>2
<1>3. PICK s, k : s = Len(sign) /\ k = Len(digits)
    OBVIOUS
<1>4. PICK all : all = Range(DigitChar) \cup {"-", "x", Blank}
    OBVIOUS
<1>5. "0" \in Range(DigitChar) /\ DigitValue("0") = 0
    BY DecimalFacts
<1>6. /\ \A ch \in Range(DigitChar) : ch \notin {"-", "x", Blank}
      /\ Blank # "-" /\ Blank # "0" /\ Blank # "x"
  <2>1. Blank # "-" /\ Blank # "0" /\ Blank # "x"
      BY Zenon DEF Blank
  <2> QED
      BY ONLY <2>1, DigitOfValue
<1>7. /\ s \in 0 .. 2 /\ sign \in Seq(all) /\ k \in Nat \ {0}
      /\ \A i \in 1 .. s : sign[i] \in {"-", "0", "x"}
      /\ sign = <<"-">> => s = 1 /\ sign[1] = "-"
      /\ sign # <<"-">> => \A i \in 1 .. s : sign[i] # "-"
  <2>1. sign \in Seq({"-", "0", "x"}) /\ s \in 0 .. 2
      BY ONLY <1>0, <1>3, SignFacts
  <2>2. {"-", "0", "x"} \subseteq all
      BY ONLY <1>0, <1>4, <1>5
  <2>3. sign \in Seq(all) /\ \A i \in 1 .. s : sign[i] \in {"-", "0", "x"}
      BY ONLY <1>0, <1>3, <2>1, <2>2
  <2> QED
      BY ONLY <1>0, <1>2, <1>3, <2>1, <2>3, SignFacts
<1>8. digits \in Seq(all)
    BY ONLY <1>0, <1>2, <1>4
<1>9. PICK filler : filler = [i \in 1 .. missing |-> fill]
    OBVIOUS
<1>10. filler \in Seq(all) /\ Len(filler) = missing /\ \A i \in 1 .. missing : filler[i] = fill
    BY ONLY <1>0, <1>4, <1>5, <1>9
<1>11. /\ text \in Seq(all) /\ Len(text) = s + missing + k
       /\ \A i \in 1 .. s : text[i] = sign[i]
       /\ \A i \in 1 .. missing : text[s + i] = fill
       /\ \A i \in 1 .. k : text[(s + missing) + i] = digits[i]
  <2>1. PICK front : IsJoined(front, sign, filler)
      BY DEF IsJoined
  <2>2. /\ front \in Seq(all) /\ Len(front) = s + missing
        /\ \A i \in 1 .. s : front[i] = sign[i]
        /\ \A i \in 1 .. missing : front[s + i] = filler[i]
    <3>1. /\ front \in Seq(all) /\ Len(front) = Len(sign) + Len(filler)
          /\ \A i \in 1 .. Len(sign) : front[i] = sign[i]
          /\ \A i \in 1 .. Len(filler) : front[Len(sign) + i] = filler[i]
      <4>1. sign \in Seq(all)
          BY ONLY <1>7
      <4>2. filler \in Seq(all)
          BY ONLY <1>10
      <4> QED
          BY ONLY <2>1, <4>1, <4>2, JoinedFacts
    <3> QED
        BY ONLY <1>3, <1>10, <3>1
  <2>3. IsJoined(text, front, digits)
      BY <1>1, <1>9, <2>1 DEF IsShown, Shown, IsJoined
  <2>4. /\ text \in Seq(all) /\ Len(text) = (s + missing) + k
        /\ \A i \in 1 .. (s + missing) : text[i] = front[i]
        /\ \A i \in 1 .. k : text[(s + missing) + i] = digits[i]
    <3>1. /\ text \in Seq(all) /\ Len(text) = Len(front) + Len(digits)
          /\ \A i \in 1 .. Len(front) : text[i] = front[i]
          /\ \A i \in 1 .. Len(digits) : text[Len(front) + i] = digits[i]
      <4>1. front \in Seq(all)
          BY ONLY <2>2
      <4> QED
          BY ONLY <1>8, <2>3, <4>1, JoinedFacts
    <3> QED
        BY ONLY <1>3, <2>2, <3>1
  <2>5. ASSUME NEW i \in 1 .. s PROVE text[i] = sign[i]
    <3>1. i \in 1 .. (s + missing)
        BY <1>0, <1>7
    <3> QED
        BY ONLY <2>2, <2>4, <2>5, <3>1
  <2>6. ASSUME NEW i \in 1 .. missing PROVE text[s + i] = fill
    <3>1. s + i \in 1 .. (s + missing)
        BY <1>0, <1>7
    <3> QED
        BY ONLY <1>10, <2>2, <2>4, <2>6, <3>1
  <2> QED
      BY ONLY <2>4, <2>5, <2>6
<1>12. DOMAIN text = 1 .. (s + missing + k) /\ DOMAIN digits = 1 .. k
    BY ONLY <1>0, <1>2, <1>3, <1>11
<1>13. \A i \in 1 .. k : digits[i] \in Range(DigitChar)
    BY ONLY <1>0, <1>2, <1>3
<1>14. Head(text) = "-" <=> sign = <<"-">>
  <2>1. Head(text) = text[1]
      BY ONLY <1>0, <1>7, <1>11
  <2>2. CASE s > 0
      BY ONLY <1>0, <1>7, <1>11, <2>1, <2>2
  <2>3. CASE s = 0 /\ missing > 0
    <3>1. text[1] = fill
        BY ONLY <1>0, <1>11, <2>3
    <3> QED
        BY ONLY <1>0, <1>6, <1>7, <2>1, <2>3, <3>1
  <2>4. CASE s = 0 /\ missing = 0
    <3>1. text[1] = digits[1] /\ 1 \in 1 .. k
        BY ONLY <1>0, <1>7, <1>11, <2>4
    <3> QED
        BY ONLY <1>0, <1>6, <1>7, <1>13, <2>1, <2>4, <3>1
  <2> QED
      BY ONLY <1>0, <1>7, <2>2, <2>3, <2>4
<1>15. ASSUME missing = 0, NEW i \in 1 .. (s + missing + k) PROVE text[i] # Blank
  <2>1. CASE i <= s
      BY ONLY <1>0, <1>6, <1>7, <1>11, <1>15, <2>1
  <2>2. CASE i > s
    <3>1. i - s \in 1 .. k /\ (s + missing) + (i - s) = i
        BY ONLY <1>0, <1>7, <1>15, <2>2
    <3>2. text[i] = digits[i - s]
        BY ONLY <1>0, <1>11, <3>1
    <3> QED
        BY ONLY <1>0, <1>6, <1>13, <3>1, <3>2
  <2> QED
      BY ONLY <1>0, <1>7, <2>1, <2>2
<1>16. missing = 0 => Blank \notin Range(text)
    BY ONLY <1>0, <1>12, <1>15 DEF Range
<1>17. ValueOf(text, DigitPlaces(text), base) = n
  <2>1. PICK d : d = s + missing
      OBVIOUS
  <2>2. d \in Nat /\ Len(text) = d + k /\ d <= d + k /\ d + k \in Nat /\ k \in 0 .. k /\ d \in 0 .. d
      BY ONLY <1>0, <1>7, <1>11, <2>1
  <2>3. PICK f : /\ Reading(f, d + k, text, DigitPlaces(text), base)
                 /\ ValueOf(text, DigitPlaces(text), base) = f[d + k]
      BY ONLY <1>0, <2>2, ValueIsRead
  <2>4. PICK g : /\ Reading(g, k, digits, DigitPlaces(digits), base)
                 /\ ValueOf(digits, DigitPlaces(digits), base) = g[k]
      BY ONLY <1>0, <1>3, <1>7, ValueIsRead
  <2>5. ASSUME NEW i \in 1 .. d, i \in DigitPlaces(text) PROVE DigitValue(text[i]) = 0
    <3>1. text[i] \in Range(DigitChar)
        BY ONLY <1>0, <2>5 DEF DigitPlaces
    <3>2. text[i] \in {"-", "0", "x", Blank}
      <4>1. CASE i <= s
          BY ONLY <1>0, <1>7, <1>11, <4>1
      <4>2. CASE i > s
        <5>1. i - s \in 1 .. missing /\ s + (i - s) = i
            BY ONLY <1>0, <1>7, <2>1, <4>2
        <5> QED
            BY ONLY <1>0, <1>11, <5>1
      <4> QED
          BY ONLY <1>0, <1>7, <4>1, <4>2
    <3> QED
        BY ONLY <1>0, <1>5, <1>6, <3>1, <3>2
  <2>6. f[d] = 0
    <3>1. ZerosFirst(d, text, DigitPlaces(text))
        BY <2>5 DEF ZerosFirst
    <3> QED
        BY ONLY <1>0, <2>2, <2>3, <3>1, LeadingZeros
  <2>7. ASSUME NEW i \in 1 .. k
        PROVE  text[d + i] = digits[i] /\ (d + i \in DigitPlaces(text) <=> i \in DigitPlaces(digits))
    <3>1. d + i \in DOMAIN text /\ i \in DOMAIN digits /\ text[d + i] = digits[i]
        BY ONLY <1>0, <1>7, <1>11, <1>12, <2>1, <2>2
    <3> QED
        BY ONLY <1>0, <3>1 DEF DigitPlaces
  <2>8. f[d + k] = g[k]
      BY ONLY <1>0, <1>7, <2>2, <2>3, <2>4, <2>6, <2>7, ReadingsAgree
  <2> QED
      BY ONLY <1>0, <1>2, <2>3, <2>4, <2>8
<1> QED
    BY ONLY <1>0, <1>1, <1>2, <1>3, <1>4, <1>11, <1>14, <1>16, <1>17 DEF Shows

-----------------------------------------------------------------------------
(* The length that a conversion asks for. *)

Undotted(chars) == \A j \in 1 .. Len(chars) : chars[j] # "."

\* The digits before the first dot.
Counted(chars) ==
    {i \in DOMAIN chars : chars[i] \in DecimalDigits /\ \A j \in 1 .. i : chars[j] # "."}

\* The length when one more character has been read.
LEMMA AskedStep ==
    ASSUME NEW S, NEW chars \in Seq(S), NEW ch \in S, NEW next, IsNext(next, chars, ch)
    PROVE  /\ ch \in DecimalDigits /\ Undotted(chars) =>
                 AskedLength(next) = 10 * AskedLength(chars) + DigitValue(ch)
           /\ ch \notin DecimalDigits \/ ~Undotted(chars) =>
                 AskedLength(next) = AskedLength(chars)
           /\ Undotted(next) <=> Undotted(chars) /\ ch # "."
<1>1. PICK n : n = Len(chars)
    OBVIOUS
<1>2. /\ n \in Nat /\ next \in Seq(S) /\ Len(next) = n + 1 /\ next[n + 1] = ch
      /\ DOMAIN chars = 1 .. n /\ DOMAIN next = 1 .. (n + 1)
      /\ \A i \in 1 .. n : next[i] = chars[i]
    BY <1>1 DEF IsNext
<1>3. SamePlaces(Len(chars), Counted(next), Counted(chars))
  <2>1. ASSUME NEW i \in 1 .. n PROVE i \in Counted(next) <=> i \in Counted(chars)
    <3>1. i \in DOMAIN next /\ i \in DOMAIN chars /\ next[i] = chars[i]
        BY <1>2
    <3>2. \A j \in 1 .. i : next[j] = chars[j]
        BY <1>2
    <3> QED
        BY ONLY <3>1, <3>2 DEF Counted
  <2> QED
      BY ONLY <1>1, <2>1 DEF SamePlaces
<1>4. n + 1 \in Counted(next) <=> ch \in DecimalDigits /\ Undotted(chars)
  <2>1. n + 1 \in DOMAIN next /\ next[n + 1] = ch
      BY <1>2
  <2>2. ch \in DecimalDigits => ch # "."
      BY DecimalFacts
  <2>3. (\A j \in 1 .. (n + 1) : next[j] # ".") <=> Undotted(chars) /\ ch # "."
      BY <1>1, <1>2 DEF Undotted
  <2>4. n + 1 \in Counted(next) <=>
            ch \in DecimalDigits /\ \A j \in 1 .. (n + 1) : next[j] # "."
      BY ONLY <2>1 DEF Counted
  <2> QED
      BY ONLY <2>2, <2>3, <2>4
<1>5. /\ AskedLength(next) = ValueOf(next, Counted(next), 10)
      /\ AskedLength(chars) = ValueOf(chars, Counted(chars), 10)
    BY Zenon DEF AskedLength, Counted
<1>6. PICK places, those : places = Counted(next) /\ those = Counted(chars)
    OBVIOUS
<1>7. /\ n + 1 \in places => ValueOf(next, places, 10) = 10 * ValueOf(chars, those, 10) + DigitValue(ch)
      /\ n + 1 \notin places => ValueOf(next, places, 10) = ValueOf(chars, those, 10)
  <2>1. SamePlaces(Len(chars), places, those)
      BY ONLY <1>3, <1>6
  <2>2. /\ Len(chars) + 1 \in places =>
              ValueOf(next, places, 10) = 10 * ValueOf(chars, those, 10) + DigitValue(ch)
        /\ Len(chars) + 1 \notin places => ValueOf(next, places, 10) = ValueOf(chars, those, 10)
    <3>1. PICK base : base = 10
        OBVIOUS
    <3>2. chars \in Seq(S) /\ IsNext(next, chars, ch)
        OBVIOUS
    <3>3. ValueStep(next, chars, ch, places, those, base)
        BY ONLY <2>1, <3>2, ValueAppend
    <3> QED
        BY ONLY <3>1, <3>3 DEF ValueStep
  <2> QED
      BY ONLY <1>1, <2>2
<1>8. Undotted(next) <=> Undotted(chars) /\ ch # "."
    BY <1>1, <1>2 DEF Undotted
<1> QED
    BY ONLY <1>4, <1>5, <1>6, <1>7, <1>8

\* Nothing is asked for at first.
LEMMA AskedNothing == AskedLength(<<>>) = 0 /\ Undotted(<<>>)
<1>1. AskedLength(<<>>) = 0
    BY ValueOfNothing DEF AskedLength
<1>2. Undotted(<<>>)
    BY DEF Undotted
<1> QED
    BY <1>1, <1>2

\* Whether a character has been read, when one more has.
LEMMA SeenStep ==
    ASSUME NEW S, NEW chars \in Seq(S), NEW ch \in S, NEW next, IsNext(next, chars, ch), NEW c
    PROVE  c \in Range(next) <=> c \in Range(chars) \/ c = ch
<1>1. PICK n : n = Len(chars)
    OBVIOUS
<1>2. /\ n \in Nat /\ next[n + 1] = ch
      /\ DOMAIN chars = 1 .. n /\ DOMAIN next = 1 .. (n + 1)
      /\ \A i \in 1 .. n : next[i] = chars[i]
    BY <1>1 DEF IsNext
<1> QED
    BY ONLY <1>2 DEF Range

-----------------------------------------------------------------------------
(* The invariant. *)

\* What the buffer is made of.
Symbols ==
    Characters \cup Range(DigitChar) \cup {"-", "x", Blank, "%", "c"}
        \cup UNION {Range(string) : string \in Strings}

Contexts == [padZero : BOOLEAN, prefix : BOOLEAN, long : BOOLEAN, hasMin : BOOLEAN, min : Nat,
             hasMax : BOOLEAN, max : Nat,
             state : {"START", "ESCAPE", "MINLEN", "MAXLEN", "ACTION_L"}]

\* The buffer has the beginning of the text, as much as fits.
WrittenFacts ==
    /\ limit \in Nat \cup {NoLimit}
    /\ full \in Seq(Symbols)
    /\ buffer = SubSeq(full, 1, Fits(Len(full)))

\* At the end the port has what is in the buffer, the level excepted.
PortFacts ==
    /\ left \in Int
    /\ left = -1 => port = buffer \/ port = SubSeq(buffer, 2, Len(buffer))

\* The context has what the characters of the conversion say.
ParsedFacts(chars, c) ==
    /\ c.long <=> "l" \in Range(chars)
    /\ AskedLength(chars) = IF c.hasMin THEN c.min ELSE 0
    /\ c.state = "ESCAPE" => ~c.hasMin /\ Undotted(chars)
    /\ c.state = "MINLEN" => c.hasMin /\ Undotted(chars)
    /\ c.state = "MAXLEN" => ~Undotted(chars)

ContextFacts ==
    /\ ctx \in Contexts /\ spec \in Seq(Characters)
    /\ ctx.state # "START" => ParsedFacts(spec, ctx)

BaseOf(number) == IF Last(number.spec) \in {"p", "x"} THEN 16 ELSE 10

\* A number reads back as what it should say, and is as long as was asked for.
Right(number) ==
    /\ ReadBack(number.text, BaseOf(number)) = Meant(number)
    /\ Len(number.text) >= AskedLength(number.spec)
    /\ Len(number.text) > AskedLength(number.spec) => Blank \notin Range(number.text)

PrintfFacts ==
    /\ WrittenFacts /\ PortFacts /\ ContextFacts
    /\ last # NoNumber => Right(last)

\* A text goes into the buffer as far as it fits.
LEMMA OutFacts ==
    ASSUME WrittenFacts, NEW text \in Seq(Symbols), vsprintf_generic_out(text), limit' = limit
    PROVE  WrittenFacts'
<1>1. PICK a, b, m, n : a = full /\ b = buffer /\ m = Len(full) /\ n = Len(text)
    OBVIOUS
<1>2. /\ limit \in Nat \cup {NoLimit} /\ NoLimit = -1 /\ a \in Seq(Symbols) /\ text \in Seq(Symbols)
      /\ m = Len(a) /\ n = Len(text) /\ m \in Nat /\ n \in Nat
      /\ b = SubSeq(a, 1, Fits(m))
    BY <1>1 DEF WrittenFacts, NoLimit
<1>3. PICK after : IsJoined(after, a, text)
    BY DEF IsJoined
<1>4. /\ full' = after
      /\ buffer' = b \o SubSeq(text, 1, Fits(Len(b) + n) - Len(b))
    BY <1>1, <1>3 DEF vsprintf_generic_out, IsJoined
<1>5. /\ after \in Seq(Symbols) /\ Len(after) = m + n
      /\ \A i \in 1 .. m : after[i] = a[i]
      /\ \A i \in 1 .. n : after[m + i] = text[i]
  <2>1. a \in Seq(Symbols)
      BY ONLY <1>2
  <2>2. /\ after \in Seq(Symbols) /\ Len(after) = Len(a) + Len(text)
        /\ \A i \in 1 .. Len(a) : after[i] = a[i]
        /\ \A i \in 1 .. Len(text) : after[Len(a) + i] = text[i]
      BY <1>3, <2>1, JoinedFacts
  <2> QED
      BY ONLY <1>2, <2>2
<1>6. CASE limit = NoLimit \/ m <= limit
  <2>1. Fits(m) = m
      BY <1>6 DEF Fits
  <2>2. b = a
      BY ONLY <1>2, <2>1
  <2>3. PICK k : k = Fits(m + n)
      OBVIOUS
  <2>4. k \in m .. (m + n)
      BY <1>2, <1>6, <2>3 DEF Fits
  <2>5. buffer' = a \o SubSeq(text, 1, k - m)
      BY ONLY <1>2, <1>4, <2>2, <2>3
  <2>6. PICK rest : rest = SubSeq(text, 1, k - m)
      OBVIOUS
  <2>7. rest \in Seq(Symbols) /\ Len(rest) = k - m /\ \A i \in 1 .. (k - m) : rest[i] = text[i]
      BY ONLY <1>2, <2>4, <2>6
  <2>8. PICK c : IsJoined(c, a, rest)
      BY DEF IsJoined
  <2>9. /\ c \in Seq(Symbols) /\ Len(c) = Len(a) + Len(rest)
        /\ \A i \in 1 .. Len(a) : c[i] = a[i]
        /\ \A i \in 1 .. Len(rest) : c[Len(a) + i] = rest[i]
    <3>1. a \in Seq(Symbols)
        BY ONLY <1>2
    <3>2. rest \in Seq(Symbols)
        BY ONLY <2>7
    <3> QED
        BY ONLY <2>8, <3>1, <3>2, JoinedFacts
  <2>10. PICK d : d = SubSeq(after, 1, k)
      OBVIOUS
  <2>11. d \in Seq(Symbols) /\ Len(d) = k /\ \A i \in 1 .. k : d[i] = after[i]
      BY ONLY <1>2, <1>5, <2>4, <2>10
  <2>12. Len(c) = k /\ \A i \in 1 .. k : c[i] = after[i]
    <3>1. Len(c) = k
        BY ONLY <1>2, <2>4, <2>7, <2>9
    <3>2. ASSUME NEW i \in 1 .. k PROVE c[i] = after[i]
      <4>1. CASE i <= m
          BY ONLY <1>2, <1>5, <2>4, <2>9, <3>2, <4>1
      <4>2. CASE i > m
        <5>1. i - m \in 1 .. (k - m) /\ i - m \in 1 .. n /\ m + (i - m) = i
            BY <1>2, <2>4, <4>2
        <5>2. c[m + (i - m)] = rest[i - m] /\ after[m + (i - m)] = text[i - m]
            BY ONLY <1>2, <1>5, <2>7, <2>9, <5>1
        <5> QED
            BY ONLY <2>7, <5>1, <5>2
      <4> QED
          BY <1>2, <2>4, <4>1, <4>2
    <3> QED
        BY ONLY <3>1, <3>2
  <2>13. c = d
      BY ONLY <2>4, <1>2, <2>9, <2>11, <2>12, SeqEqual
  <2>14. buffer' = SubSeq(after, 1, Fits(Len(after)))
      BY <1>5, <2>3, <2>5, <2>6, <2>8, <2>10, <2>13 DEF IsJoined
  <2> QED
      BY <1>2, <1>4, <1>5, <2>14 DEF WrittenFacts, Fits
<1>7. CASE limit # NoLimit /\ m > limit
  <2>1. limit \in Nat /\ limit <= m /\ Fits(m) = limit
      BY <1>2, <1>7 DEF Fits
  <2>2. b \in Seq(Symbols) /\ Len(b) = limit /\ \A i \in 1 .. limit : b[i] = a[i]
      BY ONLY <1>2, <2>1
  <2>3. Fits(limit + n) = limit /\ Fits(m + n) = limit
      BY <1>2, <2>1, <1>7 DEF Fits
  <2>4. buffer' = b \o SubSeq(text, 1, 0)
    <3>1. Fits(Len(b) + n) - Len(b) = 0
        BY ONLY <2>1, <2>2, <2>3
    <3> QED
        BY ONLY <1>4, <3>1
  <2>5. buffer' = b
      BY ONLY <1>2, <2>2, <2>4
  <2>6. PICK d : d = SubSeq(after, 1, limit)
      OBVIOUS
  <2>7. d \in Seq(Symbols) /\ Len(d) = limit /\ \A i \in 1 .. limit : d[i] = after[i]
      BY ONLY <1>2, <1>5, <2>1, <2>6
  <2>8. \A i \in 1 .. limit : b[i] = d[i]
      BY ONLY <1>2, <1>5, <2>1, <2>2, <2>7
  <2>9. b = d
      BY ONLY <2>1, <2>2, <2>7, <2>8, SeqEqual
  <2>10. buffer' = SubSeq(after, 1, Fits(Len(after)))
      BY ONLY <1>5, <2>3, <2>5, <2>6, <2>9
  <2> QED
      BY <1>2, <1>4, <1>5, <2>10 DEF WrittenFacts, Fits
<1> QED
    BY <1>2, <1>6, <1>7

\* The texts that are written are made of symbols.
LEMMA SymbolFacts ==
    /\ \A ch \in Characters \cup {"-", "x", Blank, "%", "c"} : <<ch>> \in Seq(Symbols)
    /\ Range(DigitChar) \cup {"-", "x", Blank} \subseteq Symbols
    /\ \A string \in Strings : string \in Seq(Symbols)
<1>1. ASSUME NEW ch \in Characters \cup {"-", "x", Blank, "%", "c"} PROVE <<ch>> \in Seq(Symbols)
  <2>1. ch \in Symbols
      BY DEF Symbols
  <2> QED
      BY <2>1
<1>2. Range(DigitChar) \cup {"-", "x", Blank} \subseteq Symbols
    BY DEF Symbols
<1>3. ASSUME NEW string \in Strings PROVE string \in Seq(Symbols)
  <2>1. PICK S : S = Range(string)
      OBVIOUS
  <2>2. string \in Seq(S) /\ S \subseteq Symbols
      BY <2>1, PrintfAssumption DEF Symbols
  <2> QED
      BY <2>2
<1> QED
    BY <1>1, <1>2, <1>3

\* The digits that a conversion puts in front.
Missing(sign, digits) ==
    IF ctx.hasMin /\ Len(digits) < ctx.min - Len(sign) THEN ctx.min - Len(sign) - Len(digits) ELSE 0

\* The text of a conversion.
TextOf(sign, digits) ==
    Shown(sign, Missing(sign, digits), IF ctx.padZero THEN "0" ELSE Blank, digits)

\* Convert, with its text named.
LEMMA ConvertIs ==
    ASSUME NEW ch, NEW arg, NEW sign, NEW n, NEW base, Convert(ch, arg, sign, n, base)
    PROVE  /\ vsprintf_generic_out(TextOf(sign, Number(n, base)))
           /\ last' = [spec |-> Append(spec, ch), arg |-> arg,
                       text |-> TextOf(sign, Number(n, base))]
           /\ ctx' = [ctx EXCEPT !.state = "START"]
BY Zenon DEF Convert, TextOf, Missing, Shown

\* What stands behind a sign.
Negated(sign, n) == IF sign = <<"-">> THEN -n ELSE n

\* The filler makes up the length that was asked for, and no more.
LEMMA MissingFacts ==
    ASSUME ctx \in Contexts, NEW sign, Len(sign) \in 0 .. 2, NEW digits, Len(digits) \in Nat,
           NEW asked, asked = IF ctx.hasMin THEN ctx.min ELSE 0, NEW missing,
           missing = Missing(sign, digits)
    PROVE  /\ missing \in Nat
           /\ Len(sign) + missing + Len(digits) >= asked
           /\ Len(sign) + missing + Len(digits) > asked => missing = 0
<1>1. PICK s, k : s = Len(sign) /\ k = Len(digits)
    OBVIOUS
<1>2. s \in 0 .. 2 /\ k \in Nat
    BY <1>1
<1>3. ctx.min \in Nat /\ ctx.hasMin \in BOOLEAN
    BY DEF Contexts
<1>4. missing = IF ctx.hasMin /\ k < ctx.min - s THEN ctx.min - s - k ELSE 0
    BY <1>1 DEF Missing
<1>5. /\ missing \in Nat /\ s + missing + k >= asked
      /\ s + missing + k > asked => missing = 0
  <2>1. CASE ctx.hasMin /\ k < ctx.min - s
      BY <1>2, <1>3, <1>4, <2>1
  <2>2. CASE ctx.hasMin /\ ~(k < ctx.min - s)
      BY <1>2, <1>3, <1>4, <2>2
  <2>3. CASE ~ctx.hasMin
      BY <1>2, <1>3, <1>4, <2>3
  <2> QED
      BY <2>1, <2>2, <2>3
<1> QED
    BY <1>1, <1>5

\* A conversion writes symbols, and a number that reads back as it should.
LEMMA ConvertFacts ==
    ASSUME PrintfFacts, ctx.state # "START",
           NEW ch \in Characters, ch \in {"d", "p", "u", "x"}, NEW arg,
           NEW sign \in Signs, NEW n \in Nat, NEW base \in 2 .. 16,
           base = IF ch \in {"p", "x"} THEN 16 ELSE 10,
           Convert(ch, arg, sign, n, base),
           NEW size, size = IF ch = "p" \/ ctx.long THEN LongSize ELSE IntSize,
           Negated(sign, n) = IF ch = "d" THEN Signed(arg % size, size) ELSE arg % size
    PROVE  /\ \E text \in Seq(Symbols) : vsprintf_generic_out(text)
           /\ Right(last') /\ ctx' = [ctx EXCEPT !.state = "START"]
<1>1. PICK digits, missing, text, chars :
          /\ digits = Number(n, base) /\ missing = Missing(sign, digits)
          /\ text = TextOf(sign, digits) /\ IsNext(chars, spec, ch)
    BY DEF IsNext
<1>2. /\ vsprintf_generic_out(text)
      /\ last' = [spec |-> chars, arg |-> arg, text |-> text]
      /\ ctx' = [ctx EXCEPT !.state = "START"]
    BY <1>1, ConvertIs DEF IsNext
<1>3. ctx \in Contexts /\ spec \in Seq(Characters) /\ ParsedFacts(spec, ctx)
    BY DEF PrintfFacts, ContextFacts
<1>4. PICK fill : fill = IF ctx.padZero THEN "0" ELSE Blank
    OBVIOUS
<1>5. fill \in {"0", Blank}
    BY <1>4
<1>6. Len(digits) \in Nat \ {0} /\ Len(sign) \in 0 .. 2
  <2>1. digits \in Seq(Range(DigitChar)) /\ Len(digits) > 0
      BY <1>1, NumberFacts
  <2>2. Len(digits) \in Nat
      BY <2>1, LenProperties
  <2> QED
      BY <2>1, <2>2, SignFacts
<1>7. PICK asked : asked = IF ctx.hasMin THEN ctx.min ELSE 0
    OBVIOUS
<1>8. /\ missing \in Nat
      /\ Len(sign) + missing + Len(digits) >= asked
      /\ Len(sign) + missing + Len(digits) > asked => missing = 0
    BY <1>1, <1>3, <1>6, <1>7, MissingFacts
<1>9. /\ text \in Seq(Range(DigitChar) \cup {"-", "x", Blank})
      /\ Len(text) = Len(sign) + missing + Len(digits)
      /\ Head(text) = "-" <=> sign = <<"-">>
      /\ missing = 0 => Blank \notin Range(text)
      /\ ValueOf(text, DigitPlaces(text), base) = n
  <2>1. IsShown(text, sign, missing, fill, Number(n, base))
      BY <1>1, <1>4 DEF TextOf, IsShown
  <2>2. sign \in Signs /\ missing \in Nat /\ base \in 2 .. 16 /\ n \in Nat
      BY ONLY <1>8
  <2>3. Shows(text, sign, missing, Number(n, base), base, n)
      BY ONLY <1>5, <2>1, <2>2, ShownFacts
  <2> QED
      BY <1>1, <2>3 DEF Shows
<1>10. text \in Seq(Symbols)
  <2>1. PICK S : S = Range(DigitChar) \cup {"-", "x", Blank}
      OBVIOUS
  <2>2. S \subseteq Symbols /\ text \in Seq(S)
      BY <1>9, <2>1, SymbolFacts
  <2> QED
      BY <2>2
<1>11. chars \in Seq(Characters) /\ Last(chars) = ch
    BY <1>1, <1>3 DEF IsNext, Last
<1>12. AskedLength(chars) = asked
  <2>1. ch \notin DecimalDigits
      BY DecimalFacts
  <2>2. AskedLength(chars) = AskedLength(spec)
      BY <1>1, <1>3, <2>1, AskedStep
  <2> QED
      BY <1>3, <1>7, <2>2 DEF ParsedFacts
<1>13. "l" \in Range(chars) <=> ctx.long
  <2>1. "l" \in Range(chars) <=> "l" \in Range(spec) \/ "l" = ch
      BY <1>1, <1>3, SeenStep
  <2> QED
      BY <1>3, <2>1 DEF ParsedFacts
<1>14. PICK number : number = last'
    OBVIOUS
<1>15. number.spec = chars /\ number.arg = arg /\ number.text = text
    BY <1>2, <1>14
<1>16. BaseOf(number) = base
    BY <1>11, <1>15 DEF BaseOf
<1>17. Meant(number) = IF ch = "d" THEN Signed(arg % size, size) ELSE arg % size
    BY <1>11, <1>13, <1>15 DEF Meant
<1>18. ReadBack(text, base) = Negated(sign, n)
    BY <1>9 DEF ReadBack, DigitPlaces, Negated
<1>19. Right(number)
  <2>1. ReadBack(number.text, BaseOf(number)) = Meant(number)
      BY <1>15, <1>16, <1>17, <1>18
  <2>2. Len(number.text) >= AskedLength(number.spec)
      BY <1>8, <1>9, <1>12, <1>15
  <2>3. Len(number.text) > AskedLength(number.spec) => Blank \notin Range(number.text)
      BY <1>8, <1>9, <1>12, <1>15
  <2> QED
      BY <2>1, <2>2, <2>3 DEF Right
<1> QED
    BY <1>2, <1>10, <1>14, <1>19

\* A long fits in its own width.
LEMMA WidthFacts ==
    ASSUME NEW arg \in Longs
    PROVE  /\ arg \in Nat /\ arg % LongSize = arg
           /\ LongSize \in Nat \ {0} /\ IntSize \in Nat \ {0} /\ arg % IntSize \in Nat
<1>1. arg \in 0 .. (LongSize - 1) /\ LongSize \in Nat \ {0} /\ IntSize \in Nat \ {0}
    BY PrintfAssumption
<1>2. arg \in Nat /\ arg % LongSize = arg /\ arg % IntSize \in Nat
    BY <1>1
<1> QED
    BY <1>1, <1>2

\* The bases and signs of the conversions.
LEMMA SignIs ==
    /\ <<>> \in Signs /\ <<"-">> \in Signs /\ <<"0", "x">> \in Signs
    /\ \A n : Negated(<<>>, n) = n /\ Negated(<<"-">>, n) = -n /\ Negated(<<"0", "x">>, n) = n
<1>1. <<>> \in Signs /\ <<"-">> \in Signs /\ <<"0", "x">> \in Signs
    BY DEF Signs
<1>2. <<>> # <<"-">> /\ <<"0", "x">> # <<"-">>
  <2>1. Len(<<>>) = 0 /\ Len(<<"-">>) = 1 /\ Len(<<"0", "x">>) = 2
      OBVIOUS
  <2> QED
      BY <2>1
<1> QED
    BY <1>1, <1>2, Zenon DEF Negated

\* A numeric conversion.
LEMMA NumericFacts ==
    ASSUME PrintfFacts, ctx.state # "START", NEW ch \in Characters, NEW arg \in Longs,
           \/ ch = "d" /\ ConvertD(arg)
           \/ ch = "p" /\ Convert("p", arg, <<"0", "x">>, arg, 16)
           \/ ch = "u" /\ Convert("u", arg, <<>>, ToWidth(arg), 10)
           \/ ch = "x" /\ Convert("x", arg, IF ctx.prefix THEN <<"0", "x">> ELSE <<>>, ToWidth(arg), 16)
    PROVE  \/ /\ \E text \in Seq(Symbols) : vsprintf_generic_out(text)
              /\ Right(last') /\ ctx' = [ctx EXCEPT !.state = "START"]
           \/ ch = "d" /\ UNCHANGED <<ctx, buffer, full, last>>
<1> DEFINE Good == /\ \E text \in Seq(Symbols) : vsprintf_generic_out(text)
                   /\ Right(last') /\ ctx' = [ctx EXCEPT !.state = "START"]
           Size(c) == IF c = "p" \/ ctx.long THEN LongSize ELSE IntSize
<1> HIDE DEF Good
<1>1. /\ arg \in Nat /\ arg % LongSize = arg
      /\ LongSize \in Nat \ {0} /\ IntSize \in Nat \ {0} /\ arg % IntSize \in Nat
    BY WidthFacts
<1>2. 10 \in 2 .. 16 /\ 16 \in 2 .. 16
    OBVIOUS
<1>3. ToWidth(arg) \in Nat /\ ToWidth(arg) = arg % (IF ctx.long THEN LongSize ELSE IntSize)
    BY <1>1 DEF ToWidth
<1>4. CASE ch = "p" /\ Convert("p", arg, <<"0", "x">>, arg, 16)
  <2>1. PICK sign, base, size : sign = <<"0", "x">> /\ base = 16 /\ size = LongSize
      OBVIOUS
  <2>2. /\ ch \in {"d", "p", "u", "x"} /\ sign \in Signs /\ base \in 2 .. 16 /\ arg \in Nat
        /\ base = IF ch \in {"p", "x"} THEN 16 ELSE 10
        /\ Convert(ch, arg, sign, arg, base)
        /\ size = IF ch = "p" \/ ctx.long THEN LongSize ELSE IntSize
        /\ Negated(sign, arg) = IF ch = "d" THEN Signed(arg % size, size) ELSE arg % size
      BY <1>1, <1>2, <1>4, <2>1, SignIs
  <2> QED
      BY <2>2, ConvertFacts DEF Good
<1>5. CASE ch = "u" /\ Convert("u", arg, <<>>, ToWidth(arg), 10)
  <2>1. PICK sign, base, size, n : /\ sign = <<>> /\ base = 10 /\ n = ToWidth(arg)
                                   /\ size = IF ctx.long THEN LongSize ELSE IntSize
      OBVIOUS
  <2>2. /\ ch \in {"d", "p", "u", "x"} /\ sign \in Signs /\ base \in 2 .. 16 /\ n \in Nat
        /\ base = IF ch \in {"p", "x"} THEN 16 ELSE 10
        /\ Convert(ch, arg, sign, n, base)
        /\ size = IF ch = "p" \/ ctx.long THEN LongSize ELSE IntSize
        /\ Negated(sign, n) = IF ch = "d" THEN Signed(arg % size, size) ELSE arg % size
      BY <1>2, <1>3, <1>5, <2>1, SignIs
  <2> QED
      BY <2>2, ConvertFacts DEF Good
<1>6. CASE ch = "x" /\ Convert("x", arg, IF ctx.prefix THEN <<"0", "x">> ELSE <<>>, ToWidth(arg), 16)
  <2>1. PICK sign, base, size, n : /\ sign = IF ctx.prefix THEN <<"0", "x">> ELSE <<>>
                                   /\ base = 16 /\ n = ToWidth(arg)
                                   /\ size = IF ctx.long THEN LongSize ELSE IntSize
      OBVIOUS
  <2>2. sign \in Signs /\ Negated(sign, n) = n
      BY <2>1, SignIs, Zenon
  <2>3. /\ ch \in {"d", "p", "u", "x"} /\ sign \in Signs /\ base \in 2 .. 16 /\ n \in Nat
        /\ base = IF ch \in {"p", "x"} THEN 16 ELSE 10
        /\ size = IF ch = "p" \/ ctx.long THEN LongSize ELSE IntSize
        /\ Negated(sign, n) = IF ch = "d" THEN Signed(arg % size, size) ELSE arg % size
      BY <1>2, <1>3, <1>6, <2>1, <2>2
  <2>4. Convert(ch, arg, sign, n, base)
      BY <1>6, <2>1, Zenon
  <2> QED
      BY <2>3, <2>4, ConvertFacts DEF Good
<1>7. CASE ch = "d" /\ ConvertD(arg)
  <2>1. PICK size : size = IF ctx.long THEN LongSize ELSE IntSize
      OBVIOUS
  <2>2. PICK value : value = Signed(arg % size, size)
      OBVIOUS
  <2>3. arg % size \in Nat /\ size \in Nat \ {0}
      BY <1>1, <2>1
  <2>4. value \in Int
      BY <2>2, <2>3 DEF Signed
  <2>5. value = IF ctx.long THEN Signed(arg, LongSize) ELSE Signed(arg % IntSize, IntSize)
      BY <1>1, <2>1, <2>2
  <2>6. \/ UNCHANGED <<ctx, buffer, full, last>>
        \/ value < 0 /\ Convert("d", arg, <<"-">>, -value, 10)
        \/ ~(value < 0) /\ Convert("d", arg, <<>>, value, 10)
      BY <1>7, <2>5, Zenon DEF ConvertD
  <2>7. CASE value < 0 /\ Convert("d", arg, <<"-">>, -value, 10)
    <3>1. PICK sign, base, n : sign = <<"-">> /\ base = 10 /\ n = -value
        OBVIOUS
    <3>2. n \in Nat /\ -n = value
        BY <2>4, <2>7, <3>1
    <3>3. /\ ch \in {"d", "p", "u", "x"} /\ sign \in Signs /\ base \in 2 .. 16
          /\ base = IF ch \in {"p", "x"} THEN 16 ELSE 10
          /\ Convert(ch, arg, sign, n, base)
          /\ size = IF ch = "p" \/ ctx.long THEN LongSize ELSE IntSize
        BY <1>2, <1>7, <2>1, <2>7, <3>1, SignIs
    <3>4. Negated(sign, n) = IF ch = "d" THEN Signed(arg % size, size) ELSE arg % size
        BY <1>7, <2>2, <3>1, <3>2, SignIs
    <3> QED
        BY <3>2, <3>3, <3>4, ConvertFacts DEF Good
  <2>8. CASE ~(value < 0) /\ Convert("d", arg, <<>>, value, 10)
    <3>1. PICK sign, base : sign = <<>> /\ base = 10
        OBVIOUS
    <3>2. value \in Nat
        BY <2>4, <2>8
    <3>3. /\ ch \in {"d", "p", "u", "x"} /\ sign \in Signs /\ base \in 2 .. 16
          /\ base = IF ch \in {"p", "x"} THEN 16 ELSE 10
          /\ Convert(ch, arg, sign, value, base)
          /\ size = IF ch = "p" \/ ctx.long THEN LongSize ELSE IntSize
        BY <1>2, <1>7, <2>1, <2>8, <3>1, SignIs
    <3>4. Negated(sign, value) = IF ch = "d" THEN Signed(arg % size, size) ELSE arg % size
        BY <1>7, <2>2, <3>1, SignIs
    <3> QED
        BY <3>2, <3>3, <3>4, ConvertFacts DEF Good
  <2> QED
      BY <1>7, <2>6, <2>7, <2>8
<1> QED
    BY <1>4, <1>5, <1>6, <1>7 DEF Good

\* The facts that a character of the format can disturb.
CharacterFacts == WrittenFacts /\ ContextFacts /\ (last # NoNumber => Right(last))

\* A conversion that ends leaves no facts about its characters.
LEMMA EndsConversion ==
    ASSUME ContextFacts, ctx' = [ctx EXCEPT !.state = "START"], spec' \in Seq(Characters)
    PROVE  ContextFacts'
<1>1. ctx' \in Contexts /\ ctx'.state = "START"
    BY DEF ContextFacts, Contexts
<1> QED
    BY <1>1 DEF ContextFacts

\* A character that is no digit, no dot and no "l" says nothing.
LEMMA SaysNothing ==
    ASSUME ContextFacts, ctx.state # "START", ctx' = ctx,
           NEW ch \in Characters, ch \notin DecimalDigits \cup {".", "l"}, IsNext(spec', spec, ch)
    PROVE  ContextFacts'
<1>1. ctx \in Contexts /\ spec \in Seq(Characters) /\ ParsedFacts(spec, ctx)
    BY DEF ContextFacts
<1>2. PICK next : next = spec'
    OBVIOUS
<1>3. IsNext(next, spec, ch) /\ next \in Seq(Characters)
    BY <1>1, <1>2 DEF IsNext
<1>4. AskedLength(next) = AskedLength(spec) /\ (Undotted(next) <=> Undotted(spec))
    BY <1>1, <1>3, AskedStep
<1>5. "l" \in Range(next) <=> "l" \in Range(spec)
  <2>1. "l" \in Range(next) <=> "l" \in Range(spec) \/ "l" = ch
      BY <1>1, <1>3, SeenStep
  <2> QED
      BY <2>1
<1>6. ParsedFacts(next, ctx)
    BY ONLY <1>1, <1>4, <1>5 DEF ParsedFacts
<1> QED
    BY <1>1, <1>2, <1>3, <1>6 DEF ContextFacts

\* An action character.
LEMMA ActionFacts ==
    ASSUME PrintfFacts, ctx.state # "START", limit' = limit,
           NEW ch \in Characters, IsNext(spec', spec, ch), vsprintf_generic_checkAction(ch)
    PROVE  CharacterFacts'
<1>1. /\ WrittenFacts /\ ContextFacts /\ ctx \in Contexts /\ spec \in Seq(Characters)
      /\ ParsedFacts(spec, ctx) /\ (last # NoNumber => Right(last))
    BY DEF PrintfFacts, ContextFacts
<1>2. spec' \in Seq(Characters)
    BY <1>1 DEF IsNext
<1>3. ASSUME UNCHANGED <<buffer, full>> PROVE WrittenFacts'
    BY <1>1, <1>3 DEF WrittenFacts, Fits
<1>4. ASSUME UNCHANGED last PROVE last' # NoNumber => Right(last')
    BY <1>1, <1>4
<1>5. CASE ch = "%" /\ vsprintf_generic_out(<<"%">>) /\ UNCHANGED <<ctx, last, undefined>>
  <2>1. PICK text : text = <<"%">>
      OBVIOUS
  <2>2. text \in Seq(Symbols) /\ vsprintf_generic_out(text)
      BY <1>5, <2>1, SymbolFacts
  <2>3. WrittenFacts'
      BY <1>1, <2>2, OutFacts
  <2>4. ch \notin DecimalDigits \cup {".", "l"}
      BY <1>5, DecimalFacts
  <2>5. ContextFacts'
      BY <1>1, <1>5, <2>4, SaysNothing
  <2> QED
      BY <1>4, <1>5, <2>3, <2>5 DEF CharacterFacts
<1>6. CASE /\ ch = "l" /\ ctx' = [ctx EXCEPT !.long = TRUE, !.state = "ACTION_L"]
           /\ UNCHANGED <<buffer, full, last, undefined>>
  <2>1. PICK next, after : next = spec' /\ after = ctx'
      OBVIOUS
  <2>2. IsNext(next, spec, ch) /\ next \in Seq(Characters)
      BY <1>2, <2>1
  <2>3. /\ after \in Contexts /\ after.long = TRUE /\ after.state = "ACTION_L"
        /\ after.hasMin = ctx.hasMin /\ after.min = ctx.min
      BY <1>1, <1>6, <2>1 DEF Contexts
  <2>4. ch \notin DecimalDigits
      BY <1>6, DecimalFacts
  <2>5. AskedLength(next) = AskedLength(spec)
      BY <1>1, <2>2, <2>4, AskedStep
  <2>6. "l" \in Range(next)
    <3>1. "l" \in Range(next) <=> "l" \in Range(spec) \/ "l" = ch
        BY <1>1, <2>2, SeenStep
    <3> QED
        BY <1>6, <3>1
  <2>7. ParsedFacts(next, after)
      BY ONLY <1>1, <2>3, <2>5, <2>6 DEF ParsedFacts
  <2>8. ContextFacts'
      BY <2>1, <2>2, <2>3, <2>7 DEF ContextFacts
  <2> QED
      BY <1>3, <1>4, <1>6, <2>8 DEF CharacterFacts
<1>7. CASE /\ ch = "c" /\ vsprintf_generic_out(<<"c">>)
           /\ ctx' = [ctx EXCEPT !.state = "START"] /\ UNCHANGED <<last, undefined>>
  <2>1. PICK text : text = <<"c">>
      OBVIOUS
  <2>2. text \in Seq(Symbols) /\ vsprintf_generic_out(text)
      BY <1>7, <2>1, SymbolFacts
  <2>3. WrittenFacts'
      BY <1>1, <2>2, OutFacts
  <2>4. ContextFacts'
      BY <1>1, <1>2, <1>7, EndsConversion
  <2> QED
      BY <1>4, <1>7, <2>3, <2>4 DEF CharacterFacts
<1>8. CASE ch = "s" /\ \E string \in Strings : ConvertS(string)
  <2>1. PICK string \in Strings : ConvertS(string)
      BY <1>8
  <2>2. PICK length : length = IF ctx.hasMax /\ ctx.max < Len(string) THEN ctx.max ELSE Len(string)
      OBVIOUS
  <2>3. PICK text : text = SubSeq(string, 1, length)
      OBVIOUS
  <2>4. /\ vsprintf_generic_out(text) /\ ctx' = [ctx EXCEPT !.state = "START"]
        /\ UNCHANGED <<last, undefined>>
      BY <2>1, <2>2, <2>3, Zenon DEF ConvertS
  <2>5. text \in Seq(Symbols)
    <3>1. string \in Seq(Symbols)
        BY SymbolFacts
    <3>2. ctx.max \in Nat /\ Len(string) \in Nat
        BY <1>1, <3>1 DEF Contexts
    <3>3. length \in Nat /\ length <= Len(string)
        BY <2>2, <3>2
    <3> QED
        BY ONLY <2>3, <3>1, <3>2, <3>3
  <2>6. WrittenFacts'
      BY <1>1, <2>4, <2>5, OutFacts
  <2>7. ContextFacts'
      BY <1>1, <1>2, <2>4, EndsConversion
  <2> QED
      BY <1>4, <2>4, <2>6, <2>7 DEF CharacterFacts
<1>9. CASE \E arg \in Longs :
              \/ ch = "d" /\ ConvertD(arg)
              \/ ch = "p" /\ Convert("p", arg, <<"0", "x">>, arg, 16)
              \/ ch = "u" /\ Convert("u", arg, <<>>, ToWidth(arg), 10)
              \/ ch = "x" /\ Convert("x", arg, IF ctx.prefix THEN <<"0", "x">> ELSE <<>>, ToWidth(arg), 16)
  <2>1. \/ /\ \E text \in Seq(Symbols) : vsprintf_generic_out(text)
           /\ Right(last') /\ ctx' = [ctx EXCEPT !.state = "START"]
        \/ ch = "d" /\ UNCHANGED <<ctx, buffer, full, last>>
    <3>1. PICK arg \in Longs :
              \/ ch = "d" /\ ConvertD(arg)
              \/ ch = "p" /\ Convert("p", arg, <<"0", "x">>, arg, 16)
              \/ ch = "u" /\ Convert("u", arg, <<>>, ToWidth(arg), 10)
              \/ ch = "x" /\ Convert("x", arg, IF ctx.prefix THEN <<"0", "x">> ELSE <<>>, ToWidth(arg), 16)
        BY <1>9
    <3> QED
        BY <3>1, NumericFacts
  <2>2. CASE /\ \E text \in Seq(Symbols) : vsprintf_generic_out(text)
             /\ Right(last') /\ ctx' = [ctx EXCEPT !.state = "START"]
    <3>1. WrittenFacts'
        BY <1>1, <2>2, OutFacts
    <3>2. ContextFacts'
        BY <1>1, <1>2, <2>2, EndsConversion
    <3> QED
        BY <2>2, <3>1, <3>2 DEF CharacterFacts
  <2>3. CASE ch = "d" /\ UNCHANGED <<ctx, buffer, full, last>>
    <3>1. ch \notin DecimalDigits \cup {".", "l"}
        BY <2>3, DecimalFacts
    <3>2. ContextFacts'
        BY <1>1, <2>3, <3>1, SaysNothing
    <3> QED
        BY <1>3, <1>4, <2>3, <3>2 DEF CharacterFacts
  <2> QED
      BY <2>1, <2>2, <2>3
<1>10. CASE /\ ctx' = [ctx EXCEPT !.state = "START"]
            /\ UNCHANGED <<buffer, full, last, undefined>>
  <2>1. ContextFacts'
      BY <1>1, <1>2, <1>10, EndsConversion
  <2> QED
      BY <1>3, <1>4, <1>10, <2>1 DEF CharacterFacts
<1> QED
    BY <1>5, <1>6, <1>7, <1>8, <1>9, <1>10, Zenon DEF vsprintf_generic_checkAction

\* A character of the flags or of a length.
LEMMA FlagFacts ==
    ASSUME PrintfFacts, ctx.state # "START", limit' = limit,
           NEW ch \in Characters, IsNext(spec', spec, ch), NEW new, SetContext(new),
           new \in Contexts, new.state # "START", new.long = ctx.long,
           ParsedFacts(spec', new)
    PROVE  CharacterFacts'
<1>1. ctx' = new /\ UNCHANGED <<buffer, full, last>>
    BY DEF SetContext
<1>2. spec' \in Seq(Characters)
    BY DEF PrintfFacts, ContextFacts, IsNext
<1>3. ContextFacts'
    BY <1>1, <1>2 DEF ContextFacts
<1>4. WrittenFacts'
    BY <1>1 DEF PrintfFacts, WrittenFacts, Fits
<1> QED
    BY <1>1, <1>3, <1>4 DEF PrintfFacts, CharacterFacts

\* A character of the text outside the conversions, or the "%" that begins one.
LEMMA StartFacts ==
    ASSUME PrintfFacts, limit' = limit, NEW ch \in Characters, ctx.state = "START",
           spec' = <<>>, Start(ch)
    PROVE  CharacterFacts'
<1>1. /\ WrittenFacts /\ ContextFacts /\ ctx \in Contexts /\ (last # NoNumber => Right(last))
    BY DEF PrintfFacts, ContextFacts
<1>2. spec' \in Seq(Characters)
    OBVIOUS
<1>3. CASE ch = "%"
  <2>1. PICK new : new = [Cleared EXCEPT !.state = "ESCAPE"]
      OBVIOUS
  <2>2. ctx' = new /\ UNCHANGED <<buffer, full, last>>
      BY <1>3, <2>1, Zenon DEF Start, SetContext
  <2>3. new \in Contexts /\ new.long = FALSE /\ new.hasMin = FALSE /\ new.state = "ESCAPE"
      BY <2>1 DEF Cleared, Contexts
  <2>4. PICK chars : chars = <<>>
      OBVIOUS
  <2>5. "l" \notin Range(chars)
      BY <2>4 DEF Range
  <2>6. AskedLength(chars) = 0 /\ Undotted(chars)
      BY <2>4, AskedNothing
  <2>7. ParsedFacts(chars, new)
      BY ONLY <2>3, <2>5, <2>6 DEF ParsedFacts
  <2>8. ContextFacts'
      BY <1>2, <2>2, <2>3, <2>4, <2>7 DEF ContextFacts
  <2>9. WrittenFacts'
      BY <1>1, <2>2 DEF WrittenFacts, Fits
  <2> QED
      BY <1>1, <2>2, <2>8, <2>9 DEF CharacterFacts
<1>4. CASE ch # "%"
  <2>1. PICK text : text = <<ch>>
      OBVIOUS
  <2>2. vsprintf_generic_out(text) /\ UNCHANGED <<ctx, last, undefined>>
      BY <1>4, <2>1, Zenon DEF Start
  <2>3. text \in Seq(Symbols)
      BY <2>1, SymbolFacts
  <2>4. WrittenFacts'
      BY <1>1, <2>2, <2>3, OutFacts
  <2>5. ContextFacts'
      BY <1>1, <1>2, <2>2 DEF ContextFacts
  <2> QED
      BY <1>1, <2>2, <2>4, <2>5 DEF CharacterFacts
<1> QED
    BY <1>3, <1>4

\* Flags, lengths and dots: the context that the parser goes to has what has been read.
LEMMA ReadFacts ==
    ASSUME ctx \in Contexts, NEW chars \in Seq(Characters), ParsedFacts(chars, ctx),
           NEW ch \in Characters, NEW next, IsNext(next, chars, ch), NEW new,
           \/ /\ ctx.state = "ESCAPE" /\ ch \in DecimalDigits \cup {"#", "."} /\ new = Escape(ch)
           \/ /\ ctx.state = "MINLEN" /\ ch \in DecimalDigits \cup {"."} /\ new = MinLen(ch)
           \/ /\ ctx.state = "MAXLEN" /\ ch \in DecimalDigits /\ new = MaxLen(ch)
    PROVE  new \in Contexts /\ new.state # "START" /\ new.long = ctx.long /\ ParsedFacts(next, new)
<1>0. chars \in Seq(Characters) /\ ParsedFacts(chars, ctx)
    OBVIOUS
<1>1. /\ ch \in DecimalDigits /\ Undotted(chars) =>
            AskedLength(next) = 10 * AskedLength(chars) + DigitValue(ch)
      /\ ch \notin DecimalDigits \/ ~Undotted(chars) => AskedLength(next) = AskedLength(chars)
      /\ Undotted(next) <=> Undotted(chars) /\ ch # "."
    BY AskedStep
<1>2. ch \in DecimalDigits \cup {"#", "."} => ("l" \in Range(next) <=> "l" \in Range(chars))
  <2>1. "l" \in Range(next) <=> "l" \in Range(chars) \/ "l" = ch
      BY SeenStep
  <2>2. ch \in DecimalDigits \cup {"#", "."} => ch # "l"
      BY DecimalFacts
  <2> QED
      BY ONLY <2>1, <2>2
<1>3. PICK v : v = DigitValue(ch)
    OBVIOUS
<1>4. /\ ch \in DecimalDigits => v \in Nat /\ ch # "." /\ ch # "#"
      /\ ch = "0" => v = 0
    BY <1>3, DecimalFacts
<1>5. ctx.min \in Nat
    BY DEF Contexts
<1>6. CASE ctx.state = "ESCAPE" /\ ch \in DecimalDigits \cup {"#", "."} /\ new = Escape(ch)
  <2>1. ~ctx.hasMin /\ Undotted(chars) /\ AskedLength(chars) = 0
      BY <1>0, <1>6 DEF ParsedFacts
  <2>2. CASE ch = "0"
    <3>1. new = [ctx EXCEPT !.padZero = TRUE]
        BY <1>6, <2>2, Zenon DEF Escape
    <3>2. /\ new \in Contexts /\ new.state = "ESCAPE" /\ new.long = ctx.long
          /\ new.hasMin = ctx.hasMin /\ new.min = ctx.min
        BY <1>6, <3>1 DEF Contexts
    <3>3. AskedLength(next) = 0 /\ Undotted(next)
        BY <1>1, <1>3, <1>4, <2>1, <2>2, DecimalFacts
    <3>4. ParsedFacts(next, new)
        BY ONLY <1>0, <1>2, <1>6, <2>1, <3>2, <3>3 DEF ParsedFacts
    <3> QED
        BY <3>2, <3>4
  <2>3. CASE ch = "#"
    <3>1. new = [ctx EXCEPT !.prefix = TRUE]
        BY <1>6, <2>3, DecimalFacts DEF Escape
    <3>2. /\ new \in Contexts /\ new.state = "ESCAPE" /\ new.long = ctx.long
          /\ new.hasMin = ctx.hasMin /\ new.min = ctx.min
        BY <1>6, <3>1 DEF Contexts
    <3>3. AskedLength(next) = 0 /\ Undotted(next)
        BY <1>1, <2>1, <2>3, DecimalFacts
    <3>4. ParsedFacts(next, new)
        BY ONLY <1>0, <1>2, <1>6, <2>1, <3>2, <3>3 DEF ParsedFacts
    <3> QED
        BY <3>2, <3>4
  <2>4. CASE ch \in DecimalDigits \ {"0"}
    <3>1. new = [ctx EXCEPT !.hasMin = TRUE, !.min = v, !.state = "MINLEN"]
        BY <1>3, <1>4, <1>6, <2>4 DEF Escape
    <3>2. /\ new \in Contexts /\ new.state = "MINLEN" /\ new.long = ctx.long
          /\ new.hasMin = TRUE /\ new.min = v
        BY <1>4, <2>4, <3>1 DEF Contexts
    <3>3. AskedLength(next) = v /\ Undotted(next)
        BY <1>1, <1>3, <1>4, <2>1, <2>4
    <3>4. ParsedFacts(next, new)
        BY ONLY <1>0, <1>2, <1>6, <3>2, <3>3 DEF ParsedFacts
    <3> QED
        BY <3>2, <3>4
  <2>5. CASE ch = "."
    <3>1. new = [ctx EXCEPT !.hasMax = TRUE, !.max = 0, !.state = "MAXLEN"]
        BY <1>6, <2>5, DecimalFacts DEF Escape
    <3>2. /\ new \in Contexts /\ new.state = "MAXLEN" /\ new.long = ctx.long
          /\ new.hasMin = ctx.hasMin /\ new.min = ctx.min
        BY <3>1 DEF Contexts
    <3>3. AskedLength(next) = 0 /\ ~Undotted(next)
        BY <1>1, <2>1, <2>5, DecimalFacts
    <3>4. ParsedFacts(next, new)
        BY ONLY <1>0, <1>2, <1>6, <2>1, <3>2, <3>3 DEF ParsedFacts
    <3> QED
        BY <3>2, <3>4
  <2> QED
      BY <1>6, <2>2, <2>3, <2>4, <2>5
<1>7. CASE ctx.state = "MINLEN" /\ ch \in DecimalDigits \cup {"."} /\ new = MinLen(ch)
  <2>1. ctx.hasMin /\ Undotted(chars) /\ AskedLength(chars) = ctx.min
      BY <1>0, <1>7 DEF ParsedFacts
  <2>2. CASE ch = "."
    <3>1. new = [ctx EXCEPT !.hasMax = TRUE, !.max = 0, !.state = "MAXLEN"]
        BY <1>7, <2>2 DEF MinLen
    <3>2. /\ new \in Contexts /\ new.state = "MAXLEN" /\ new.long = ctx.long
          /\ new.hasMin = ctx.hasMin /\ new.min = ctx.min
        BY <3>1 DEF Contexts
    <3>3. AskedLength(next) = ctx.min /\ ~Undotted(next)
        BY <1>1, <2>1, <2>2, DecimalFacts
    <3>4. ParsedFacts(next, new)
        BY ONLY <1>0, <1>2, <1>7, <2>1, <3>2, <3>3 DEF ParsedFacts
    <3> QED
        BY <3>2, <3>4
  <2>3. CASE ch \in DecimalDigits
    <3>1. new = [ctx EXCEPT !.min = 10 * ctx.min + v]
        BY <1>3, <1>4, <1>7, <2>3 DEF MinLen
    <3>2. /\ new \in Contexts /\ new.state = "MINLEN" /\ new.long = ctx.long
          /\ new.hasMin = ctx.hasMin /\ new.min = 10 * ctx.min + v
        BY <1>4, <1>5, <1>7, <2>3, <3>1 DEF Contexts
    <3>3. AskedLength(next) = 10 * ctx.min + v /\ Undotted(next)
        BY <1>1, <1>3, <1>4, <2>1, <2>3
    <3>4. ParsedFacts(next, new)
        BY ONLY <1>0, <1>2, <1>7, <2>1, <3>2, <3>3 DEF ParsedFacts
    <3> QED
        BY <3>2, <3>4
  <2> QED
      BY <1>7, <2>2, <2>3
<1>8. CASE ctx.state = "MAXLEN" /\ ch \in DecimalDigits /\ new = MaxLen(ch)
  <2>1. ~Undotted(chars) /\ AskedLength(chars) = IF ctx.hasMin THEN ctx.min ELSE 0
      BY <1>0, <1>8 DEF ParsedFacts
  <2>2. new = [ctx EXCEPT !.max = 10 * ctx.max + v]
      BY <1>3, <1>8 DEF MaxLen
  <2>3. /\ new \in Contexts /\ new.state = "MAXLEN" /\ new.long = ctx.long
        /\ new.hasMin = ctx.hasMin /\ new.min = ctx.min
      BY <1>4, <1>8, <2>2 DEF Contexts
  <2>4. AskedLength(next) = AskedLength(chars) /\ ~Undotted(next)
      BY <1>1, <2>1
  <2>5. ParsedFacts(next, new)
      BY ONLY <1>0, <1>2, <1>8, <2>1, <2>3, <2>4 DEF ParsedFacts
  <2> QED
      BY <2>3, <2>5
<1> QED
    BY <1>6, <1>7, <1>8

\* One character of the format.
LEMMA FormatFacts ==
    ASSUME PrintfFacts, NEW ch \in Characters, vsprintf_generic(ch)
    PROVE  PrintfFacts'
<1>1. /\ ContextFacts /\ PortFacts /\ ctx \in Contexts /\ spec \in Seq(Characters)
      /\ (ctx.state # "START" => ParsedFacts(spec, ctx))
    BY DEF PrintfFacts, ContextFacts
<1>2. left > 0 /\ left' = left - 1 /\ limit' = limit /\ port' = port
    BY DEF vsprintf_generic
<1>3. CharacterFacts'
  <2>1. CASE ctx.state = "START"
    <3>1. spec' = <<>> /\ Start(ch)
        BY <2>1 DEF vsprintf_generic
    <3> QED
        BY <1>2, <2>1, <3>1, StartFacts
  <2>2. CASE ctx.state # "START"
    <3>1. IsNext(spec', spec, ch)
        BY <2>2 DEF vsprintf_generic, IsNext
    <3>2. ParsedFacts(spec, ctx)
        BY <1>1, <2>2
    <3>3. \/ /\ ctx.state = "ESCAPE" /\ ch \in DecimalDigits \cup {"#", "."}
             /\ SetContext(Escape(ch))
          \/ /\ ctx.state = "MINLEN" /\ ch \in DecimalDigits \cup {"."} /\ SetContext(MinLen(ch))
          \/ /\ ctx.state = "MAXLEN" /\ ch \in DecimalDigits /\ SetContext(MaxLen(ch))
          \/ vsprintf_generic_checkAction(ch)
        BY <2>2 DEF vsprintf_generic
    <3>4. CASE vsprintf_generic_checkAction(ch)
        BY <1>2, <2>2, <3>1, <3>4, ActionFacts
    <3>5. ASSUME NEW new, SetContext(new),
                 \/ /\ ctx.state = "ESCAPE" /\ ch \in DecimalDigits \cup {"#", "."}
                    /\ new = Escape(ch)
                 \/ /\ ctx.state = "MINLEN" /\ ch \in DecimalDigits \cup {"."} /\ new = MinLen(ch)
                 \/ /\ ctx.state = "MAXLEN" /\ ch \in DecimalDigits /\ new = MaxLen(ch)
          PROVE  CharacterFacts'
      <4>1. /\ new \in Contexts /\ new.state # "START" /\ new.long = ctx.long
            /\ ParsedFacts(spec', new)
          BY <1>1, <3>1, <3>2, <3>5, ReadFacts
      <4> QED
          BY <1>2, <2>2, <3>1, <3>5, <4>1, FlagFacts
    <3> QED
        BY <3>3, <3>4, <3>5
  <2> QED
      BY <2>1, <2>2
<1>4. PortFacts'
    BY <1>1, <1>2 DEF PortFacts
<1> QED
    BY <1>3, <1>4 DEF CharacterFacts, PrintfFacts

\* The end of the format.
LEMMA EndFacts ==
    ASSUME PrintfFacts, vprintk
    PROVE  PrintfFacts'
<1>1. /\ UNCHANGED <<limit, ctx, buffer, full, spec, last>> /\ left' = -1
      /\ port' = buffer \/ port' = SubSeq(buffer, 2, Len(buffer))
    BY DEF vprintk
<1>2. WrittenFacts' /\ ContextFacts' /\ (last' # NoNumber => Right(last'))
    BY <1>1 DEF PrintfFacts, WrittenFacts, ContextFacts, Fits
<1>3. PortFacts'
    BY <1>1 DEF PortFacts
<1> QED
    BY <1>2, <1>3 DEF PrintfFacts

\* The inductive invariant: the buffer is the beginning of what the format gives, the
\* context holds what the characters since the "%" say, and the last number is right.
THEOREM PrintfInvariant == PrintfSpec => []PrintfFacts
<1>1. PrintfInit => PrintfFacts
  <2> SUFFICES ASSUME PrintfInit PROVE PrintfFacts
      OBVIOUS
  <2>1. WrittenFacts
    <3>1. limit \in Nat \cup {NoLimit}
        BY PrintfAssumption DEF PrintfInit
    <3>2. full = <<>> /\ buffer = <<>> /\ Len(full) = 0 /\ full \in Seq(Symbols)
        BY DEF PrintfInit
    <3>3. Fits(Len(full)) = 0
        BY <3>1, <3>2 DEF Fits
    <3>4. SubSeq(full, 1, 0) = <<>>
        BY <3>2
    <3> QED
        BY <3>1, <3>2, <3>3, <3>4 DEF WrittenFacts
  <2>2. PortFacts
      BY PrintfAssumption DEF PrintfInit, PortFacts
  <2>3. ContextFacts
    <3>1. ctx \in Contexts /\ ctx.state = "START"
        BY DEF PrintfInit, Cleared, Contexts
    <3>2. spec \in Seq(Characters)
        BY DEF PrintfInit
    <3> QED
        BY <3>1, <3>2 DEF ContextFacts
  <2>4. last = NoNumber
      BY DEF PrintfInit
  <2> QED
      BY <2>1, <2>2, <2>3, <2>4 DEF PrintfFacts
<1>2. PrintfFacts /\ [PrintfNext]_printfVars => PrintfFacts'
  <2> SUFFICES ASSUME PrintfFacts, [PrintfNext]_printfVars PROVE PrintfFacts'
      OBVIOUS
  <2>1. CASE vprintk
      BY <2>1, EndFacts
  <2>2. CASE \E ch \in Characters : vsprintf_generic(ch)
      BY <2>2, FormatFacts
  <2>3. CASE UNCHANGED printfVars
      BY <2>3 DEF printfVars, PrintfFacts, WrittenFacts, PortFacts, ContextFacts, Fits
  <2> QED
      BY <2>1, <2>2, <2>3 DEF PrintfNext
<1> QED
    BY <1>1, <1>2, PTL DEF PrintfSpec

\* vsprintf_generic_checkAction puts every number out so that it reads back as its
\* argument, as long as the format asks for, and with no filler beyond that.
THEOREM NumbersAreRead == PrintfSpec => []NumbersReadBack
<1>1. PrintfFacts => NumbersReadBack
  <2> SUFFICES ASSUME PrintfFacts, last # NoNumber PROVE Right(last)
      BY DEF NumbersReadBack, Right, BaseOf
  <2> QED
      BY DEF PrintfFacts
<1> QED
    BY <1>1, PrintfInvariant, PTL

\* A sequence, and all of it but the first, are ends of it.
LEMMA SuffixFacts ==
    ASSUME NEW S, NEW b \in Seq(S)
    PROVE  /\ IsSuffix(b, b) /\ Len(b) \in {Len(b), Len(b) - 1}
           /\ IsSuffix(SubSeq(b, 2, Len(b)), b)
           /\ Len(SubSeq(b, 2, Len(b))) \in {Len(b), Len(b) - 1}
<1>1. PICK n, r : n = Len(b) /\ r = Reverse(b)
    OBVIOUS
<1>2. n \in Nat
    BY <1>1
<1>3. r \in Seq(S) /\ Len(r) = n /\ \A i \in 1 .. n : r[i] = b[(n - i) + 1]
    BY <1>1, <1>2 DEF Reverse
<1>4. IsSuffix(b, b)
    BY <1>1, <1>3 DEF IsSuffix, IsPrefix
<1>5. CASE n = 0
  <2>1. PICK e : e = SubSeq(b, 2, Len(b))
      OBVIOUS
  <2>2. e = b
    <3>1. b \in Seq(S) /\ Len(b) = 0
        BY <1>1, <1>5
    <3>2. b = <<>>
        BY ONLY <3>1, EmptySeq
    <3>3. SubSeq(b, 2, 0) = <<>>
        BY SubSeqEmpty
    <3> QED
        BY ONLY <2>1, <3>1, <3>2, <3>3
  <2>3. IsSuffix(e, b) /\ Len(e) = Len(b)
      BY ONLY <1>4, <2>2
  <2> QED
      BY ONLY <1>4, <2>1, <2>3
<1>6. CASE n > 0
  <2>1. PICK e : e = SubSeq(b, 2, Len(b))
      OBVIOUS
  <2>2. e \in Seq(S) /\ Len(e) = n - 1 /\ \A i \in 1 .. (n - 1) : e[i] = b[i + 1]
      BY <1>1, <1>2, <1>6, <2>1
  <2>3. PICK t : t = Reverse(e)
      OBVIOUS
  <2>4. t \in Seq(S) /\ Len(t) = n - 1 /\ \A i \in 1 .. (n - 1) : t[i] = e[((n - 1) - i) + 1]
      BY <1>2, <1>6, <2>2, <2>3 DEF Reverse
  <2>5. ASSUME NEW i \in 1 .. (n - 1) PROVE t[i] = r[i]
    <3>1. ((n - 1) - i) + 1 \in 1 .. (n - 1) /\ i \in 1 .. n
          /\ (((n - 1) - i) + 1) + 1 = (n - i) + 1
        BY <1>2, <1>6
    <3> QED
        BY ONLY <1>3, <2>2, <2>4, <2>5, <3>1
  <2>6. PICK x, y : x = SubSeq(t, 1, n - 1) /\ y = SubSeq(r, 1, n - 1)
      OBVIOUS
  <2>7. /\ x \in Seq(S) /\ Len(x) = n - 1 /\ \A i \in 1 .. (n - 1) : x[i] = t[i]
        /\ y \in Seq(S) /\ Len(y) = n - 1 /\ \A i \in 1 .. (n - 1) : y[i] = r[i]
      BY ONLY <1>2, <1>3, <1>6, <2>4, <2>6
  <2>8. x = y
      BY ONLY <1>2, <1>6, <2>5, <2>7, SeqEqual
  <2>9. IsPrefix(t, r)
    <3>1. Len(t) <= Len(r) /\ SubSeq(t, 1, Len(t)) = SubSeq(r, 1, Len(t))
        BY ONLY <1>2, <1>3, <2>4, <2>6, <2>8
    <3> QED
        BY <3>1 DEF IsPrefix
  <2>10. IsSuffix(e, b) /\ Len(e) = Len(b) - 1
      BY <1>1, <2>2, <2>3, <2>9 DEF IsSuffix
  <2> QED
      BY ONLY <1>4, <2>1, <2>10
<1> QED
    BY <1>2, <1>4, <1>5, <1>6

\* vsprintf_generic_out keeps the beginning of the text, as much as leaves room for the
\* zero, and vprintk sends all of that but the level.
THEOREM BufferIsTruncated == PrintfSpec => []Truncated
<1>1. PrintfFacts => Truncated
  <2> SUFFICES ASSUME PrintfFacts PROVE Truncated
      OBVIOUS
  <2>1. PICK S, a, b, m, k : /\ S = Symbols /\ a = full /\ b = buffer /\ m = Len(full)
                             /\ k = Fits(Len(full))
      OBVIOUS
  <2>2. /\ limit \in Nat \cup {NoLimit} /\ NoLimit = -1 /\ a \in Seq(S) /\ m = Len(a)
        /\ m \in Nat /\ b = SubSeq(a, 1, k)
      BY <2>1 DEF PrintfFacts, WrittenFacts, NoLimit
  <2>3. /\ k \in 0 .. m /\ (limit # NoLimit => k <= limit)
        /\ (limit = NoLimit \/ k < limit => k = m)
      BY <2>1, <2>2 DEF Fits
  <2>4. b \in Seq(S) /\ Len(b) = k /\ \A i \in 1 .. k : b[i] = a[i]
      BY ONLY <2>2, <2>3
  <2>5. IsPrefix(b, a)
    <3>1. SubSeq(a, 1, Len(b)) = b /\ Len(b) <= Len(a)
        BY ONLY <2>2, <2>3, <2>4
    <3> QED
        BY <3>1 DEF IsPrefix
  <2>6. limit = NoLimit \/ Len(b) < limit => b = a
    <3>1. ASSUME k = m PROVE b = a
        BY ONLY <2>2, <2>3, <2>4, <3>1
    <3> QED
        BY ONLY <2>3, <2>4, <3>1
  <2>7. ASSUME left = -1
        PROVE  IsSuffix(port, b) /\ Len(port) \in {Len(b), Len(b) - 1}
    <3>1. port = b \/ port = SubSeq(b, 2, Len(b))
        BY <2>1, <2>7 DEF PrintfFacts, PortFacts
    <3>2. PICK e : e = port
        OBVIOUS
    <3>3. b \in Seq(S) /\ (e = b \/ e = SubSeq(b, 2, Len(b)))
        BY ONLY <2>4, <3>1, <3>2
    <3>4. IsSuffix(e, b) /\ Len(e) \in {Len(b), Len(b) - 1}
      <4>1. CASE e = b
          BY ONLY <3>3, <4>1, SuffixFacts
      <4>2. CASE e = SubSeq(b, 2, Len(b))
          BY ONLY <3>3, <4>2, SuffixFacts
      <4> QED
          BY ONLY <3>3, <4>1, <4>2
    <3> QED
        BY ONLY <3>2, <3>4
  <2> QED
      BY <2>1, <2>3, <2>4, <2>5, <2>6, <2>7 DEF Truncated
<1> QED
    BY <1>1, PrintfInvariant, PTL
=============================================================================
