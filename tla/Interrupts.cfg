SPECIFICATION LiveSpec
CONSTANTS
    Irqs = {0, 1, 8}
    Values = {1, 2}
    MaxDepth = 3
INVARIANTS
    ServiceInv
    ResumesInterrupted
PROPERTY InterruptsEnd
\* The kernel halts after an exception.
CHECK_DEADLOCK FALSE
