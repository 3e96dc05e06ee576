SPECIFICATION LiveSpec
CONSTANTS
    Null = Null
    Tables <- TableSet
    Rsdps = {"p", "o"}
    Firmwares <- FirmwareSet
    AmlResults <- Answers
INVARIANTS
    Validated
    FromRootInUse
    DsdtOfFirstFadt
PROPERTY InitReturns
