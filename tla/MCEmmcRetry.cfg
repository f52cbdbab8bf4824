SPECIFICATION EmmcPartsSpec
CONSTANTS
    Dtbs <- MCDtbs
    Inherent <- MCInherent
    Capacity = 100
    W = 1024
    Gap = 2
    BootGap = 8
    MaxParts = 8
    PerBlock = 3
    TableBlocks = 3
    ReservedAt = 9
    DtbAt = 10
    MaxCrashes = 1
    MaxOps = 3
    TableFaults = FALSE
    EraseFaults = FALSE
    ErasedParts = {"reserved", "system"}
    DtbFaults = TRUE
    DtbCommand = FALSE
    Images = {}
CHECK_DEADLOCK FALSE
INVARIANTS InitSaved
