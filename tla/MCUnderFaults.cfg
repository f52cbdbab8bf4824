SPECIFICATION Spec
CHECK_DEADLOCK FALSE
CONSTANTS
    BPC = 4
    SECTOR = 2
    FATBUF = 3
    EOC = 5
    Clusters = {2, 3, 4}
    Layouts <- MCLayouts
    MaxErrors = 1
    Dtbs <- MCDtbs
    Inherent <- MCInherent
    Capacity = 100
    W = 1024
    Gap = 2
    BootGap = 8
    MaxParts = 8
    PerBlock = 3
    TableBlocks = 3
    ReservedAt = 9
    DtbAt = 10
    MaxCrashes = 2
    MaxOps = 2
    TableFaults = TRUE
    EraseFaults = TRUE
    ErasedParts = {"reserved", "system"}
    DtbFaults = TRUE
    DtbCommand = TRUE
    Images = {}
    Environments = {"default", "a", "b"}
    Default = "default"
    Serials = 4
    Redundant = TRUE
    MaxSaves = 7
    MaxCuts = 3
    StoreWriteFaults = FALSE
    StoreReadFaults = FALSE
    Blocks = 3
    SequenceSize = 4
    TimeoutCount = 1
    Options = TRUE
    Reorder = TRUE
    SamePort = TRUE
    RetryForever = FALSE
    RetryCount = 2
    MaxFaults = 3
INVARIANTS LayoutSound NewestStored LoadedWhole
PROPERTIES RightBytes CallsReturn TableStored EraseSpares TransferEnds
