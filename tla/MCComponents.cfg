SPECIFICATION Spec
CHECK_DEADLOCK FALSE
CONSTANTS
    BPC = 4
    SECTOR = 2
    FATBUF = 3
    EOC = 8
    Clusters <- MCClusters
    Layouts <- MCLayouts
    MaxErrors = 0
    ALIGN = 4
    SectorSize = 2
    SLOT = 8
    MaxVerify = 2
    Packages <- MCPackages
    Plain = {"usid"}
    Hdcp2 <- MCHdcp2
    Hdcp22 <- MCHdcp22
    Otp = {"mac"}
    KeyValues = {"v1", "v2"}
    MaxWrites = 2
    MaxKeyCrashes = 2
    KeyWriteFaults = TRUE
    KeyReadFaults = FALSE
    FuseFaults = FALSE
    Dtbs <- MCDtbs
    Inherent <- MCInherent
    Capacity = 100
    W = 1024
    Gap = 2
    BootGap = 8
    MaxParts = 8
    PerBlock = 3
    TableBlocks = 3
    ReservedAt = 9
    DtbAt = 10
    MaxCrashes = 2
    MaxOps = 3
    TableFaults = TRUE
    EraseFaults = TRUE
    ErasedParts = {"reserved", "system"}
    DtbFaults = FALSE
    DtbCommand = FALSE
    Images = {"env", "system"}
    Environments = {"default", "a", "b"}
    Default = "default"
    Serials = 4
    Redundant = FALSE
    MaxSaves = 4
    MaxCuts = 3
    StoreWriteFaults = TRUE
    StoreReadFaults = TRUE
    Blocks = 9
    SequenceSize = 4
    TimeoutCount = 2
    Options = TRUE
    Reorder = FALSE
    SamePort = FALSE
    RetryForever = TRUE
    RetryCount = 0
    MaxFaults = 2
INVARIANTS StateOK BurntWhole NeverRefused ToldStored Hdcp2Whole ImageFound SaveKept AcknowledgedStored LoadedWhole
PROPERTIES ImplementsSeqFile WholeReads ImplementsEnvMap
