SPECIFICATION BurningSpec
CONSTANTS
    Unit = 4
    BufSz = 8
    LeftMax = 5
    Align = 2
    U32 = 16
    MemCap = 15
    Packets <- MCPackets
    Images <- MCImages
    MaxSz = 5
    SlotSz = 2
    BootMax = 3
    FillBytes = {1, 2}
    Data <- MCData
    Configs <- MCConfigs
    MaxCuts = 3
INVARIANTS
    SlotInBuffer
    InOrder
    DoneComplete
    CompleteIntact
    NewBootloaderHasData
    SuccessIntact
    EnvFresh
    RecoveryCanRestart
PROPERTIES
    CommandEnds
    WrittenWhileBurning
    FailedSticks
    ErasedComesBack
