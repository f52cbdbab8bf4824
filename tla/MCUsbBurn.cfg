SPECIFICATION UsbSpec
CONSTANTS
    Unit = 2
    BufSz = 4
    LeftMax = 3
    Align = 1
    U32 = 8
    MemCap = 7
    MaxSz = 8
    BootMax = 3
    FillBytes = {1, 2}
    Packets <- MCPackets
INVARIANTS
    ToldOkIntact
    UploadInOrder
PROPERTIES
    ClientPattern
    ChunksInOrder
