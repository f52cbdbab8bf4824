SPECIFICATION Spec
CONSTANTS
    Images <- MCFills
    FileHead = 2
    ChunkHead = 2
    Blk = 2
    Slot = 4
    FillBufSz = 4
    Window = 8
    MaxAddr = 30
    U32 = 16
INVARIANT
    TakenIsWritten
