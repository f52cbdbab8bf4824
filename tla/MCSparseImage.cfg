SPECIFICATION Spec
CONSTANTS
    Images <- MCImages
    FileHead = 2
    ChunkHead = 2
    Blk = 2
    Slot = 4
    FillBufSz = 4
    Window = 8
    MaxAddr = 30
    U32 = 16
INVARIANTS
    Rebuilt
    HashesImage
    LeftIsSmall
    NoneLost
