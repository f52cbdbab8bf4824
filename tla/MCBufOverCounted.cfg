SPECIFICATION Spec
CONSTANTS
    Unit = 4
    BufSz = 8
    LeftMax = 5
    Align = 2
    U32 = 16
    MemCap = 15
    Packets <- MCOverCounted
INVARIANT
    OnlyReceivedWritten
