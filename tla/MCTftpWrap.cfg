SPECIFICATION TftpSpec
CHECK_DEADLOCK FALSE
CONSTANTS
    Blocks = 6
    SequenceSize = 4
    TimeoutCount = 2
    Options = FALSE
    Reorder = TRUE
    SamePort = FALSE
    RetryForever = FALSE
    RetryCount = 1
    MaxFaults = 1
INVARIANT
    WrapsCounted
