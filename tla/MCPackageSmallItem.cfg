SPECIFICATION PackageSpec
CONSTANTS
    Data <- MCData
    Configs <- SmallConfigs
    MaxCuts = 3
INVARIANT CompletedIsWritten
CHECK_DEADLOCK FALSE
