SPECIFICATION Spec
CONSTANTS
    Keys <- MCKeys
    Values = {"x", "y"}
    NoValue = "unset"
    Hash <- MCHash
    Size = 3
    Order <- MCOrder
    Lists = {}
    KeyLen <- MCKeyLen
    ValLen <- MCValLen
    Buffer = 26
    Rejects = FALSE
INVARIANT
    EmptyBucket
