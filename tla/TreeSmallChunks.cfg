CONSTANTS
    Base = 2
    Modulus = 5
    Width = 1000
    MinChunk = 1
    MaxChunk = 8
    Pattern = 1
    StickyFlags = FALSE
    KeyHash <- MCKeyHash
    ValueHash <- MCValueHash
    Keys = {2, 5, 8}
    Values <- MCValues
    Batches <- MCBatches
    Enabled = {"insert"}
    Kept = {}
    MergeResolvers = {}
    MaxOps = 6
SPECIFICATION Spec
PROPERTIES InsertKeepsOthers
CHECK_DEADLOCK FALSE
