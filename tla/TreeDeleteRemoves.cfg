CONSTANTS
    Base = 2
    Modulus = 5
    Width = 1000
    MinChunk = 2
    MaxChunk = 8
    Pattern = 1
    StickyFlags = FALSE
    KeyHash <- MCKeyHash
    ValueHash <- MCValueHash
    Keys = {1, 2, 3, 4, 5}
    Values <- OneValue
    Batches <- MCBatches
    Enabled = {"insert", "delete"}
    Kept = {}
    MergeResolvers = {}
    MaxOps = 7
SPECIFICATION Spec
INVARIANTS DeleteRemoves
CHECK_DEADLOCK FALSE
