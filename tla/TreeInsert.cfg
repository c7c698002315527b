CONSTANTS
    Base = 2
    Modulus = 5
    Width = 1000
    MinChunk = 2
    MaxChunk = 8
    Pattern = 1
    StickyFlags = TRUE
    KeyHash <- MCKeyHash
    ValueHash <- MCValueHash
    Keys = {1, 2, 3, 4}
    Values <- MCValues
    Batches <- MCBatches
    Enabled = {"insert", "update", "load_from_storage"}
    Kept = {}
    MergeResolvers = {}
    MaxOps = 5
SPECIFICATION Spec
INVARIANTS TypeOK LeavesSorted LevelsMatch CutsAtWindows ProofsVerify CollectsKeys
PROPERTIES ImplementsDictionary OldRootsKeepContents
CHECK_DEADLOCK FALSE
