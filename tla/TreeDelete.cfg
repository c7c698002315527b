CONSTANTS
    Base = 2
    Modulus = 5
    Width = 1000
    MinChunk = 2
    MaxChunk = 8
    Pattern = 1
    StickyFlags = FALSE
    KeyHash <- MCKeyHash
    ValueHash <- MCValueHash
    Keys = {1, 2, 3, 4}
    Values <- MCValues
    Batches <- MCBatches
    Enabled = {"insert", "delete", "insert_batch", "delete_batch", "persist_root", "merge_trees"}
    Kept = {1}
    MergeResolvers = {"ignore", "unresolved"}
    MaxOps = 5
SPECIFICATION Spec
PROPERTIES ImplementsDictionary
CHECK_DEADLOCK FALSE
