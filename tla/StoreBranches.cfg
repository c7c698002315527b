CONSTANTS
    main = main
    feature = feature
    k1 = k1
    k2 = k2
    NoValue = NoValue
    Unstaged = Unstaged
    Timestamp <- MCTimestamp
    MergeJson <- MCMergeJson
    Keys = {k1, k2}
    Values = {1, 2}
    Branches <- MCBranches
    Main = main
    CheckoutNames <- MCBranches
    UsedResolvers = {"take_source", "timestamp", "unresolved"}
    Faults = {}
    MaxCommits = 4
    MaxCalls = 7
SPECIFICATION Spec
INVARIANTS TreeIsCommitted
PROPERTIES MergeIsThreeWay ImplementsBranchedMap
