CONSTANTS
    main = main
    feature = feature
    k1 = k1
    k2 = k2
    NoValue = NoValue
    Unstaged = Unstaged
    Timestamp <- MCTimestamp
    MergeJson <- MCMergeJson
    Keys = {k1, k2}
    Values = {1}
    Branches <- MCBranches
    Main = main
    CheckoutNames <- QualifiedNames
    UsedResolvers = {"take_source"}
    Faults = {"crash", "git_add", "git_write"}
    MaxCommits = 4
    MaxCalls = 6
SPECIFICATION FairSpec
INVARIANTS TypeOK CrashKeepsView
PROPERTIES RefsAdvance CallsEnd
