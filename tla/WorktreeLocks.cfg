CONSTANTS
    main = main
    feature = feature
    m1 = m1
    m2 = m2
    w1 = w1
    primary = primary
    Managers <- MCManagers
    Linked <- MCLinked
    Primary = primary
    Branches <- MCBranches
    Main = main
    NoBranch = NoBranch
    HasData = TRUE
    MayCrash = TRUE
    MaxCommits = 4
    MaxCalls = 4
SPECIFICATION FairSpec
INVARIANTS TypeOK KnownMatchesDisk MergeReturnsLock
PROPERTIES MergeLocksEnd
CHECK_DEADLOCK FALSE
