CONSTANTS
    main = main
    trial = trial
    Threads <- OneThread
    Begins <- NoBegins
    Names <- MCNames
    Templates <- MCTemplates
    Branches <- MCBranches
    Main = main
    MaxTurns = 1
    MaxMemories = 1
    Lifetime = 1
    Age = 1
    MaxTime = 2
    MaxMade = 3
    MaxCalls = 4
SPECIFICATION Spec
INVARIANTS TypeOK TurnsBounded NothingLost
PROPERTIES SuccessMeansDone
CHECK_DEADLOCK FALSE
