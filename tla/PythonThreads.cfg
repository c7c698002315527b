CONSTANTS
    manager1 = manager1
    manager2 = manager2
    wt1 = wt1
    wt2 = wt2
    PyThreads = {p1, p2}
    RustThreads = {r1, r2}
    Trees = {tree1}
    Agents = {agent1}
    Stores = {store1}
    Managers = {manager1, manager2}
    WorktreeStores = {wt1, wt2}
    SqlStores = {sql1}
    SharedStores = {shared1}
    RustObjects = {shared1, manager2, wt2}
    ManagerOf <- MCManagerOf
    NoThread = NoThread
    MayPanic = TRUE
    MaxCalls = 3
SPECIFICATION FairSpec
INVARIANTS TypeOK NoLostUpdate NoEmbrace
PROPERTIES CallsReturn
CHECK_DEADLOCK FALSE
