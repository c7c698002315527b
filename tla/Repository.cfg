CONSTANTS
  Keys = {k1, k2}
  Values = {v1}
  NoValue = NoValue
  Unstaged = Unstaged
  Branches = {main, feature}
  Main = main
  Processes = {p1, p2}
  Backends <- MCBackends
  MaxCommits = 4
  MaxCalls = 8
SPECIFICATION Spec
SYMMETRY Symmetries
INVARIANTS TypeOK DiskIsHead KeyHistory
PROPERTIES CommitsOnlyStaged RevertUndoes SqlLeavesNoTrace
CHECK_DEADLOCK FALSE
