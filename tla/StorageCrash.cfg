CONSTANTS
    empty = empty
    leaf1 = leaf1
    leaf2 = leaf2
    inner = inner
    Digests <- MCDigests
    Children <- MCChildren
    EmptyRoot = empty
    NoRoot = NoRoot
    Faults = {"crash", "torn", "object"}
    MaxCommits = 3
    MaxRequests = 4
SPECIFICATION StorageSpec
INVARIANTS StorageTypeOK SavedTreeReadable CommitsReadable
