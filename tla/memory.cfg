CONSTANTS
    o1 = o1
    o2 = o2
    v1 = v1
    v2 = v2
    c1 = c1
    c2 = c2
    c3 = c3
    Copy = {c1, c2, c3}
    None = None
    Letter = {"a", "b", "k"}
    Other = {":"}
    Owner = {o1, o2}
    Name <- MCName
    Content = {v1, v2}
    Batch <- MCBatch
    ListLimit = 2
    MaxChanges = 2
    MaxSyncs = 1
SYMMETRY Symmetry
SPECIFICATION Spec
INVARIANTS
    TypeOK
    ListIsComplete
    ListedMemoriesReadBack
    SyncLeavesBatch
    SyncSkipsKnown
PROPERTIES
    MemoriesAreSeparate
