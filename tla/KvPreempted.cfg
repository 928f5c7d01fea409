SPECIFICATION Spec
CONSTANTS
    Key = {1}
    Value = {v1, v2}
    None = None
    LeafCapacity = 2
    BranchCapacity = 3
    Reader = {r1}
    MaxPages = 7
    Batch = 2
    MaxTx = 3
    MaxCrashes = 0
    PreemptedBegin = TRUE
    LengthFirst = TRUE
    MaxFaults = 0
SYMMETRY Symmetry
VIEW View
INVARIANTS
    SnapshotIsolation
CHECK_DEADLOCK FALSE
