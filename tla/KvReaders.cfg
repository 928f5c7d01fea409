SPECIFICATION Spec
CONSTANTS
    Key = {1, 2, 3}
    Value = {v1}
    None = None
    LeafCapacity = 2
    BranchCapacity = 3
    Reader = {r1, r2}
    MaxPages = 7
    Batch = 2
    MaxTx = 2
    MaxCrashes = 0
    PreemptedBegin = FALSE
    LengthFirst = TRUE
    MaxFaults = 0
SYMMETRY Symmetry
VIEW View
INVARIANTS
    TypeOK
    SnapshotIsolation
    CacheIsCurrent
    AllocatedPagesAreUnused
    StoreInv
PROPERTIES
    ImplementsSnapshots
CHECK_DEADLOCK FALSE
