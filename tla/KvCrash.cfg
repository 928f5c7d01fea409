SPECIFICATION Spec
CONSTANTS
    Key = {1, 2}
    Value = {v1}
    None = None
    LeafCapacity = 2
    BranchCapacity = 3
    Reader = {}
    MaxPages = 5
    Batch = 2
    MaxTx = 2
    MaxCrashes = 2
    PreemptedBegin = FALSE
    LengthFirst = TRUE
    MaxFaults = 1
SYMMETRY Symmetry
VIEW View
INVARIANTS
    StaysOpenable
    AllocatedPagesAreUnused
    DurableInv
    ContentInv
PROPERTIES
    ImplementsSnapshots
CHECK_DEADLOCK FALSE
