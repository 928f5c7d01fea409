SPECIFICATION Spec
CONSTANTS
    Node = {n1, n2, n3}
    Command = {}
    NoOp = NoOp
    Nil = Nil
    ChannelCapacity = 1
    MaxInFlight = 2
    Lossy = TRUE
    MaxTerm = 1
    MaxRestarts = 1
    StorageFaults = TRUE
SYMMETRY Symmetry
VIEW View
INVARIANTS
    ElectionSafety
CHECK_DEADLOCK FALSE
