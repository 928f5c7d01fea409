SPECIFICATION Spec
CONSTANTS
    Node = {n1, n2, n3}
    Command = {}
    NoOp = NoOp
    Nil = Nil
    ChannelCapacity = 1
    MaxInFlight = 2
    Lossy = TRUE
    MaxTerm = 3
    MaxRestarts = 0
    StorageFaults = FALSE
SYMMETRY Symmetry
VIEW View
INVARIANTS
    LogMatching
    LeaderCompleteness
    StateMachineSafety
    AppendEntriesIsTheLoop
PROPERTIES
    ImplementsReplicatedLog
CHECK_DEADLOCK FALSE
