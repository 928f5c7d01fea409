SPECIFICATION Spec
CONSTANTS
    Node = {n1, n2, n3}
    Command = {}
    NoOp = NoOp
    Nil = Nil
    ChannelCapacity = 1
    MaxInFlight = 2
    Lossy = TRUE
    MaxTerm = 2
    MaxRestarts = 1
    StorageFaults = FALSE
SYMMETRY Symmetry
VIEW View
INVARIANTS
    ElectionInv
    ElectionSafety
    GrantedVoteIsSaved
    LeaderHintIsRight
    StateMachineSafety
PROPERTIES
    SavedVoteIsFinal
CHECK_DEADLOCK FALSE
