SPECIFICATION Spec
CONSTANTS
    Node = {n1}
    Command = {c1, c2, c3}
    NoOp = NoOp
    Nil = Nil
    ChannelCapacity = 1
    MaxInFlight = 1
    Lossy = TRUE
    MaxTerm = 4
    MaxRestarts = 3
    StorageFaults = FALSE
INVARIANTS
    ReplyIsOwnOutput
CHECK_DEADLOCK FALSE
