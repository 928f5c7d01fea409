SPECIFICATION KvSpec
CONSTANTS
    put1 = put1
    read1 = read1
    Node = {n1, n2, n3}
    Command = {put1, read1}
    NoOp = NoOp
    Nil = Nil
    ChannelCapacity = 1
    MaxInFlight = 1
    Lossy = TRUE
    MaxTerm = 3
    MaxRestarts = 0
    StorageFaults = FALSE
    Script <- ShortScript
    Put = {put1}
    KillAfter = 1
SYMMETRY Symmetry
VIEW View
INVARIANTS
    EveryReadFindsTheLastPut
CHECK_DEADLOCK FALSE
