SPECIFICATION DivergedSpec
CONSTANTS
    n1 = n1
    n2 = n2
    n3 = n3
    c1 = c1
    Node = {n1, n2, n3}
    Command = {c1}
    NoOp = NoOp
    Nil = Nil
    ChannelCapacity = 2
    MaxInFlight = 3
    Lossy = FALSE
    MaxTerm = 3
    MaxRestarts = 0
    StorageFaults = FALSE
INVARIANTS
    TypeOK
    HeartbeatInBounds
    BoundsInv
    MatchIsSaved
PROPERTIES
    CommittedIsKept
    StableLeaderReplicates
CHECK_DEADLOCK FALSE
