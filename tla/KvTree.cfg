SPECIFICATION Spec
CONSTANTS
    Key = {1, 2, 3, 4}
    Short = Short
    Long = Long
    Value = {Short, Long}
    None = None
    KeySize <- LargeKeys
    ValueSize <- TwoValues
    PageSize = 4096
    MaxPages = 12
    MaxTx = 2
    MaxInserts = 5
    MaxFaults = 1
INVARIANTS
    TypeOK
    KeysAreFound
    LayoutIsSound
    ChecksumsMatch
    PagesAreAccountedFor
    TrackerNeverPanics
CHECK_DEADLOCK FALSE
