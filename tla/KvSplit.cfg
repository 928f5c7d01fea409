SPECIFICATION Spec
CONSTANTS
    Key = {1, 2}
    Short = Short
    Long = Long
    Value = {Short, Long}
    None = None
    KeySize <- SmallKeys
    ValueSize <- Thirds
    PageSize = 4096
    MaxPages = 4
    MaxTx = 1
    MaxInserts = 5
    MaxFaults = 0
INVARIANTS
    SplitAssertionsHold
CHECK_DEADLOCK FALSE
