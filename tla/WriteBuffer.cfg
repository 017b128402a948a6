SPECIFICATION Spec
CONSTANTS
    Keys = {"", "ab"}
    KeyLen <- MCKeyLen
    Values = {2, 3, 9}
    MaxLen = 2
    U32 = 8
    Capacities = {0, 6}
    Faults = TRUE
    MaxBatch = 2
    MaxLog = 2
    Tombstone = Tombstone
    None = None
INVARIANTS SizeExact RecoveryExact
CHECK_DEADLOCK FALSE
