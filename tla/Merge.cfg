SPECIFICATION FairSpec
CONSTANTS
    Keys = {1, 2, 3}
    Values = {m, r1, r2}
    m = m
    r1 = r1
    r2 = r2
    Tombstone = Tombstone
    None = None
    Faults = TRUE
    Jobs <- MCJobs
INVARIANTS ScanExact KeysAscend
PROPERTY Terminates
CHECK_DEADLOCK FALSE
