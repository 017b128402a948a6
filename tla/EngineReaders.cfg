CONSTANTS
    k1 = k1
    k2 = k2
    v1 = v1
    v2 = v2
    r1 = r1
    Tombstone = Tombstone
    None = None
    Keys = {k1, k2}
    Values = {v1}
    Batches <- MCCrossing
    Ranges <- MCRanges
    Readers = {r1}
    Durable = FALSE
    Capacity = 2
    Trigger = 2
    Faults = {"read"}
    MaxSeq = 3
    MaxLog = 0
SPECIFICATION Spec
INVARIANTS ReferencedRunsExist
PROPERTY ImplementsKVStore
