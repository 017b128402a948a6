CONSTANTS
    k1 = k1
    k2 = k2
    v1 = v1
    v2 = v2
    r1 = r1
    Tombstone = Tombstone
    None = None
    Keys = {k1}
    Values = {v1}
    Batches <- MCTwoBatches
    Ranges <- MCRanges
    Readers = {}
    Durable = TRUE
    Capacity = 2
    Trigger = 2
    Faults = {"rotate"}
    MaxSeq = 3
    MaxLog = 2
SPECIFICATION Spec
INVARIANT LogOpenWhenIdle
