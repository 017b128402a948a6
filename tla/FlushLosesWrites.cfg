CONSTANTS
    k1 = k1
    k2 = k2
    v1 = v1
    v2 = v2
    r1 = r1
    Tombstone = Tombstone
    None = None
    Keys = {k1, k2}
    Values = {v1}
    Batches <- MCCrossing
    Ranges <- MCRanges
    Readers = {}
    Durable = TRUE
    Capacity = 3
    Trigger = 2
    Faults = {"flush"}
    MaxSeq = 3
    MaxLog = 2
SPECIFICATION AckedSpec
PROPERTY FlushedKeysDurable
