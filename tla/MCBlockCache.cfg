CONSTANTS
    b1 = b1
    b2 = b2
    b3 = b3
    b4 = b4
    r1 = r1
    r2 = r2
    Empty = Empty
    BlockKeys = {b1, b2, b3, b4}
    Readers = {r1, r2}
    CapacityBytes = 135168
SYMMETRY Symmetry
SPECIFICATION CacheSpec
INVARIANTS TypeOK IndexMatchesSlots ReadersSeeTheirBlock SweepFindsSlot
PROPERTY TouchedBlocksLast
