SPECIFICATION Spec
CONSTANTS
    Keys = {1, 2}
    MaxSeq = 3
    Builds = {TRUE, FALSE}
    Faults = TRUE
    Damages = TRUE
    None = None
    Damaged = Damaged
INVARIANTS NoFalseNegative SidecarsReclaimed
PROPERTY SidecarFirst
CHECK_DEADLOCK FALSE
