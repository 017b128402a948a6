CONSTANTS
    Durable = TRUE
    Trigger = 3
    Faults = {}
    MaxRuns = 6
    MaxOpens = 2
SPECIFICATION Spec

PROPERTY MergesAtTrigger
CHECK_DEADLOCK FALSE
