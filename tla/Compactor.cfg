CONSTANTS
    Durable = TRUE
    Trigger = 3
    Faults = {"rotate","compact"}
    MaxRuns = 6
    MaxOpens = 2
SPECIFICATION Spec
INVARIANTS TypeOK NoLostWakeup IdleBelowTrigger
PROPERTIES SettlesBelowTrigger DropReturns
CHECK_DEADLOCK FALSE
