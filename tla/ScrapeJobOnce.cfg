SPECIFICATION Spec
CONSTANTS
    MaxPages = 2
    NumWorkers = 2
    MaxRetries = 0
    MaxFaults = 0
INVARIANT
    FinalizeOnceOnly
CHECK_DEADLOCK FALSE
