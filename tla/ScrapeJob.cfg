SPECIFICATION FairSpec
CONSTANTS
    MaxPages = 3
    NumWorkers = 2
    MaxRetries = 1
    MaxFaults = 1
INVARIANTS
    TypeOK
    NoPrematureFinalize
    NoPageLost
    StoredPagesIndexed
    OneWorkerExact
PROPERTIES
    JobCompletes
    BarrierSpec
CHECK_DEADLOCK FALSE
