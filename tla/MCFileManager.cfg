SPECIFICATION FairSpec
CONSTANTS
    Uploads = {u1, u2}
    Changes = {c1, c2}
    NoJob = none
    Contents <- MCContents
    Appended = 2
    Original = a
    NewNames = {b}
    NoPath = nil
    MaxFaults = 1
INVARIANTS
    TypeOK
    SyncedMatchesDisk
    AppendsKeptOnce
    DeletedLeavesNothing
PROPERTY
    FilesSettle
CHECK_DEADLOCK FALSE
