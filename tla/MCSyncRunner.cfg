SPECIFICATION Spec
CONSTANTS
    Files = {f1, f2}
    ContentsOf <- OwnContents
    C1 = c1
    C2 = c2
    C3 = c3
    None = none
    Runs = {r1}
    Syncs = {s1}
    Ticks = {k1}
    MaxEdits = 1
    MaxFaults = 1
SYMMETRY Symmetry
INVARIANTS
    TypeOK
    PointsAreRecorded
    SyncReconciles
    ActiveRunsMove
CHECK_DEADLOCK FALSE
