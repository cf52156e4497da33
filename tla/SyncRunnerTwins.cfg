SPECIFICATION Spec
CONSTANTS
    Files = {f1, f2}
    ContentsOf <- TwinContents
    C1 = c1
    C2 = c2
    C3 = c3
    None = none
    Runs = {r1}
    Syncs = {}
    Ticks = {}
    MaxEdits = 0
    MaxFaults = 0
INVARIANT
    ContentIndexedOnce
CHECK_DEADLOCK FALSE
