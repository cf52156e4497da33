SPECIFICATION Spec
CONSTANTS
    Chats = {c1}
    Imports = {d1, d2}
    Items = {x1, x2}
    Runs = {r1}
    Workers = {w1, w2}
    MaxFaults = 2
    None = None
INVARIANTS TypeOK DatasetsKept CompletedRunIsWhole
PROPERTY JobsSettle
CHECK_DEADLOCK FALSE
