SPECIFICATION Spec
CONSTANTS
    Chats = {c1}
    Imports = {d1}
    Items = {x1}
    Runs = {r1}
    Workers = {w1}
    MaxFaults = 0
    None = None
INVARIANT MetricsFilled
CHECK_DEADLOCK FALSE
