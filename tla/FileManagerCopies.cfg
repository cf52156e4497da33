SPECIFICATION Spec
CONSTANTS
    Uploads = {u1, u2}
    Changes = {}
    NoJob = none
    Contents <- OneContent
    Appended = 2
    Original = a
    NewNames = {b}
    NoPath = nil
    MaxFaults = 0
INVARIANT
    NoTwoCopies
CHECK_DEADLOCK FALSE
