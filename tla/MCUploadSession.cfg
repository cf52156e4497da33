SPECIFICATION Spec
CONSTANTS
    TotalChunks = 2
    Saves = {s1, s2, s3}
    Completions = {c1, c2}
    NoFile = NoFile
INVARIANTS
    CreatedIsWhole
    CreatedOnce
    AckedChunkKept
SYMMETRY Symmetry
CHECK_DEADLOCK FALSE
