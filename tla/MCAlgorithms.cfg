SPECIFICATION MCSpec
CONSTANTS
    Texts <- MCTexts
    Sizes = {4}
    Overlaps = {0, 3, 6}
    Points <- MCPoints
    Expected = {"a", "b"}
    Limit = 3
    TopKs = {1, 2, 5}
    Scores <- MCScores
    KValues = {1, 2, 5}
    Gain <- MCGain
INVARIANTS ChunkBound TextKept RerankOrder AnswerGrounded MetricsAgree
CHECK_DEADLOCK FALSE
