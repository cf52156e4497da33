SPECIFICATION MCSpec
CONSTANTS
    Requests <- MCRequests
    Collections = {c1}
    NoCollection = none
    MaxLinks = 2
    NumWorkers = 1
    MaxFaults = 1
INVARIANTS
    ScrapeHasResult
    CompletedScrapeCoversCrawl
    SkippedIsIndexed
    ScrapeFailsWithItsCrawl
PROPERTY
    RowsSettle
CHECK_DEADLOCK FALSE
