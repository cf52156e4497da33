SPECIFICATION FairSpec
CONSTANTS
    Urls <- MCUrls
    Seed = 1
    NoParent = none
    Offsite <- MCOffsite
    Sites <- SmallSites
    MaxWorkers = 3
    MaxDepths = {1, 2}
    MaxPagesValues = {3, 5}
INVARIANTS
    TypeOK
    RespectsMaxPages
    DepthsAreReal
    OneWorkerBreadthFirst
    OneWorkerComplete
PROPERTY
    CrawlEnds
    TreeSpec
CHECK_DEADLOCK FALSE
