\* Three batches on two threads, one of which may land torn; one walk at a time.
SPECIFICATION Spec
CONSTANTS
    MsinDivisor = 10
    Width = 16
    Fallback = 2
    Cap = 3
    PageSize = 1
    Workers = 2
    MaxTails = 1
    Batches <- MCBatches
    Subjects <- MCSubjects
CHECK_DEADLOCK FALSE
INVARIANTS
    BoardsMatch
    ReportsAddUp
    LogCoversStore
    RedisPageIsPage
    StillWalkIsExact
    WalkMissesNoStayer
