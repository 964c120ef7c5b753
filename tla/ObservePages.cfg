SPECIFICATION FairSpec
CONSTANTS
    PageSize = 2
    MaxObservePages = 2
    MaxId = 6
    InitialSize = 5
    Production = FALSE
    Unmoded = TRUE
    ExistingIds = {0, 1, 6}
INVARIANTS TypeOK ObservationIsComplete NothingObservedTwice NoForeignMode
PROPERTY ObserveEnds
CHECK_DEADLOCK FALSE
