SPECIFICATION Spec
CONSTANTS
    PageSize = 2
    MaxId = 4
    InitialSize = 3
    MaxEdits = 2
INVARIANTS TypeOK AbsentWithinAPage PresentWasOurs HealthyReadEverything
CHECK_DEADLOCK FALSE
