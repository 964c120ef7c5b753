SPECIFICATION FairSpec
CONSTANTS
    Sites = {"app", "api"}
    Events = {"paid"}
    APIVersions = {"v1", "v2"}
    Descriptions = {"billing"}
    Bindings = {"ours", "theirs"}
    Binding = "ours"
    NoBinding = "none"
    None = None
    Ops = {o1}
    Runs = {r1, r2, r3, r4}
    ActionTypes = {"REPLACE", "UPDATE"}
    Targets <- TwoVersions
    Foreign <- OneOwned
    Accounts = {TRUE, FALSE}
    Window = 1
    MaxClock = 3
    MaxFaults = 2
    TickInFlight = FALSE
INVARIANT TypeOK
PROPERTIES RefusalIsFinal OperationsSettle
CHECK_DEADLOCK FALSE
