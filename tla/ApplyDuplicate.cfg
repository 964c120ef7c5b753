SPECIFICATION Spec
CONSTANTS
    Sites = {"app", "api"}
    Events = {"paid"}
    APIVersions = {"v1", "v2"}
    Descriptions = {"billing"}
    Bindings = {"ours", "theirs"}
    Binding = "ours"
    NoBinding = "none"
    None = None
    Ops = {o1}
    Runs = {r1, r2, r3}
    ActionTypes = {"CREATE"}
    Targets <- OneTarget
    Foreign <- NoForeign
    Accounts = {TRUE}
    Window = 1
    MaxClock = 3
    MaxFaults = 2
    TickInFlight = FALSE
INVARIANT NoDuplicateEndpoint
CHECK_DEADLOCK FALSE
