SPECIFICATION Spec
CONSTANTS
    Sites = {"app", "api"}
    Events = {"paid"}
    APIVersions = {"v1", "v2"}
    Descriptions = {"billing"}
    Bindings = {"ours", "theirs"}
    Binding = "ours"
    NoBinding = "none"
    None = None
    Ops = {o1, o2, o3}
    Runs = {r1, r2, r3}
    ActionTypes = {"CREATE", "PROJECT_OUTPUT", "UPDATE"}
    Targets <- TwoSites
    Foreign <- NoForeign
    Accounts = {TRUE}
    Window = 1
    MaxClock = 0
    MaxFaults = 0
    TickInFlight = FALSE
INVARIANT SecretSurvivesUpdate
CHECK_DEADLOCK FALSE
