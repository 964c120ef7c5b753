SPECIFICATION Spec
CONSTANTS
    Sites = {"app", "api"}
    Events = {"paid"}
    APIVersions = {"v1", "v2"}
    Descriptions = {"billing"}
    Bindings = {"ours", "theirs"}
    Binding = "ours"
    NoBinding = "none"
    None = None
    Ops = {o1, o2}
    Runs = {r1, r2, r3}
    ActionTypes = {"CREATE", "REPLACE"}
    Targets <- TwoVersions
    Foreign <- NoForeign
    Accounts = {TRUE}
    Window = 1
    MaxClock = 2
    MaxFaults = 2
    TickInFlight = TRUE
SYMMETRY Symmetry
INVARIANTS MintsAreAWindowApart DuplicateNeedsTwoRetries
PROPERTY ImplementsProvision
CHECK_DEADLOCK FALSE
