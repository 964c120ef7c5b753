SPECIFICATION Spec
CONSTANTS
    Sites = {"app", "api"}
    Events = {"paid"}
    APIVersions = {"v1", "v2"}
    Descriptions = {"billing"}
    Bindings = {"ours", "theirs"}
    Binding = "ours"
    NoBinding = "none"
    None = None
    Ops = {o1, o2, o3}
    Runs = {r1, r2, r3, r4}
    ActionTypes = {"CREATE", "REPLACE", "UPDATE", "DELETE", "IMPORT", "PROJECT_OUTPUT", "NO_OP"}
    Targets <- ThreeTargets
    Foreign <- OneForeign
    Accounts = {TRUE}
    Window = 1
    MaxClock = 0
    MaxFaults = 1
    TickInFlight = FALSE
SYMMETRY Symmetry
INVARIANTS StateDescribesEndpoint SecretStraysOnlyByUpdate
PROPERTIES ForeignUntouched LetGoOnlyWhenGone ImplementsProvision
CHECK_DEADLOCK FALSE
