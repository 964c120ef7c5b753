SPECIFICATION FairLifecycle
CONSTANTS
    Sites = {"app", "api"}
    PublicSites = {"app", "api"}
    Events = {"paid"}
    APIVersions = {"v1", "v2"}
    Unpinned = "latest"
    Descriptions = {"billing"}
    DefaultDescription = "billing"
    Bindings = {"ours", "theirs"}
    Binding = "ours"
    NoBinding = "none"
    None = None
    Ops <- Ops13
    Runs <- Runs15
    ActionTypes = {"CREATE", "REPLACE", "UPDATE", "PROJECT_OUTPUT", "NO_OP"}
    Targets <- AllTargets
    Foreign <- TheirsAndOurs
    Accounts = {TRUE}
    Window = 0
    MaxClock = 1
    MaxFaults = 1
    TickInFlight = FALSE
    RawInputs <- Inputs4
    MaxChanges = 1
    MaxAttempts = 2
INVARIANTS LifecycleTypeOK BillingFollowsEndpoint
PROPERTIES CreatesOnlyWhatIsMissing NoLateAdoption Converges
CHECK_DEADLOCK FALSE
