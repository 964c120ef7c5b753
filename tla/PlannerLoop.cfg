SPECIFICATION Spec
CONSTANTS
    Sites = {"app", "api", "local"}
    PublicSites = {"app", "api"}
    Events = {"paid"}
    APIVersions = {"v1", "v2"}
    Unpinned = "latest"
    Descriptions = {"billing"}
    DefaultDescription = "billing"
    Bindings = {"ours", "theirs"}
    Binding = "ours"
    NoBinding = "none"
    RawInputs <- AllInputs
    Requests <- SomeRequests
    InitialAccounts <- UpToTwo
    MaxChanges = 1
INVARIANTS TypeOK ConvergesInOneRound CreatesOnlyWhereVacant ProjectsOnlyAServedURL
PROPERTY OthersUntouched
CHECK_DEADLOCK FALSE
