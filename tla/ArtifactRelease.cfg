SPECIFICATION Spec
CONSTANTS
    Codes = {"c1"}
    Manifests <- Edited
    RequestIds = {"observe", "create"}
    None = None
    MaxEdits = 1
    MaxSpawns = 2
INVARIANTS TypeOK RequestsMatchTheHost
CHECK_DEADLOCK FALSE
