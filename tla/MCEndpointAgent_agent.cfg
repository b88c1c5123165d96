CONSTANTS
    Keys = {k1, k2}
    Devices = {d1, d2}
    Daemon = daemon
    Commands = {c1}
    BackendArgs = {"", "tpm"}
    AliasKept = FALSE
    None = None
SPECIFICATION Spec
INVARIANTS
    RecordNamesAcceptedKey
    
    
PROPERTY StatusFollowsServer
CHECK_DEADLOCK FALSE
