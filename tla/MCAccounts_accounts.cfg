CONSTANTS
    u1 = u1
    u2 = u2
    u3 = u3
    a = a
    b = b
    Users = {u1, u2, u3}
    Names = {a, b}
    Tokens = {t1}
    Requests = {r1, r2}
    MaxFaults = 1
    None = None
    Gone = Gone
    Owner = u2
    InitialTables <- MCInitialTables
SPECIFICATION Spec
SYMMETRY Interchangeable
INVARIANTS
    NoTakeover
    MirrorHasEntry
    TokensStopWithAccount
PROPERTIES
    
    RejectionIsFinal
CHECK_DEADLOCK FALSE
