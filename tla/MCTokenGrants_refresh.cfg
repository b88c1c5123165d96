CONSTANTS
    Users = {u1}
    Clients = {c1}
    Devices = {d1}
    Keys = {k1}
    Scopes = {offline}
    OfflineAccess = offline
    TokenIds = {t1, t2, t3}
    Requests = {r1, r2}
    Drivers = {"sqlite", "postgres"}
    MaxChains = 1
    MaxExpired = 1
    NoUser = NoUser
    NoClient = NoClient
    NoDevice = NoDevice
    NoKey = NoKey
    NoToken = NoToken
SPECIFICATION Spec
SYMMETRY Interchangeable
INVARIANTS
    OneLivePerChain
    SqliteChainsStayDead
    AnsweredRefreshWasEntitled
    LineageKept
PROPERTIES
    ImplementsChains
CHECK_DEADLOCK FALSE
