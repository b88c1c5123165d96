CONSTANTS
    Browsers = {b1}
    Users = {u1}
    Clients = {c1, c2}
    Trusted = {c1}
    Uris = {w1}
    Asks = {a1}
    ReqIds = {i1}
    Codes = {k1}
    Handlers = {h1, h2}
    MaxLogins = 2
    Edited = {c1}
    NoUser = NoUser
    NoClient = NoClient
    NoUri = NoUri
    NoAsk = NoAsk
    NoReq = NoReq
    NoSession = NoSession
SPECIFICATION Spec
SYMMETRY Interchangeable
INVARIANTS
    
    CodeNamesASignIn
    NoLateOrStrayCode
CHECK_DEADLOCK FALSE
