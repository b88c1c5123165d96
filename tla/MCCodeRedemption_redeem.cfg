CONSTANTS
    Codes = {k1}
    Clients = {c1, c2}
    Users = {u1}
    Public = {c1}
    Uris = {w1, w2}
    Verifiers = {v1}
    Handlers = {h1, h2, h3}
    Drivers = {"sqlite", "postgres"}
    NoVerifier = NoVerifier
    NoCode = NoCode
SPECIFICATION RedeemSpec
SYMMETRY Interchangeable
INVARIANT SqliteRedeemedOnce
CHECK_DEADLOCK FALSE
