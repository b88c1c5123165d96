CONSTANTS
    Codes = {k1}
    Users = {u1, u2}
    Devices = {d1}
    Owner <- MCOwner
    Handlers = {h1, h2, h3}
    NoUser = NoUser
    NoDevice = NoDevice
    NoCode = NoCode
SPECIFICATION Spec
SYMMETRY Interchangeable
INVARIANTS
    ExchangedOnce
    TokensOnlyForApprover
    DeviceAdmissibleAtExchange
PROPERTY DecisionIsFinal
CHECK_DEADLOCK FALSE
