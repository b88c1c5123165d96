CONSTANTS
    Devices = {d1, d2}
    Keys = {k1, k2}
    Handlers = {h1, h2}
    Enrollments = {e1, e2}
    Assertions = {a1}
    Rotations = {r1}
    Proofs <- MCProofs
    Use <- MCUse
    None = None
SPECIFICATION Spec
SYMMETRY Interchangeable
INVARIANTS
    OneDevicePerKey
    AcceptedOnce
    KeyProvenForDevice
PROPERTY RevokedIsFinal
CHECK_DEADLOCK FALSE
