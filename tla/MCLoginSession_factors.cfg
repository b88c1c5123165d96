CONSTANTS
    Handlers = {h1, h2}
    Sessions = {s1}
    SignedIn = {s1}
    Challenges = {c1}
    Links = {}
    Ceremonies = {w1}
    MaxFailedLogins = 1
    InPlay = {"mfa", "passkey", "disable"}
    MaxEdits = 2
    None = None
SPECIFICATION Spec
SYMMETRY Interchangeable
INVARIANTS
    SignInWasEntitled
    OneTimeThingsWorkOnce
    EnabledSecretWasConfirmed
CHECK_DEADLOCK FALSE
