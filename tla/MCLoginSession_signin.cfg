CONSTANTS
    Handlers = {h1, h2}
    Sessions = {s1, s2}
    SignedIn = {s1}
    Challenges = {c1}
    Links = {k1}
    Ceremonies = {}
    MaxFailedLogins = 1
    InPlay = {"password"}
    MaxEdits = 2
    None = None
SPECIFICATION Spec
SYMMETRY Interchangeable
INVARIANTS
    NoSessionSurvivesPasswordChange
    GuessesBounded
    OneTimeThingsWorkOnce
CHECK_DEADLOCK FALSE
