SPECIFICATION Spec
CONSTANTS
    s1 = s1
    s2 = s2
    s3 = s3
    a = a
    b = b
    Names = {a}
    Subs = {s1, s3}
    Directory <- MCDirectory
    Owner = a
    SigningIn = {a}
    Logins = {l1}
    Chains = {c1, c2}
    MaxGen = 1
    UidFor <- MCUidFor
    Uids = {1, 2, 3}
    CallerUid = 0
    Validity = 0
    MaxBusy = 1
    MaxCrashes = 1
    None = None
INVARIANTS
    SecretBelongsToUser
PROPERTIES
    RevocationReachesMachine
CHECK_DEADLOCK FALSE
