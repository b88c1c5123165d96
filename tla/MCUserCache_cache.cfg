SPECIFICATION Spec
CONSTANTS
    s1 = s1
    s2 = s2
    s3 = s3
    a = a
    b = b
    Names = {a, b}
    Subs = {s1, s2}
    Directory <- MCDirectory
    Owner = a
    SigningIn = {a}
    Logins = {l1}
    Chains = {c1, c2}
    MaxGen = 1
    UidFor <- MCUidFor
    Uids = {1, 2, 3}
    CallerUid = 0
    Validity = 0
    MaxBusy = 2
    MaxCrashes = 0
    None = None
INVARIANTS
    
    UidsDistinct
PROPERTIES
    OfflineLoginBacked
CHECK_DEADLOCK FALSE
