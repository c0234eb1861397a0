SPECIFICATION Spec
CONSTANTS
    Accounts = {1}
    InitAccts = {1}
    Hashes = {h1, h2}
    Reqs = {r1, r2}
    NoReq = NoReq
    Kinds = {"v2","route"}
    Values = {2}
    FeeLimits = {1}
    InitBalance = 6
    AdminAmounts = {3}
    MaxBalance = 6
    MaxCrashes = 2
    Faults = {"settle", "store", "admin", "late"}
SYMMETRY Symmetry
CHECK_DEADLOCK FALSE
INVARIANTS SoleAttemptResumable
PROPERTY DebitOnce
