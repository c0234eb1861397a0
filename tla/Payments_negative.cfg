SPECIFICATION Spec
CONSTANTS
    Accounts = {1}
    InitAccts = {1}
    Hashes = {h1, h2}
    Reqs = {r1, r2}
    NoReq = NoReq
    Kinds = {"v2"}
    Values = {2}
    FeeLimits = {1}
    InitBalance = 5
    AdminAmounts = {}
    MaxBalance = 6
    MaxCrashes = 0
    Faults = {}
SYMMETRY Symmetry
CHECK_DEADLOCK FALSE
INVARIANT BalanceNonNegative
