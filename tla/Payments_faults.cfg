SPECIFICATION Spec
CONSTANTS
    Accounts = {1, 2}
    InitAccts = {1}
    Hashes = {h1}
    Reqs = {r1, r2}
    NoReq = NoReq
    Kinds = {"v2","sync"}
    Values = {2}
    FeeLimits = {1}
    InitBalance = 6
    AdminAmounts = {}
    MaxBalance = 6
    MaxCrashes = 1
    Faults = {"share","remove","router","store","stream","expire"}
SYMMETRY Symmetry
CHECK_DEADLOCK FALSE
INVARIANTS TrackedReserved DebitsAreReal
