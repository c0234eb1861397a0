SPECIFICATION FairSpec
CONSTANTS
    Accounts = {1, 2}
    InitAccts = {1, 2}
    Hashes = {h1, h2}
    Reqs = {r1, r2}
    NoReq = NoReq
    Kinds = {"v2", "sync", "route"}
    Values = {2}
    FeeLimits = {1}
    InitBalance = 5
    AdminAmounts = {}
    MaxBalance = 6
    MaxCrashes = 2
    Faults = {}
CHECK_DEADLOCK FALSE
INVARIANTS OwnDebits PaymentsResumable RemovedNeverSucceeds StaysEnabled 
PROPERTIES SettleEventually ReleaseEventually
