SPECIFICATION FairSpec
CONSTANTS
    Accounts = {a1}
    NoAcct = NoAcct
    Invoices = {i1, i2, i3}
    InitIndex = 1
    MaxCrashes = 2
    Faults = {}
CHECK_DEADLOCK FALSE
INVARIANT NoLostCredit
PROPERTY CreditEventually
