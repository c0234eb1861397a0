SPECIFICATION Spec
CONSTANTS
    Accounts = {a1}
    NoAcct = NoAcct
    Invoices = {i1, i2}
    InitIndex = 1
    MaxCrashes = 1
    Faults = {"midcrash"}
SYMMETRY Symmetry
CHECK_DEADLOCK FALSE
INVARIANT NoLostCredit
