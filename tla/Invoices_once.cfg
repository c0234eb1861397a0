SPECIFICATION Spec
CONSTANTS
    Accounts = {a1, a2}
    NoAcct = NoAcct
    Invoices = {i1, i2, i3}
    InitIndex = 0
    MaxCrashes = 2
    Faults = {"remove", "stream", "store", "disable", "midcrash", "backlog"}
SYMMETRY Symmetry
CHECK_DEADLOCK FALSE
INVARIANTS CreditOnce
