SPECIFICATION DaemonSpec
CONSTANTS
    Item = {i1, i2, i3, lnd1}
    Lnd = lnd1
    BufferSize = 1
    Sessions = {s1, s2}
    Kinds = {"lnc", "autopilot"}
    FirstSession = s1
    Backend = "sql"
    Requests = {r1, r2, r3}
    Amounts <- OfBothSigns
    TwoTo63 = 8
    AbsoluteAmtSats = 3
    MaxCrashes = 1
    MaxBudgetCrashes = 1
INVARIANTS DaemonTypeOK OneLivePerGroup RevokedNotServed BudgetHolds BooksAreRight
PROPERTIES FifoOrder DrainedOnClose StopReturns ErrorReachesMain TerminalStays OverdueEnds RevokedUntracked
CHECK_DEADLOCK FALSE
