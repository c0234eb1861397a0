SPECIFICATION AppSpec
CONSTANTS
    Ids = {1, 2}
    Chans = {c1}
    PeerOf <- OwnPeer
    Amounts = {1, 2}
    Fees = {1}
    MaxQuotes = 2
    MaxTerms = 1
    MaxReloads = 1
    MaxFlips = 1
    MaxFetches = 2
    MaxPending = 1
    InitBatches = 2
    MaxBatches = 3
    BATCH_QUERY_LIMIT = 2
    Shas = {v1, v2}
    Prices = {1}
    Pubs = {p1, p2}
    Requests = {q1}
    Invoices = {1}
    MaxPublishes = 2
    HasEdge = TRUE
    SyncsEdge = TRUE
INVARIANTS TypeOK StepFollowsSwap SwapAsConfirmed NewestFirst SoldIsStored SalesRecorded ManifestCurrent
PROPERTIES ChannelsMarked EndedUnmarked ChannelsConverge OlderShown
CHECK_DEADLOCK FALSE
