SPECIFICATION BrSpec
CONSTANTS
    Urls = {home, news}
    InitialUrl = home
    None = None
    MaxRetries = 2
    RetryTicks = 2
    MayFail = FALSE
    QueueCap = 2
    HistoryCap = 3
INVARIANTS TopIsCurrentPage
