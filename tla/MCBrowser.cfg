SPECIFICATION WebSpec
CONSTANTS
    Urls = {home, news}
    InitialUrl = home
    None = None
    MaxRetries = 2
    RetryTicks = 2
    MayFail = TRUE
    QueueCap = 2
    HistoryCap = 2
    Frames = {f1, f2}
    NoFrame = NoFrame
    Heights = {0, 10}
    Views = {4, 8}
    Steps <- StepSet
    EventCap = 2
INVARIANTS BrTypeOK FrameOwnership ScrollerFresh
PROPERTIES RetryFires PoolRecovers
CHECK_DEADLOCK FALSE
