SPECIFICATION HwSpec
CONSTANTS
    Objects = 3
    Handles = {h1, h2}
    NULL = NULL
    max_requests = 2
    MaxRepos = 2
    MaxLost = 2
INVARIANTS SlotsCounted CompletionsBelong WaitersStand CallbacksLive
PROPERTY FetchEnds
CHECK_DEADLOCK FALSE
