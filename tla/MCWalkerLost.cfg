SPECIFICATION HwSpec
CONSTANTS
    Objects = 1
    Handles = {h1, h2}
    NULL = NULL
    max_requests = 2
    MaxRepos = 2
    MaxLost = 1
PROPERTY RunsToCompletion
CHECK_DEADLOCK FALSE
