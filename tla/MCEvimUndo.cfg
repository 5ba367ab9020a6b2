SPECIFICATION EvSpec
CONSTANTS
    QueueMax = 3
    Chunk = 2
    TabStop = 2
    ExpandTab = TRUE
    Texts <- TwoLines
    Inputs <- RecordedKeys
    ShortWrites = {0, 1}
    InitialSize = 100
    TextCap = 6
    UndoCap = 2
CHECK_DEADLOCK FALSE
INVARIANTS UndoRestoresOriginal UndoTakesBackCommand QuitDropsOnlyUndone
