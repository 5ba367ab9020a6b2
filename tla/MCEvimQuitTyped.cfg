SPECIFICATION EvSpec
CONSTANTS
    QueueMax = 3
    Chunk = 2
    TabStop = 2
    ExpandTab = TRUE
    Texts <- OneLine
    Inputs <- TypedKeys
    ShortWrites = {}
    InitialSize = 100
    TextCap = 5
    UndoCap = 3
CHECK_DEADLOCK FALSE
INVARIANTS QuitKeepsText
