SPECIFICATION EvSpec
CONSTANTS
    QueueMax = 3
    Chunk = 2
    TabStop = 2
    ExpandTab = TRUE
    Texts <- OneLine
    Inputs <- AllKeys
    ShortWrites = {0, 1, 2, 3, 4, 5, 6, 7}
    InitialSize = 100
    TextCap = 4
    UndoCap = 2
CHECK_DEADLOCK FALSE
INVARIANTS EvTypeOK EndsInNewline
