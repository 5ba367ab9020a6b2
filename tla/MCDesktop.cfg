SPECIFICATION DeskSpec
CONSTANTS
    GRID_WIDTH = 4
    GRID_HEIGHT = 4
    SHAPES <- ShapesOTI
    LEVEL_FREQS <- Freqs
    SOFT_FREQ = 1
    HARD_FREQ = 1
    LinesPerLevel = 2
    ByteRange = 3
    MinYear = 1890
    MaxYear = 2110
    StartDate <- Epoch
    RealDate <- LeapDay
    MaxTyped = 4
INVARIANTS
    TTypeOK ShapeFits NoFullRows
    SheetIsCalendar
    CalcTypeOK OperatorPending DisplayLagsOnlyAtZero
PROPERTIES
    BlocksConserved KeepsFalling DateTaken
