SPECIFICATION RSSpec
CONSTANTS
    Proc <- MCProc
    Ref <- OneRef
    InitLoose <- OneLoose
    InitPacked <- NonePacked
    FirstOid = 2
    MaxOid = 3
    MaxOps <- ReaderOps
    MaxFaults = 0
    Requests <- BareRequests
    AutoModes = {FALSE}
    OidsRecur = FALSE
    SignalWindow = FALSE
INVARIANT GivesUpLate
CHECK_DEADLOCK FALSE
