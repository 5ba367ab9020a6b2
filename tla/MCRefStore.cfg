SPECIFICATION RSSpec
CONSTANTS
    Proc <- MCProc
    Ref <- MCRef
    InitLoose <- MCLoose
    InitPacked <- MCPacked
    FirstOid = 3
    MaxOid = 4
    MaxOps <- MCOps
    MaxFaults = 1
    Requests <- MCRequests
    AutoModes = {FALSE}
    OidsRecur = FALSE
    SignalWindow = FALSE
INVARIANT RSTypeOK
INVARIANT ReadsAreCurrent
INVARIANT NothingLeftBehind
INVARIANT UpdatesBeforeDeletes
CHECK_DEADLOCK FALSE
PROPERTY ImplementsRefMap
PROPERTY OperationsEnd
