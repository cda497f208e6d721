SPECIFICATION LiveSpec
CONSTANTS
    PipeCapacity = 1
    InitialSize = 1
    MaxStdio = 1
    FdLimit = 4
    MaxOutput = 2
    MaxCalls = 1
INVARIANTS
    TypeOK
    OutputKept
    NeverBlocked
    CompleteCapture
    FdLedger
PROPERTIES
    CallReturns
CHECK_DEADLOCK FALSE
