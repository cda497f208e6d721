SPECIFICATION Spec
CONSTANTS
    PipeCapacity = 1
    InitialSize = 1
    MaxStdio = 1
    FdLimit = 4
    MaxOutput = 1
    MaxCalls = 1
INVARIANTS
    StdoutIsOfProgram
CHECK_DEADLOCK FALSE
