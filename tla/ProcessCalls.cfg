SPECIFICATION Spec
CONSTANTS
    Pids = {1, 2}
    InitSize = 4
    MaxItems = 3
    MaxCalls = 2
    MaxStarts = 3
INVARIANTS
    TypeOK
    ArgumentsExact
    MemorySound
    ChildrenLedger
    SignalTooLate
CHECK_DEADLOCK FALSE
