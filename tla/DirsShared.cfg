SPECIFICATION Spec
CONSTANTS
    Procs = {p1, p2}
    Depth = 3
    Others = {"remove", "file", "link"}
    Slashes = {FALSE, TRUE}
    Faults = TRUE
INVARIANTS
    TypeOK
    FailsForCause
    SuccessSawDirectory
CHECK_DEADLOCK FALSE
