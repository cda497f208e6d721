SPECIFICATION Spec
CONSTANTS
    Headers = {}
    MaxRequests = 3
    MaxPrints = 0
    MaxLate = 0
    Overwritten = 7
    FastCgi = {TRUE}
    Http = {TRUE}
    InitCcsp = {TRUE}
INVARIANTS
    CosaIsThere
CHECK_DEADLOCK FALSE
