SPECIFICATION Spec
CONSTANTS
    Headers = {h1}
    MaxRequests = 2
    MaxPrints = 1
    MaxLate = 1
    Overwritten = 7
    FastCgi = {TRUE}
    Http = {TRUE}
    InitCcsp = {FALSE}
INVARIANTS
    CookieIsOwn
CHECK_DEADLOCK FALSE
