SPECIFICATION Spec
CONSTANTS
    Names = {n1, n2, n3}
    Props = {filename, savepath}
    NoProp = NoProp
    Served = {http_host}
    Room = 2
    MaxParams = 3
    MaxBody = 2
INVARIANTS
    TypeOK
    QueryExact
    ListMatchesStack
    BodyExact
CHECK_DEADLOCK FALSE
