SPECIFICATION FairSpec
CONSTANTS
    Headers = {h1}
    MaxRequests = 3
    MaxPrints = 1
    MaxLate = 1
    Overwritten = 7
    FastCgi = {FALSE, TRUE}
    Http = {FALSE, TRUE}
    InitCcsp = {FALSE, TRUE}
INVARIANTS
    TypeOK
    BodyExact
    SettingsExplained
    PrintListSound
    BindingsComplete
    ExitTruthful
PROPERTIES
    ServiceSpec
    RequestEnds
CHECK_DEADLOCK FALSE
