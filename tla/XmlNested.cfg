SPECIFICATION Spec
CONSTANTS
    Subjects = {"xml"}
    main = main
    library = library
    leaf = leaf
    o1 = o1
    o2 = o2
    o3 = o3
    scalar = scalar
    amp = amp
    Nothing = Nothing
    Files = {main, library, leaf}
    Main = main
    Nowhere = Nothing
    Contents <- FileSystems
    MaxDepth = 3
    Objects = {o1, o2, o3}
    Scalars = {scalar, amp}
    NoContent = Nothing
    Character = "c"
    References = {amp}
    Referred = "&"
    Shapes <- Heaps
    Inputs = {o1, scalar}
    Room = 12
    Values <- Texts
    Keys <- SomeKeys
    Vectors <- SomeIvs
    Methods = {0, 1, 18, 24}
    NoVector = Nothing
    MaxCalls = 2
INVARIANTS
    ArraysExact
CHECK_DEADLOCK FALSE
