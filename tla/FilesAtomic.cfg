SPECIFICATION Spec
CONSTANTS
    Procs = {p1, p2}
    Nesting = {p1}
    Calls <- MCCalls
    Files = {f1}
    v1 = v1
    v2 = v2
    Values = {v1, v2}
    Strings <- MCStrings
    Absent = absent
    Undefined = undefined
    Chunks = 2
    Inodes = {i1, i2, i3, i4}
    None = none
SYMMETRY Symmetry
INVARIANTS
    TypeOK
    WriterExclusive
PROPERTIES
    AtomicSpec
CHECK_DEADLOCK FALSE
