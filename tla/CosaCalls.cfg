SPECIFICATION Spec
CONSTANTS
    Functions = {"getStr", "setStr", "getInstanceIds", "addTblObj", "delTblObj",
                 "DmExtGetStrsWithRootObj", "DmExtSetStrsWithRootObj", "DmExtGetInstanceIds"}
    Keys = {k1, k2}
    Objects = {"Device."}
    Values = {"short", "long"}
    Long = {"long"}
    Absent = absent
    Ids = {2, 10}
    BufferSize = 4
    MaxItems = 2
INVARIANTS
    TypeOK
    BlocksSound
PROPERTIES
    BatchIsWhole
    InstancesListed
